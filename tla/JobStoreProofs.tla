--------------------------- MODULE JobStoreProofs ---------------------------
(***************************************************************************)
(* Proofs about JobStore for every number of pages and workers, every      *)
(* retry limit, every set of lease lengths and every bound.                *)
(***************************************************************************)
EXTENDS JobStore, FiniteSetTheorems, TLAPS

\* A set of pages is finite and no larger than the job.
LEMMA PageSets ==
  ASSUME NEW S \in SUBSET Pages
  PROVE  IsFiniteSet(S) /\ Cardinality(S) \in 0 .. PageCount
<1>1. IsFiniteSet(Pages) /\ Cardinality(Pages) = PageCount
  <2>1. PageCount \in Nat /\ 0 \in Int /\ PageCount - 1 \in Int
    BY PageCountAssumption
  <2>2. IsFiniteSet(0 .. PageCount - 1)
        /\ Cardinality(0 .. PageCount - 1)
             = IF 0 > PageCount - 1 THEN 0 ELSE PageCount - 1 - 0 + 1
    BY <2>1, FS_Interval
  <2>3. QED
    BY <2>2, PageCountAssumption DEF Pages
<1>2. IsFiniteSet(S) /\ Cardinality(S) <= Cardinality(Pages)
  BY <1>1, FS_Subset
<1>3. Cardinality(S) \in Nat
  BY <1>2, FS_CardinalityType
<1>4. QED
  BY <1>1, <1>2, <1>3, PageCountAssumption

\* What a worker's commit, its claim and its failure report do to the types.
LEMMA CommitType ==
  ASSUME TypeOK, NEW p \in Pages, NEW o \in Owners, NEW digest \in Digests,
         NEW t \in Times, Commit(p, o, digest, t)
  PROVE  /\ jobStatus' \in JobStatuses /\ completedPages' \in 0 .. PageCount
         /\ pageStatus' \in [Pages -> PageStatuses]
         /\ checkpoint' \in [Pages -> Digests \cup {Null}]
         /\ pageOwner' \in [Pages -> Owners \cup {Null}]
         /\ pageLease' \in [Pages -> 0 .. MaxTime \cup {NoLease}]
         /\ UNCHANGED <<now, cancelRequested, retries, jobOwner, jobLease, attempts>>
<1>1. pageStatus' \in [Pages -> PageStatuses]
  BY DEF TypeOK, Commit, PageStatuses
<1>2. completedPages' \in 0 .. PageCount
  <2>1. Completed(pageStatus') \in SUBSET Pages
    BY DEF Completed
  <2>2. QED
    BY <2>1, PageSets DEF Commit
<1>3. jobStatus' \in JobStatuses
  BY DEF TypeOK, Commit, Verdict, JobStatuses
<1>4. QED
  BY <1>1, <1>2, <1>3 DEF TypeOK, Commit

LEMMA TakeType ==
  ASSUME TypeOK, NEW p \in Pages, NEW o \in Owners, NEW t \in Times,
         NEW lease \in Leases, Take(p, o, t, lease)
  PROVE  TypeOK'
<1>1. t + lease \in 0 .. MaxTime
  BY LeasesAssumption, ClockAssumption DEF Times, Take
<1>2. attempts' \in [Pages -> 0 .. AttemptBound]
  BY AttemptBoundAssumption DEF TypeOK, Take
<1>3. QED
  BY <1>1, <1>2 DEF TypeOK, Take, JobStatuses, PageStatuses, runVars

LEMMA GiveBackType ==
  ASSUME TypeOK, NEW p \in Pages, NEW outcome \in {"queued", "failed", "cancelled"},
         GiveBack(p, outcome), jobStatus' \in JobStatuses,
         succeededRuns' \in [Pages -> Nat], failedRuns' \in [Pages -> Nat]
  PROVE  TypeOK'
<1>1. pageStatus' \in [Pages -> PageStatuses]
  BY DEF TypeOK, GiveBack, PageStatuses
<1>2. retries' \in Nat
  BY DEF TypeOK, GiveBack
<1>3. pageOwner' \in [Pages -> Owners \cup {Null}]
      /\ pageLease' \in [Pages -> 0 .. MaxTime \cup {NoLease}]
  BY DEF TypeOK, GiveBack
<1>4. QED
  BY <1>1, <1>2, <1>3 DEF TypeOK, GiveBack

LEMMA FailureOutcomes ==
  ASSUME NEW p, NEW retryable
  PROVE  FailureOutcome(p, retryable) \in {"queued", "failed", "cancelled"}
BY DEF FailureOutcome

\* TypeOK is inductive.
LEMMA TypeStep == TypeOK /\ [Next]_vars => TypeOK'
<1> SUFFICES ASSUME TypeOK, [Next]_vars PROVE TypeOK'
  OBVIOUS
<1>1. ASSUME NEW o \in Owners, NEW t \in Times, NEW lease \in Leases,
             ClaimPage(o, t, lease)
      PROVE  TypeOK'
  BY <1>1, TakeType DEF ClaimPage
<1>2. ASSUME NEW p \in Pages, NEW o \in Owners, NEW t \in Times,
             NEW lease \in Leases, ClaimPageAt(p, o, t, lease)
      PROVE  TypeOK'
  BY <1>2, TakeType DEF ClaimPageAt
<1>3. ASSUME NEW o \in Owners, NEW t \in Times, NEW lease \in Leases,
             Heartbeat(o, t, lease)
      PROVE  TypeOK'
  <2>1. t + lease \in 0 .. MaxTime
    BY <1>3, LeasesAssumption, ClockAssumption DEF Times, Heartbeat
  <2>2. QED
    BY <1>3, <2>1 DEF TypeOK, Heartbeat, runVars
<1>4. ASSUME NEW p \in Pages, NEW o \in Owners, NEW digest \in Digests,
             NEW t \in Times, CheckpointPage(p, o, digest, t)
      PROVE  TypeOK'
  <2>1. Commit(p, o, digest, t) /\ UNCHANGED <<succeededRuns, failedRuns>>
    BY <1>4 DEF CheckpointPage, runVars
  <2>2. QED
    BY <2>1, CommitType DEF TypeOK
<1>5. ASSUME NEW p \in Pages, NEW o \in Owners, NEW digest \in Digests,
             NEW t \in Times, RecordProviderSuccess(p, o, digest, t)
      PROVE  TypeOK'
  <2>1. Commit(p, o, digest, t)
    BY <1>5 DEF RecordProviderSuccess
  <2>2. succeededRuns' \in [Pages -> Nat] /\ failedRuns' = failedRuns
    BY <1>5 DEF RecordProviderSuccess, TypeOK
  <2>3. QED
    BY <2>1, <2>2, CommitType DEF TypeOK
<1>6. ASSUME NEW p \in Pages, NEW o \in Owners, NEW t \in Times,
             NEW retryable \in BOOLEAN, FailPage(p, o, t, retryable)
      PROVE  TypeOK'
  <2>1. FailureOutcome(p, retryable) \in {"queued", "failed", "cancelled"}
    BY FailureOutcomes
  <2>2. jobStatus' \in JobStatuses /\ UNCHANGED <<succeededRuns, failedRuns>>
    BY <1>6, <2>1 DEF FailPage, TypeOK, JobStatuses, runVars
  <2>3. GiveBack(p, FailureOutcome(p, retryable))
    BY <1>6 DEF FailPage
  <2>4. QED
    BY <2>1, <2>2, <2>3, GiveBackType DEF TypeOK
<1>7. ASSUME NEW p \in Pages, NEW o \in Owners, NEW t \in Times,
             NEW retryable \in BOOLEAN, RecordProviderFailure(p, o, t, retryable)
      PROVE  TypeOK'
  <2>1. FailureOutcome(p, retryable) \in {"queued", "failed", "cancelled"}
    BY FailureOutcomes
  <2>2. jobStatus' \in JobStatuses /\ succeededRuns' = succeededRuns
        /\ failedRuns' \in [Pages -> Nat]
    BY <1>7, <2>1 DEF RecordProviderFailure, TypeOK, JobStatuses
  <2>3. GiveBack(p, FailureOutcome(p, retryable))
    BY <1>7 DEF RecordProviderFailure
  <2>4. QED
    BY <2>1, <2>2, <2>3, GiveBackType DEF TypeOK
<1>8. CASE RequestCancel
  BY <1>8 DEF TypeOK, RequestCancel, PageStatuses, JobStatuses, runVars
<1>9. ASSUME NEW t \in Times, RecoverExpired(t)
      PROVE  TypeOK'
  <2>1. pageStatus' \in [Pages -> PageStatuses]
    BY <1>9 DEF TypeOK, RecoverExpired, RecoveredPage, PageStatuses
  <2>2. jobStatus' \in JobStatuses
    BY <1>9 DEF TypeOK, RecoverExpired, RecoveredJob, JobStatuses
  <2>3. QED
    BY <1>9, <2>1, <2>2 DEF TypeOK, RecoverExpired, runVars
<1>10. CASE Tick
  BY <1>10, ClockAssumption DEF TypeOK, Tick, jobVars, pageVars, runVars
<1>11. CASE UNCHANGED vars
  BY <1>11 DEF TypeOK, vars, jobVars, pageVars, runVars
<1>12. QED
  BY <1>1, <1>2, <1>3, <1>4, <1>5, <1>6, <1>7, <1>8, <1>9, <1>10, <1>11
  DEF Next, WorkerStep, Recover

\* The columns of the store always hold values of their domains.
THEOREM TypeCorrect == Spec => []TypeOK
<1>1. Init => TypeOK
  <2> SUFFICES ASSUME Init PROVE TypeOK
    OBVIOUS
  <2>1. 0 \in 0 .. MaxTime /\ 0 \in 0 .. PageCount /\ 0 \in 0 .. AttemptBound
    BY PageCountAssumption, ClockAssumption, AttemptBoundAssumption
  <2>2. QED
    BY <2>1 DEF Init, TypeOK, JobStatuses, PageStatuses
<1>2. QED
  BY <1>1, TypeStep, PTL DEF Spec

-----------------------------------------------------------------------------
(* Which rows each operation may touch: claims and reports only concern    *)
(* pages that are waiting or running, and never the row of a settled one.  *)

LEMMA OwnsRunning ==
  ASSUME NEW p, NEW o, NEW t, Owns(p, o, t)
  PROVE  p \in Pages /\ pageStatus[p] = "running" /\ pageOwner[p] = o
BY DEF Owns, LivePages, RunningPages

LEMMA ClaimedWasUnsettled ==
  ASSUME NEW p \in Pages, NEW o, NEW t, Open(p, t) \/ Owns(p, o, t)
  PROVE  pageStatus[p] \in {"queued", "running"}
BY DEF Open, Owns, LivePages, RunningPages

\* Every step is one of these, with the page it concerns.
LEMMA StepCases ==
  ASSUME [Next]_vars
  PROVE  \/ \E p \in Pages, o \in Owners, t \in Times, lease \in Leases :
              /\ Accepts(o, t) /\ (Open(p, t) \/ Owns(p, o, t))
              /\ Take(p, o, t, lease)
         \/ \E o \in Owners, t \in Times, lease \in Leases : Heartbeat(o, t, lease)
         \/ \E p \in Pages, o \in Owners, digest \in Digests, t \in Times :
              /\ Commit(p, o, digest, t) /\ failedRuns' = failedRuns
              /\ \/ succeededRuns' = succeededRuns
                 \/ succeededRuns' = [succeededRuns EXCEPT ![p] = @ + 1]
         \/ \E p \in Pages, o \in Owners, t \in Times, retryable \in BOOLEAN :
              FailPage(p, o, t, retryable) \/ RecordProviderFailure(p, o, t, retryable)
         \/ RequestCancel
         \/ \E t \in Times : RecoverExpired(t)
         \/ Tick
         \/ UNCHANGED vars
<1>1. ASSUME NEW o \in Owners, NEW t \in Times, NEW lease \in Leases,
             ClaimPage(o, t, lease)
      PROVE  \E p \in Pages : /\ Accepts(o, t) /\ (Open(p, t) \/ Owns(p, o, t))
                             /\ Take(p, o, t, lease)
  BY <1>1 DEF ClaimPage
<1>2. ASSUME NEW p \in Pages, NEW o \in Owners, NEW digest \in Digests,
             NEW t \in Times,
             CheckpointPage(p, o, digest, t) \/ RecordProviderSuccess(p, o, digest, t)
      PROVE  /\ Commit(p, o, digest, t) /\ failedRuns' = failedRuns
             /\ \/ succeededRuns' = succeededRuns
                \/ succeededRuns' = [succeededRuns EXCEPT ![p] = @ + 1]
  BY <1>2 DEF CheckpointPage, RecordProviderSuccess, runVars
<1>3. QED
  BY <1>1, <1>2 DEF Next, WorkerStep, Recover, ClaimPageAt

-----------------------------------------------------------------------------
(* Cancellation and completion.                                            *)

JobInv == CancellationWins /\ CompletedMeansAllPages

LEMMA JobInvStep == TypeOK /\ JobInv /\ [Next]_vars => JobInv'
<1> SUFFICES ASSUME TypeOK, JobInv, [Next]_vars PROVE JobInv'
  OBVIOUS
<1> USE DEF JobInv, CancellationWins, CompletedMeansAllPages, Completed
<1>1. ASSUME NEW p \in Pages, NEW o \in Owners, NEW t \in Times,
             NEW lease \in Leases, Accepts(o, t), Take(p, o, t, lease)
      PROVE  JobInv'
  BY <1>1 DEF TypeOK, Accepts, Take
<1>2. ASSUME NEW o \in Owners, NEW t \in Times, NEW lease \in Leases,
             Heartbeat(o, t, lease)
      PROVE  JobInv'
  BY <1>2 DEF Heartbeat
<1>3. ASSUME NEW p \in Pages, NEW o \in Owners, NEW digest \in Digests,
             NEW t \in Times, Commit(p, o, digest, t)
      PROVE  JobInv'
  <2>1. pageStatus[p] = "running" /\ jobStatus # "completed"
    BY <1>3, OwnsRunning DEF Commit
  <2>2. pageStatus' = [pageStatus EXCEPT ![p] = "completed"]
        /\ jobStatus' = Verdict(pageStatus') /\ cancelRequested' = cancelRequested
    BY <1>3 DEF Commit
  <2>3. CancellationWins'
    BY <2>1, <2>2 DEF TypeOK, Verdict
  <2>4. ASSUME jobStatus' = "completed"
        PROVE  \A q \in Pages : pageStatus'[q] = "completed"
    BY <2>1, <2>2, <2>4 DEF TypeOK, Verdict
  <2>5. QED
    BY <2>3, <2>4
<1>4. ASSUME NEW p \in Pages, NEW o \in Owners, NEW t \in Times,
             NEW retryable \in BOOLEAN,
             FailPage(p, o, t, retryable) \/ RecordProviderFailure(p, o, t, retryable)
      PROVE  JobInv'
  <2>1. pageStatus[p] = "running" /\ jobStatus # "completed"
    BY <1>4, OwnsRunning DEF FailPage, RecordProviderFailure
  <2>2. GiveBack(p, FailureOutcome(p, retryable))
    BY <1>4 DEF FailPage, RecordProviderFailure
  <2>3. FailureOutcome(p, retryable) = "cancelled" <=> cancelRequested
    BY DEF FailureOutcome
  <2>4. \/ jobStatus' = FailureOutcome(p, retryable)
        \/ jobStatus' = jobStatus /\ cancelRequested
    BY <1>4, <2>3 DEF FailPage, RecordProviderFailure
  <2>5. FailureOutcome(p, retryable) \in {"queued", "failed", "cancelled"}
    BY FailureOutcomes
  <2>6. pageStatus' = [pageStatus EXCEPT ![p] = FailureOutcome(p, retryable)]
        /\ cancelRequested' = cancelRequested
    BY <2>2 DEF GiveBack
  <2>7. QED
    BY <2>1, <2>3, <2>4, <2>5, <2>6 DEF TypeOK
<1>5. CASE RequestCancel
  BY <1>5 DEF RequestCancel, TypeOK, FinalJobStatuses
<1>6. ASSUME NEW t \in Times, RecoverExpired(t)
      PROVE  JobInv'
  <2>1. cancelRequested' = cancelRequested
    BY <1>6 DEF RecoverExpired
  <2>2. \A p \in Pages :
           \/ pageStatus'[p] = pageStatus[p]
           \/ pageStatus[p] = "running" /\ pageStatus'[p] = RecoveredPage(p)
    BY <1>6 DEF RecoverExpired, RunningPages, TypeOK
  <2>3. \A p \in Pages : /\ RecoveredPage(p) = "cancelled" <=> cancelRequested
                         /\ cancelRequested => RecoveredPage(p) # "queued"
    BY DEF RecoveredPage, TypeOK
  <2>4. \/ jobStatus' = jobStatus
        \/ jobStatus' = RecoveredJob(pageStatus')
    BY <1>6 DEF RecoverExpired, TypeOK
  <2>5. RecoveredJob(pageStatus') \in {"cancelled", "failed", "queued"}
        /\ (RecoveredJob(pageStatus') = "cancelled" <=> cancelRequested)
    BY DEF RecoveredJob, TypeOK
  <2>6. CancellationWins'
    <3>1. cancelRequested' <=> (jobStatus \in {"cancelling", "cancelled"})'
      BY <2>1, <2>4, <2>5
    <3>2. ASSUME NEW p \in Pages
          PROVE  /\ cancelRequested' => pageStatus'[p] # "queued"
                 /\ pageStatus'[p] = "cancelled" => cancelRequested'
      <4>1. CASE pageStatus'[p] = pageStatus[p]
        BY <4>1, <2>1
      <4>2. CASE pageStatus'[p] = RecoveredPage(p)
        BY <4>2, <2>1, <2>3
      <4>3. QED
        BY <4>1, <4>2, <2>2
    <3>3. QED
      BY <3>1, <3>2
  <2>7. ASSUME jobStatus' = "completed", NEW p \in Pages
        PROVE  pageStatus'[p] = "completed"
    <3>1. jobStatus = "completed"
      BY <2>4, <2>5, <2>7
    <3>2. pageStatus[p] = "completed"
      BY <3>1
    <3>3. QED
      BY <2>2, <3>2
  <2>8. QED
    BY <2>6, <2>7
<1>7. CASE Tick
  BY <1>7 DEF Tick, jobVars, pageVars
<1>8. CASE UNCHANGED vars
  BY <1>8 DEF vars, jobVars, pageVars
<1>9. QED
  BY <1>1, <1>2, <1>3, <1>4, <1>5, <1>6, <1>7, <1>8, StepCases

LEMMA JobInvCorrect == Spec => []JobInv
<1>1. Init => JobInv
  BY PageCountAssumption
  DEF Init, JobInv, CancellationWins, CompletedMeansAllPages
<1>2. QED
  BY <1>1, JobInvStep, TypeCorrect, PTL DEF Spec

\* A requested cancellation is never lost, overtaken or made up, whatever
\* claims, failures, retries and recoveries come in between.
THEOREM CancellationWinsCorrect == Spec => []CancellationWins
BY JobInvCorrect, PTL DEF JobInv

\* A job is reported completed only when all its pages are.
THEOREM CompletedMeansAllPagesCorrect == Spec => []CompletedMeansAllPages
BY JobInvCorrect, PTL DEF JobInv

-----------------------------------------------------------------------------
(* The counter and the checkpoints.                                        *)

\* What every step but a commit leaves alone.
LEMMA CompletedFrame ==
  ASSUME TypeOK, [Next]_vars,
         ~ \E p \in Pages, o \in Owners, digest \in Digests, t \in Times :
               Commit(p, o, digest, t)
  PROVE  /\ UNCHANGED <<completedPages, checkpoint>>
         /\ Completed(pageStatus') = Completed(pageStatus)
<1>1. ASSUME NEW p \in Pages, NEW o \in Owners, NEW t \in Times,
             NEW lease \in Leases, Open(p, t) \/ Owns(p, o, t),
             Take(p, o, t, lease)
      PROVE  /\ UNCHANGED <<completedPages, checkpoint>>
             /\ Completed(pageStatus') = Completed(pageStatus)
  <2>1. pageStatus[p] \in {"queued", "running"}
    BY <1>1, ClaimedWasUnsettled
  <2>2. QED
    BY <1>1, <2>1 DEF Take, TypeOK, Completed
<1>2. ASSUME NEW p \in Pages, NEW o \in Owners, NEW t \in Times,
             NEW retryable \in BOOLEAN,
             FailPage(p, o, t, retryable) \/ RecordProviderFailure(p, o, t, retryable)
      PROVE  /\ UNCHANGED <<completedPages, checkpoint>>
             /\ Completed(pageStatus') = Completed(pageStatus)
  <2>1. GiveBack(p, FailureOutcome(p, retryable)) /\ Owns(p, o, t)
    BY <1>2 DEF FailPage, RecordProviderFailure
  <2>2. FailureOutcome(p, retryable) # "completed"
    BY FailureOutcomes
  <2>3. pageStatus[p] = "running"
    BY <2>1, OwnsRunning
  <2>4. QED
    BY <2>1, <2>2, <2>3 DEF GiveBack, TypeOK, Completed
<1>3. ASSUME RequestCancel
      PROVE  /\ UNCHANGED <<completedPages, checkpoint>>
             /\ Completed(pageStatus') = Completed(pageStatus)
  BY <1>3 DEF RequestCancel, TypeOK, Completed
<1>4. ASSUME NEW t \in Times, RecoverExpired(t)
      PROVE  /\ UNCHANGED <<completedPages, checkpoint>>
             /\ Completed(pageStatus') = Completed(pageStatus)
  <2>1. \A p \in Pages :
           \/ pageStatus'[p] = pageStatus[p]
           \/ pageStatus[p] = "running" /\ pageStatus'[p] = RecoveredPage(p)
    BY <1>4 DEF RecoverExpired, RunningPages, TypeOK
  <2>2. \A p \in Pages : RecoveredPage(p) # "completed"
    BY DEF RecoveredPage
  <2>3. QED
    BY <1>4, <2>1, <2>2 DEF RecoverExpired, Completed
<1>5. ASSUME \/ UNCHANGED vars \/ Tick
             \/ \E o \in Owners, t \in Times, lease \in Leases : Heartbeat(o, t, lease)
      PROVE  /\ UNCHANGED <<completedPages, checkpoint>>
             /\ Completed(pageStatus') = Completed(pageStatus)
  BY <1>5 DEF vars, Tick, Heartbeat, jobVars, pageVars, Completed
<1>6. QED
  BY <1>1, <1>2, <1>3, <1>4, <1>5, StepCases

LEMMA CounterStep == TypeOK /\ CounterMatchesPages /\ [Next]_vars => CounterMatchesPages'
<1> SUFFICES ASSUME TypeOK, CounterMatchesPages, [Next]_vars
             PROVE  CounterMatchesPages'
  OBVIOUS
<1>1. ASSUME NEW p \in Pages, NEW o \in Owners, NEW digest \in Digests,
             NEW t \in Times, Commit(p, o, digest, t)
      PROVE  CounterMatchesPages'
  <2>1. completedPages' = Cardinality(Completed(pageStatus'))
    BY <1>1 DEF Commit
  <2>2. \A q \in Pages : pageStatus'[q] = "completed" <=> checkpoint'[q] # Null
    BY <1>1, NullAssumption DEF Commit, TypeOK, CounterMatchesPages
  <2>3. QED
    BY <2>1, <2>2 DEF CounterMatchesPages
<1>2. CASE ~ \E p \in Pages, o \in Owners, digest \in Digests, t \in Times :
                 Commit(p, o, digest, t)
  <2>1. /\ UNCHANGED <<completedPages, checkpoint>>
        /\ Completed(pageStatus') = Completed(pageStatus)
    BY <1>2, CompletedFrame
  <2>2. \A q \in Pages : pageStatus'[q] = "completed" <=> pageStatus[q] = "completed"
    BY <2>1 DEF Completed
  <2>3. QED
    BY <2>1, <2>2 DEF CounterMatchesPages
<1>3. QED
  BY <1>1, <1>2

\* The job's counter is the number of its completed pages, and these are the
\* pages with a checkpoint.
THEOREM CounterCorrect == Spec => []CounterMatchesPages
<1>1. Init => CounterMatchesPages
  <2> SUFFICES ASSUME Init PROVE CounterMatchesPages
    OBVIOUS
  <2>1. Completed(pageStatus) = {}
    BY DEF Init, Completed
  <2>2. QED
    BY <2>1, FS_EmptySet DEF Init, CounterMatchesPages
<1>2. QED
  BY <1>1, CounterStep, TypeCorrect, PTL DEF Spec

\* A committed checkpoint is never replaced or dropped.
THEOREM CheckpointsFinalCorrect == Spec => CheckpointsAreFinal
<1>1. ASSUME TypeOK, CounterMatchesPages, [Next]_vars, NEW p \in Pages,
             checkpoint[p] # Null
      PROVE  checkpoint'[p] = checkpoint[p]
  <2>1. ASSUME NEW q \in Pages, NEW o \in Owners, NEW digest \in Digests,
               NEW t \in Times, Commit(q, o, digest, t)
        PROVE  checkpoint'[p] = checkpoint[p]
    <3>1. pageStatus[q] = "running" /\ pageStatus[p] = "completed"
      BY <1>1, <2>1, OwnsRunning DEF Commit, CounterMatchesPages
    <3>2. QED
      BY <1>1, <2>1, <3>1 DEF Commit, TypeOK
  <2>2. QED
    BY <1>1, <2>1, CompletedFrame
<1>2. TypeOK /\ CounterMatchesPages /\ [Next]_vars
        => [\A p \in Pages : checkpoint[p] # Null => checkpoint'[p] = checkpoint[p]]_vars
  BY <1>1
<1>3. QED
  BY <1>2, TypeCorrect, CounterCorrect, PTL DEF Spec, CheckpointsAreFinal

\* A completed or cancelled job is never reopened.
THEOREM VerdictFinalCorrect == Spec => CompletedAndCancelledAreFinal
<1>1. ASSUME TypeOK, JobInv, [Next]_vars, jobStatus \in {"completed", "cancelled"}
      PROVE  UNCHANGED jobStatus
  <2>1. CASE jobStatus = "completed"
    <3>1. \A p \in Pages : pageStatus[p] = "completed"
      BY <1>1, <2>1 DEF JobInv, CompletedMeansAllPages, Completed
    <3>2. \A p \in Pages : \A o, t : ~ Owns(p, o, t)
      BY <3>1, OwnsRunning
    <3>3. QED
      BY <2>1, <3>2, <1>1, StepCases
      DEF Accepts, FinalJobStatuses, Heartbeat, Commit, FailPage,
          RecordProviderFailure, RequestCancel, RecoverExpired, OverdueJob,
          Tick, vars, jobVars
  <2>2. CASE jobStatus = "cancelled"
    <3>1. cancelRequested
      BY <1>1, <2>2 DEF JobInv, CancellationWins
    <3>2. ASSUME NEW p \in Pages, NEW o \in Owners, NEW digest \in Digests,
                 NEW t \in Times, Commit(p, o, digest, t)
          PROVE  UNCHANGED jobStatus
      BY <2>2, <3>1, <3>2 DEF Commit, Verdict
    <3>3. ASSUME NEW p \in Pages, NEW o \in Owners, NEW t \in Times,
                 NEW retryable \in BOOLEAN,
                 FailPage(p, o, t, retryable)
                   \/ RecordProviderFailure(p, o, t, retryable)
          PROVE  UNCHANGED jobStatus
      <4>1. FailureOutcome(p, retryable) = "cancelled"
        BY <3>1 DEF FailureOutcome
      <4>2. QED
        BY <2>2, <3>3, <4>1 DEF FailPage, RecordProviderFailure
    <3>4. QED
      BY <1>1, <2>2, <3>2, <3>3, StepCases
      DEF Accepts, FinalJobStatuses, Heartbeat, RequestCancel,
          RecoverExpired, OverdueJob, Tick, vars, jobVars
  <2>3. QED
    BY <1>1, <2>1, <2>2
<1>2. TypeOK /\ JobInv /\ [Next]_vars
        => [(jobStatus \in {"completed", "cancelled"}) => UNCHANGED jobStatus]_vars
  BY <1>1
<1>3. QED
  BY <1>2, TypeCorrect, JobInvCorrect, PTL DEF Spec, CompletedAndCancelledAreFinal

-----------------------------------------------------------------------------
(* The worker lease, whatever lag the workers' clocks have.                *)

\* Lag and lease lengths are numbers, and an operation's time is not ahead.
LEMMA LagIs ==
  ASSUME TypeOK, NEW t \in Times
  PROVE  /\ now \in Nat /\ t \in Nat /\ ClockLag \in Nat
         /\ t <= now /\ now <= t + ClockLag
BY ClockAssumption DEF TypeOK, Times

LEMMA LeasesAreNumbers ==
  ASSUME TypeOK, NEW p \in Pages
  PROVE  pageLease[p] \in Int /\ jobLease \in Int
BY ClockAssumption DEF TypeOK, NoLease

\* A lease that has not ended had not ended earlier either, and one that an
\* older clock still sees, but the real one does not, ran out while its owner
\* waited.
LEMMA LiveIsLive ==
  ASSUME TypeOK, NEW t \in Times
  PROVE  LivePages(now) \subseteq LivePages(t)
<1> SUFFICES ASSUME NEW p \in LivePages(now) PROVE p \in LivePages(t)
  OBVIOUS
<1>1. p \in Pages /\ p \in RunningPages /\ pageLease[p] # NoLease /\ pageLease[p] > now
  BY DEF LivePages, RunningPages, Live
<1>2. pageLease[p] > t
  BY <1>1, LagIs, LeasesAreNumbers
<1>3. QED
  BY <1>1, <1>2 DEF LivePages, Live

LEMMA CaughtOrLive ==
  ASSUME TypeOK, NEW t \in Times, NEW p \in LivePages(t)
  PROVE  pageOwner[p] \in LiveWorkers \/ CaughtWaiting(pageOwner[p])
<1>1. p \in Pages /\ p \in RunningPages /\ pageLease[p] # NoLease /\ pageLease[p] > t
  BY DEF LivePages, RunningPages, Live
<1>2. CASE pageLease[p] > now
  BY <1>1, <1>2 DEF LivePages, Live, LiveWorkers
<1>3. CASE ~(pageLease[p] > now)
  <2>1. pageLease[p] <= now /\ now < pageLease[p] + ClockLag
    BY <1>1, <1>3, LagIs, LeasesAreNumbers
  <2>2. QED
    BY <1>1, <2>1 DEF CaughtWaiting
<1>4. QED
  BY <1>2, <1>3

\* A step that takes no new lease, and extends none, adds no worker.
LEMMA NobodyJoins ==
  ASSUME \A p \in LivePages(now)' : p \in LivePages(now) /\ pageOwner'[p] = pageOwner[p]
  PROVE  LiveWorkers' \subseteq LiveWorkers
BY DEF LiveWorkers

LEMMA ClaimJoins ==
  ASSUME TypeOK, NEW p \in Pages, NEW w \in Owners, NEW t \in Times, NEW lease \in Leases,
         Accepts(w, t), Take(p, w, t, lease), NEW o \in LiveWorkers' \ LiveWorkers
  PROVE  LiveWorkers' = {o} \/ CaughtWaiting(o)
<1>1. \A q \in LivePages(now)' : \/ q = p /\ pageOwner'[q] = w
                                 \/ q \in LivePages(now) /\ pageOwner'[q] = pageOwner[q]
  BY DEF Take, TypeOK, LivePages, RunningPages, Live
<1>2. o = w
  <2>1. PICK q \in LivePages(now)' : o = pageOwner'[q]
    BY DEF LiveWorkers
  <2>2. QED
    BY <1>1, <2>1 DEF LiveWorkers
<1>3. CASE LivePages(t) = {}
  <2>1. LivePages(now) = {}
    BY <1>3, LiveIsLive
  <2>2. \A q \in LivePages(now)' : pageOwner'[q] = o
    BY <1>1, <1>2, <2>1
  <2>3. QED
    BY <2>2 DEF LiveWorkers
<1>4. CASE LivePages(t) # {}
  <2>1. PICK q \in LivePages(t) : pageOwner[q] = o
    BY <1>2, <1>4 DEF Accepts
  <2>2. QED
    BY <2>1, CaughtOrLive
<1>5. QED
  BY <1>3, <1>4

LEMMA HeartbeatJoins ==
  ASSUME TypeOK, NEW w \in Owners, NEW t \in Times, NEW lease \in Leases,
         Heartbeat(w, t, lease), NEW o \in LiveWorkers' \ LiveWorkers
  PROVE  CaughtWaiting(o)
<1>1. PICK p \in LivePages(now)' : o = pageOwner'[p]
  BY DEF LiveWorkers
<1>2. pageOwner'[p] = pageOwner[p] /\ p \in Pages
  BY DEF Heartbeat, LivePages, RunningPages
<1>3. p \in LivePages(t)
  <2>1. CASE Owns(p, w, t)
    BY <2>1 DEF Owns
  <2>2. CASE ~Owns(p, w, t)
    <3>1. p \in LivePages(now)
      BY <2>2 DEF Heartbeat, LivePages, RunningPages, Live
    <3>2. QED
      BY <3>1, LiveIsLive
  <2>3. QED
    BY <2>1, <2>2
<1>4. QED
  BY <1>1, <1>2, <1>3, CaughtOrLive

LEMMA OthersDoNotJoin ==
  ASSUME TypeOK, [Next]_vars,
         ~ \E p \in Pages, o \in Owners, t \in Times, lease \in Leases :
               Accepts(o, t) /\ Take(p, o, t, lease),
         ~ \E o \in Owners, t \in Times, lease \in Leases : Heartbeat(o, t, lease)
  PROVE  LiveWorkers' \subseteq LiveWorkers
<1> USE DEF LivePages, RunningPages, Live, NoLease
<1>1. ASSUME NEW p \in Pages, NEW o \in Owners, NEW digest \in Digests,
             NEW t \in Times, Commit(p, o, digest, t)
      PROVE  LiveWorkers' \subseteq LiveWorkers
  BY <1>1, NobodyJoins DEF Commit, TypeOK
<1>2. ASSUME NEW p \in Pages, NEW o \in Owners, NEW t \in Times,
             NEW retryable \in BOOLEAN,
             FailPage(p, o, t, retryable) \/ RecordProviderFailure(p, o, t, retryable)
      PROVE  LiveWorkers' \subseteq LiveWorkers
  <2>1. GiveBack(p, FailureOutcome(p, retryable))
    BY <1>2 DEF FailPage, RecordProviderFailure
  <2>2. QED
    BY <2>1, NobodyJoins DEF GiveBack, TypeOK
<1>3. CASE RequestCancel
  BY <1>3, NobodyJoins DEF RequestCancel, TypeOK
<1>4. ASSUME NEW t \in Times, RecoverExpired(t)
      PROVE  LiveWorkers' \subseteq LiveWorkers
  <2>1. ASSUME NEW p \in Pages, pageStatus'[p] = "running"
        PROVE  /\ pageStatus[p] = "running" /\ pageLease'[p] = pageLease[p]
               /\ pageOwner'[p] = pageOwner[p]
    BY <1>4, <2>1 DEF RecoverExpired, RecoveredPage, TypeOK
  <2>2. now' = now
    BY <1>4 DEF RecoverExpired
  <2>3. QED
    BY <2>1, <2>2, NobodyJoins
<1>5. CASE Tick
  <2>1. now \in Int /\ \A p \in Pages : pageLease[p] \in Int
    BY ClockAssumption DEF TypeOK
  <2>2. QED
    BY <1>5, <2>1, NobodyJoins DEF Tick, jobVars, pageVars
<1>6. CASE UNCHANGED vars
  BY <1>6, NobodyJoins DEF vars, jobVars, pageVars
<1>7. QED
  BY <1>1, <1>2, <1>3, <1>4, <1>5, <1>6, StepCases

\* Two workers hold leases at a time only if the second held one itself when it
\* read its clock: nobody else is let in by claims, heartbeats, reports, expiry
\* and recovery in any order, for every lag and all lease lengths.
THEOREM OnlyLeaseholdersOverlapCorrect == Spec => OnlyLeaseholdersOverlap
<1>1. ASSUME TypeOK, [Next]_vars, NEW o \in LiveWorkers' \ LiveWorkers
      PROVE  LiveWorkers' = {o} \/ CaughtWaiting(o)
  <2>1. \/ \E p \in Pages, w \in Owners, t \in Times, lease \in Leases :
              Accepts(w, t) /\ Take(p, w, t, lease)
        \/ \E w \in Owners, t \in Times, lease \in Leases : Heartbeat(w, t, lease)
    BY <1>1, OthersDoNotJoin
  <2>2. QED
    BY <1>1, <2>1, ClaimJoins, HeartbeatJoins
<1>2. TypeOK /\ [Next]_vars
        => [\A o \in LiveWorkers' \ LiveWorkers : LiveWorkers' = {o} \/ CaughtWaiting(o)]_vars
  BY <1>1
<1>3. QED
  BY <1>2, TypeCorrect, PTL DEF Spec, OnlyLeaseholdersOverlap

-----------------------------------------------------------------------------
(* Leases of one length: the job row's lease covers its pages.             *)

\* Inductive only together with how far ahead a page lease can be: a claim or
\* a heartbeat with an older time sets the job's lease back, but not by more
\* than the lag if all leases are alike.
LeaseInv(L) ==
  /\ JobLeaseCoversPages
  /\ \A p \in RunningPages : pageLease[p] # NoLease /\ pageLease[p] <= now + L

LEMMA LeaseInvStep ==
  ASSUME TypeOK, NEW L, Leases = {L}, LeaseInv(L), [Next]_vars
  PROVE  LeaseInv(L)'
<1> USE DEF LeaseInv, JobLeaseCoversPages, RunningPages, NoLease
<1> L \in Nat /\ L > 0
  BY LeasesAssumption
<1> now \in Nat /\ ClockLag \in Nat /\ jobLease \in Int /\ \A p \in Pages : pageLease[p] \in Int
  BY ClockAssumption DEF TypeOK
<1>1. ASSUME NEW p \in Pages, NEW o \in Owners, NEW t \in Times, Take(p, o, t, L)
      PROVE  LeaseInv(L)'
  <2>1. t \in Nat /\ t <= now /\ now <= t + ClockLag
    BY LagIs
  <2>2. /\ jobLease' = t + L /\ now' = now
        /\ pageLease' = [pageLease EXCEPT ![p] = t + L]
        /\ pageStatus' = [pageStatus EXCEPT ![p] = "running"]
    BY <1>1 DEF Take
  <2>3. ASSUME NEW q \in Pages, pageStatus'[q] = "running"
        PROVE  pageLease'[q] # -1 /\ pageLease'[q] <= now + L
    BY <2>1, <2>2, <2>3 DEF TypeOK
  <2>4. jobLease' # -1 /\ now + L <= jobLease' + ClockLag
    BY <2>1, <2>2
  <2>5. ASSUME NEW q \in Pages, pageStatus'[q] = "running"
        PROVE  pageLease'[q] <= jobLease' + ClockLag
    <3>1. pageLease'[q] \in Int
      BY <2>1, <2>2 DEF TypeOK
    <3>2. QED
      BY <2>1, <2>2, <2>3, <2>4, <2>5, <3>1
  <2>6. QED
    BY <2>2, <2>3, <2>4, <2>5
<1>2. ASSUME NEW o \in Owners, NEW t \in Times, Heartbeat(o, t, L)
      PROVE  LeaseInv(L)'
  <2>1. t \in Nat /\ t <= now /\ now <= t + ClockLag
    BY LagIs
  <2>2. /\ jobLease' = t + L /\ now' = now /\ pageStatus' = pageStatus
        /\ \A p \in Pages : pageLease'[p] \in {t + L, pageLease[p]}
    BY <1>2 DEF Heartbeat
  <2>3. QED
    BY <2>1, <2>2 DEF TypeOK
<1>3. ASSUME NEW p \in Pages, NEW o \in Owners, NEW digest \in Digests,
             NEW t \in Times, Commit(p, o, digest, t)
      PROVE  LeaseInv(L)'
  BY <1>3 DEF Commit, TypeOK
<1>4. ASSUME NEW p \in Pages, NEW o \in Owners, NEW t \in Times,
             NEW retryable \in BOOLEAN,
             FailPage(p, o, t, retryable) \/ RecordProviderFailure(p, o, t, retryable)
      PROVE  LeaseInv(L)'
  <2>1. GiveBack(p, FailureOutcome(p, retryable))
    BY <1>4 DEF FailPage, RecordProviderFailure
  <2>2. FailureOutcome(p, retryable) # "running"
    BY FailureOutcomes
  <2>3. QED
    BY <2>1, <2>2 DEF GiveBack, TypeOK
<1>5. CASE RequestCancel
  BY <1>5 DEF RequestCancel, TypeOK
<1>6. ASSUME NEW t \in Times, RecoverExpired(t)
      PROVE  LeaseInv(L)'
  <2>1. now' = now /\ t \in Nat /\ t <= now
    BY <1>6, LagIs DEF RecoverExpired
  <2>2. ASSUME NEW p \in Pages, pageStatus'[p] = "running"
        PROVE  pageStatus[p] = "running" /\ pageLease'[p] = pageLease[p]
    BY <1>6, <2>2 DEF RecoverExpired, RecoveredPage, TypeOK
  <2>3. CASE OverdueJob(t)
    <3>1. jobLease' = -1
      BY <1>6, <2>3 DEF RecoverExpired
    <3>2. jobLease = -1 \/ jobLease <= now
      BY <2>1, <2>3 DEF OverdueJob, Expired
    <3>3. ASSUME NEW p \in Pages, pageStatus'[p] = "running"
          PROVE  pageLease'[p] <= now + ClockLag
      BY <2>2, <3>2, <3>3
    <3>4. QED
      BY <2>1, <2>2, <3>1, <3>3
  <2>4. CASE ~OverdueJob(t)
    <3>1. jobLease' = jobLease
      BY <1>6, <2>4 DEF RecoverExpired
    <3>2. QED
      BY <2>1, <2>2, <3>1
  <2>5. QED
    BY <2>3, <2>4
<1>7. CASE Tick
  BY <1>7 DEF Tick, jobVars, pageVars
<1>8. CASE UNCHANGED vars
  BY <1>8 DEF vars, jobVars, pageVars
<1>9. QED
  BY <1>1, <1>2, <1>3, <1>4, <1>5, <1>6, <1>7, <1>8, StepCases

\* The job's lease covers its pages up to the lag, so recovery gives a job up,
\* or calls it cancelled, at most that much before the last lease of its pages
\* ends: for every lag, if the workers ask for one lease length.
THEOREM JobLeaseCoversPagesCorrect ==
  ASSUME NEW L, Leases = {L}
  PROVE  Spec => []JobLeaseCoversPages
<1>1. Init => LeaseInv(L)
  BY DEF Init, LeaseInv, JobLeaseCoversPages, RunningPages
<1>2. TypeOK /\ LeaseInv(L) /\ [Next]_vars => LeaseInv(L)'
  BY LeaseInvStep
<1>3. LeaseInv(L) => JobLeaseCoversPages
  BY DEF LeaseInv
<1>4. QED
  BY <1>1, <1>2, <1>3, TypeCorrect, PTL DEF Spec

-----------------------------------------------------------------------------
(* Provider runs.                                                          *)

\* A running page has an attempt no run is recorded for yet.
RunInv ==
  /\ RunsBelongToAttempts
  /\ \A p \in RunningPages : succeededRuns[p] + failedRuns[p] < attempts[p]

LEMMA RunInvStep ==
  ASSUME TypeOK, RunInv, [Next]_vars
  PROVE  RunInv'
<1> USE DEF RunInv, RunsBelongToAttempts, RunningPages
<1> /\ succeededRuns \in [Pages -> Nat] /\ failedRuns \in [Pages -> Nat]
    /\ attempts \in [Pages -> Int] /\ pageStatus \in [Pages -> PageStatuses]
  BY AttemptBoundAssumption DEF TypeOK
<1>1. ASSUME NEW p \in Pages, NEW o \in Owners, NEW t \in Times,
             NEW lease \in Leases, Open(p, t) \/ Owns(p, o, t), Take(p, o, t, lease)
      PROVE  RunInv'
  <2>1. pageStatus[p] \in {"queued", "running"}
    BY <1>1, ClaimedWasUnsettled
  <2>2. /\ pageStatus' = [pageStatus EXCEPT ![p] = "running"]
        /\ attempts' = [attempts EXCEPT ![p] = attempts[p] + 1]
        /\ succeededRuns' = succeededRuns /\ failedRuns' = failedRuns
    BY <1>1 DEF Take, runVars
  <2>3. QED
    BY <2>1, <2>2
<1>2. ASSUME NEW o \in Owners, NEW t \in Times, NEW lease \in Leases,
             Heartbeat(o, t, lease)
      PROVE  RunInv'
  BY <1>2 DEF Heartbeat, runVars
<1>3. ASSUME NEW p \in Pages, NEW o \in Owners, NEW digest \in Digests,
             NEW t \in Times, Commit(p, o, digest, t), failedRuns' = failedRuns,
             \/ succeededRuns' = succeededRuns
             \/ succeededRuns' = [succeededRuns EXCEPT ![p] = @ + 1]
      PROVE  RunInv'
  <2>1. /\ pageStatus[p] = "running" /\ attempts' = attempts
        /\ pageStatus' = [pageStatus EXCEPT ![p] = "completed"]
    BY <1>3, OwnsRunning DEF Commit
  <2>2. QED
    BY <1>3, <2>1
<1>4. ASSUME NEW p \in Pages, NEW o \in Owners, NEW t \in Times,
             NEW retryable \in BOOLEAN,
             FailPage(p, o, t, retryable) \/ RecordProviderFailure(p, o, t, retryable)
      PROVE  RunInv'
  <2>1. pageStatus[p] = "running" /\ FailureOutcome(p, retryable) # "running"
    BY <1>4, OwnsRunning, FailureOutcomes DEF FailPage, RecordProviderFailure
  <2>2. /\ pageStatus' = [pageStatus EXCEPT ![p] = FailureOutcome(p, retryable)]
        /\ attempts' = attempts /\ succeededRuns' = succeededRuns
        /\ \/ failedRuns' = failedRuns
           \/ failedRuns' = [failedRuns EXCEPT ![p] = @ + 1]
    BY <1>4 DEF FailPage, RecordProviderFailure, GiveBack, runVars
  <2>3. QED
    BY <2>1, <2>2, FailureOutcomes
<1>5. CASE RequestCancel
  BY <1>5 DEF RequestCancel, runVars
<1>6. ASSUME NEW t \in Times, RecoverExpired(t)
      PROVE  RunInv'
  <2>1. UNCHANGED <<attempts, succeededRuns, failedRuns>>
    BY <1>6 DEF RecoverExpired, runVars
  <2>2. \A p \in Pages :
           \/ pageStatus'[p] = pageStatus[p]
           \/ /\ pageStatus[p] = "running"
              /\ pageStatus'[p] \in {"cancelled", "failed", "queued"}
    BY <1>6 DEF RecoverExpired, RecoveredPage
  <2>3. QED
    BY <2>1, <2>2
<1>7. CASE Tick
  BY <1>7 DEF Tick, jobVars, pageVars, runVars
<1>8. CASE UNCHANGED vars
  BY <1>8 DEF vars, jobVars, pageVars, runVars
<1>9. QED
  BY <1>1, <1>2, <1>3, <1>4, <1>5, <1>6, <1>7, <1>8, StepCases

\* No provider run is recorded for an attempt that is over, and a page has at
\* most one successful run, that of its checkpoint.
THEOREM RunsCorrect == Spec => []RunsBelongToAttempts
<1>1. Init => RunInv
  BY DEF Init, RunInv, RunsBelongToAttempts, RunningPages
<1>2. RunInv => RunsBelongToAttempts
  BY DEF RunInv
<1>3. QED
  BY <1>1, <1>2, RunInvStep, TypeCorrect, PTL DEF Spec

-----------------------------------------------------------------------------
(* The store implements the ledger.                                        *)

LedgerVerdict == IF jobStatus \in {"completed", "cancelled"} THEN jobStatus ELSE "open"

\* The refinement mapping of a page, one status at a time.
LEMMA OutcomeOf ==
  ASSUME TypeOK, NEW p \in Pages
  PROVE  /\ pageStatus[p] \in {"queued", "running"} => LedgerOutcome[p] = "open"
         /\ pageStatus[p] = "completed" => LedgerOutcome[p] = "delivered"
         /\ pageStatus[p] = "failed" => LedgerOutcome[p] = "failed"
         /\ pageStatus[p] = "cancelled" => LedgerOutcome[p] = "dropped"
         /\ LedgerOutcome[p] = "open" => pageStatus[p] \in {"queued", "running"}
         /\ LedgerOutcome[p] \in {"delivered", "dropped"}
              <=> pageStatus[p] \in {"completed", "cancelled"}
BY DEF TypeOK, PageStatuses, LedgerOutcome

\* A step in which the unfinished pages of S settle as o.
LEMMA SettleStep ==
  ASSUME TypeOK, TypeOK', NEW S \in SUBSET Pages,
         NEW o \in {"delivered", "failed", "dropped"},
         \A p \in S : LedgerOutcome'[p] = o,
         \A p \in Pages \ S : \/ pageStatus'[p] = pageStatus[p]
                              \/ /\ pageStatus[p] \in {"queued", "running"}
                                 /\ pageStatus'[p] \in {"queued", "running"}
  PROVE  Ledger!Settle(S, o)
<1>1. \A p \in Pages \ S : LedgerOutcome'[p] = LedgerOutcome[p]
  BY DEF LedgerOutcome
<1>2. LedgerOutcome' = [p \in Pages |-> LedgerOutcome'[p]]
  BY DEF LedgerOutcome
<1>3. QED
  BY <1>1, <1>2 DEF Ledger!Settle

\* A step in which no page settles and the job's verdict stays.
LEMMA StutterStep ==
  ASSUME TypeOK,
         \A p \in Pages : \/ pageStatus'[p] = pageStatus[p]
                          \/ /\ pageStatus[p] \in {"queued", "running"}
                             /\ pageStatus'[p] \in {"queued", "running"},
         UNCHANGED <<checkpoint, cancelRequested, LedgerVerdict>>
  PROVE  UNCHANGED Ledger!vars
<1>1. LedgerOutcome' = LedgerOutcome
  BY DEF LedgerOutcome
<1>2. QED
  BY <1>1 DEF Ledger!vars, LedgerVerdict

LEMMA CommitDelivers ==
  ASSUME TypeOK, TypeOK', JobInv, NEW p \in Pages, NEW o \in Owners,
         NEW digest \in Digests, NEW t \in Times, Commit(p, o, digest, t)
  PROVE  Ledger!Deliver(p, digest)
<1>1. pageStatus[p] = "running" /\ LedgerOutcome[p] = "open"
  BY OwnsRunning, OutcomeOf DEF Commit
<1>2. /\ pageStatus' = [pageStatus EXCEPT ![p] = "completed"]
      /\ checkpoint' = [checkpoint EXCEPT ![p] = digest]
      /\ jobStatus' = Verdict(pageStatus') /\ cancelRequested' = cancelRequested
  BY DEF Commit
<1>3. pageStatus'[p] = "completed" /\ \A q \in Pages \ {p} : pageStatus'[q] = pageStatus[q]
  BY <1>2 DEF TypeOK
<1>4. Ledger!Settle({p}, "delivered")
  <2>1. LedgerOutcome'[p] = "delivered"
    BY <1>3 DEF LedgerOutcome
  <2>2. QED
    BY <2>1, <1>3, SettleStep
<1>5. (\A q \in Pages : pageStatus'[q] \in {"completed", "cancelled"})
        <=> \A q \in Pages \ {p} : LedgerOutcome[q] \in {"delivered", "dropped"}
  BY <1>3, OutcomeOf
<1>6. LedgerVerdict' = IF \A q \in Pages \ {p} : LedgerOutcome[q] \in {"delivered", "dropped"}
                         THEN IF cancelRequested THEN "cancelled" ELSE "completed"
                         ELSE LedgerVerdict
  BY <1>2, <1>5 DEF Verdict, LedgerVerdict
<1>7. QED
  BY <1>1, <1>2, <1>4, <1>6 DEF Ledger!Deliver, Ledger!OpenPages, LedgerVerdict

LEMMA FailureSettles ==
  ASSUME TypeOK, TypeOK', JobInv, NEW p \in Pages, NEW o \in Owners, NEW t \in Times,
         NEW retryable \in BOOLEAN,
         FailPage(p, o, t, retryable) \/ RecordProviderFailure(p, o, t, retryable)
  PROVE  Ledger!GiveUp({p}) \/ Ledger!Cancel({p}) \/ UNCHANGED Ledger!vars
<1> DEFINE outcome == FailureOutcome(p, retryable)
<1>1. /\ pageStatus[p] = "running" /\ LedgerOutcome[p] = "open"
      /\ jobStatus # "completed"
  BY OwnsRunning, OutcomeOf
  DEF FailPage, RecordProviderFailure, JobInv, CompletedMeansAllPages, Completed
<1>2. /\ pageStatus' = [pageStatus EXCEPT ![p] = outcome]
      /\ UNCHANGED <<checkpoint, cancelRequested>>
  BY DEF FailPage, RecordProviderFailure, GiveBack
<1>3. pageStatus'[p] = outcome /\ \A q \in Pages \ {p} : pageStatus'[q] = pageStatus[q]
  BY <1>2 DEF TypeOK
<1>4. jobStatus' = outcome \/ (jobStatus' = jobStatus /\ outcome = "cancelled")
  BY DEF FailPage, RecordProviderFailure
<1>5. outcome = "cancelled" <=> cancelRequested
  BY DEF FailureOutcome
<1>6. ~cancelRequested => LedgerVerdict = "open"
  BY <1>1 DEF LedgerVerdict, JobInv, CancellationWins
<1>7. CASE outcome = "queued"
  <2>1. LedgerVerdict' = LedgerVerdict
    BY <1>4, <1>5, <1>6, <1>7 DEF LedgerVerdict
  <2>2. QED
    BY <1>1, <1>2, <1>3, <1>7, <2>1, StutterStep
<1>8. CASE outcome = "failed"
  <2>1. LedgerVerdict' = LedgerVerdict
    BY <1>4, <1>5, <1>6, <1>8 DEF LedgerVerdict
  <2>2. Ledger!Settle({p}, "failed")
    <3>1. LedgerOutcome'[p] = "failed"
      BY <1>3, <1>8 DEF LedgerOutcome
    <3>2. QED
      BY <3>1, <1>3, SettleStep
  <2>3. QED
    BY <1>1, <1>2, <1>5, <1>8, <2>1, <2>2 DEF Ledger!GiveUp, Ledger!OpenPages, LedgerVerdict
<1>9. CASE outcome = "cancelled"
  <2>1. LedgerVerdict' \in {LedgerVerdict, "cancelled"} /\ LedgerVerdict # "completed"
    BY <1>1, <1>4, <1>9 DEF LedgerVerdict
  <2>2. Ledger!Settle({p}, "dropped")
    <3>1. LedgerOutcome'[p] = "dropped"
      BY <1>3, <1>9 DEF LedgerOutcome
    <3>2. QED
      BY <3>1, <1>3, SettleStep
  <2>3. QED
    BY <1>1, <1>2, <1>5, <1>9, <2>1, <2>2 DEF Ledger!Cancel, Ledger!OpenPages, LedgerVerdict
<1>10. QED
  BY <1>7, <1>8, <1>9, FailureOutcomes

LEMMA CancelDrops ==
  ASSUME TypeOK, TypeOK', RequestCancel
  PROVE  \E S \in SUBSET Pages : Ledger!Cancel(S)
<1> DEFINE S == {p \in Pages : pageStatus[p] = "queued"}
<1>1. /\ \A p \in S : pageStatus'[p] = "cancelled"
      /\ \A p \in Pages \ S : pageStatus'[p] = pageStatus[p]
      /\ UNCHANGED checkpoint /\ cancelRequested' = TRUE
      /\ jobStatus' \in {"cancelled", "cancelling"}
  BY DEF RequestCancel
<1>2. Ledger!Settle(S, "dropped")
  <2>1. \A p \in S : LedgerOutcome'[p] = "dropped"
    BY <1>1 DEF LedgerOutcome
  <2>2. QED
    BY <2>1, <1>1, SettleStep
<1>3. S \subseteq Ledger!OpenPages
  BY OutcomeOf DEF Ledger!OpenPages
<1>4. LedgerVerdict = "open" /\ LedgerVerdict' \in {"open", "cancelled"}
  BY <1>1 DEF LedgerVerdict, RequestCancel, FinalJobStatuses
<1>5. QED
  BY <1>1, <1>2, <1>3, <1>4 DEF Ledger!Cancel, LedgerVerdict

LEMMA RecoverySettles ==
  ASSUME TypeOK, TypeOK', JobInv, NEW t \in Times, RecoverExpired(t)
  PROVE  \/ \E S \in SUBSET Pages : Ledger!GiveUp(S) \/ Ledger!Cancel(S)
         \/ UNCHANGED Ledger!vars
<1> DEFINE overdue == {p \in RunningPages : Expired(pageLease[p], t)}
           spent == {p \in overdue : attempts[p] >= MaxAttempts}
<1>1. /\ \A p \in overdue : p \in Pages /\ pageStatus[p] = "running"
                            /\ pageStatus'[p] = RecoveredPage(p)
      /\ \A p \in Pages \ overdue : pageStatus'[p] = pageStatus[p]
      /\ UNCHANGED <<checkpoint, cancelRequested>>
  BY DEF RecoverExpired, RunningPages
<1>2. \/ jobStatus' = jobStatus
      \/ /\ jobStatus \in {"running", "cancelling"}
         /\ jobStatus' = IF cancelRequested THEN "cancelled" ELSE jobStatus'
         /\ jobStatus' \in {"cancelled", "failed", "queued"}
         /\ jobStatus' = "cancelled" => cancelRequested
  BY DEF RecoverExpired, OverdueJob, RecoveredJob, TypeOK
<1>3. \A p \in overdue : LedgerOutcome[p] = "open"
  BY <1>1, OutcomeOf
<1>4. CASE cancelRequested
  <2>1. Ledger!Settle(overdue, "dropped")
    <3>1. \A p \in overdue : LedgerOutcome'[p] = "dropped"
      BY <1>1, <1>4 DEF LedgerOutcome, RecoveredPage
    <3>2. QED
      BY <3>1, <1>1, SettleStep DEF RunningPages
  <2>2. LedgerVerdict # "completed" /\ LedgerVerdict' \in {LedgerVerdict, "cancelled"}
    BY <1>2, <1>4 DEF LedgerVerdict, JobInv, CancellationWins
  <2>3. Ledger!Cancel(overdue)
    BY <1>1, <1>3, <1>4, <2>1, <2>2 DEF Ledger!Cancel, Ledger!OpenPages, LedgerVerdict
  <2>4. QED
    BY <2>3 DEF RunningPages
<1>5. CASE ~cancelRequested
  <2>1. LedgerVerdict' = LedgerVerdict
    BY <1>2, <1>5 DEF LedgerVerdict
  <2>2. /\ \A p \in spent : pageStatus'[p] = "failed"
        /\ \A p \in overdue \ spent : pageStatus'[p] = "queued"
    BY <1>1, <1>5 DEF RecoveredPage
  <2>3. CASE spent = {}
    BY <1>1, <2>1, <2>2, <2>3, StutterStep
  <2>4. CASE spent # {}
    <3>1. Ledger!Settle(spent, "failed")
      <4>1. \A p \in spent : LedgerOutcome'[p] = "failed"
        BY <1>1, <2>2 DEF LedgerOutcome
      <4>2. \A p \in Pages \ spent :
               \/ pageStatus'[p] = pageStatus[p]
               \/ /\ pageStatus[p] \in {"queued", "running"}
                  /\ pageStatus'[p] \in {"queued", "running"}
        BY <1>1, <2>2
      <4>3. spent \in SUBSET Pages
        BY <1>1
      <4>4. QED
        BY <4>1, <4>2, <4>3, SettleStep
    <3>2. Ledger!GiveUp(spent)
      BY <1>1, <1>3, <1>5, <2>1, <2>4, <3>1 DEF Ledger!GiveUp, Ledger!OpenPages, LedgerVerdict
    <3>3. QED
      BY <3>2 DEF RunningPages
  <2>5. QED
    BY <2>3, <2>4
<1>6. QED
  BY <1>4, <1>5

\* Whatever claims, expiry, late reports, cancellation and recovery do in the
\* store, its clients only ever see the ledger.
THEOREM ImplementsLedgerCorrect == Spec => ImplementsLedger
<1>1. Init => Ledger!Init
  BY DEF Init, Ledger!Init, LedgerOutcome
<1>2. ASSUME TypeOK, TypeOK', JobInv, [Next]_vars
      PROVE  [Ledger!Next]_(Ledger!vars)
  <2>1. ASSUME NEW p \in Pages, NEW o \in Owners, NEW t \in Times,
               NEW lease \in Leases, Accepts(o, t), Open(p, t) \/ Owns(p, o, t),
               Take(p, o, t, lease)
        PROVE  UNCHANGED Ledger!vars
    <3>1. /\ pageStatus[p] \in {"queued", "running"}
          /\ pageStatus' = [pageStatus EXCEPT ![p] = "running"]
          /\ UNCHANGED <<checkpoint, cancelRequested>>
      BY <2>1, ClaimedWasUnsettled DEF Take
    <3>2. LedgerVerdict' = LedgerVerdict
      BY <2>1 DEF LedgerVerdict, Accepts, Take, FinalJobStatuses
    <3>3. QED
      BY <1>2, <3>1, <3>2, StutterStep DEF TypeOK
  <2>2. ASSUME \/ UNCHANGED vars \/ Tick
               \/ \E o \in Owners, t \in Times, lease \in Leases : Heartbeat(o, t, lease)
        PROVE  UNCHANGED Ledger!vars
    <3>1. UNCHANGED <<jobStatus, pageStatus, checkpoint, cancelRequested>>
      BY <2>2 DEF vars, Tick, Heartbeat, jobVars, pageVars
    <3>2. QED
      BY <1>2, <3>1, StutterStep DEF LedgerVerdict
  <2>3. QED
    BY <1>2, <2>1, <2>2, StepCases, CommitDelivers, FailureSettles, CancelDrops,
       RecoverySettles DEF Ledger!Next
<1>3. QED
  BY <1>1, <1>2, TypeCorrect, JobInvCorrect, PTL DEF Spec, ImplementsLedger, Ledger!Spec
=============================================================================
