----------------------------- MODULE DurableOcr -----------------------------
(***************************************************************************)
(* run_session_durable of crates/mpdf-core/src/ocr.rs: OCR of a document,  *)
(* one page after the other, by processes that can die at any point and be *)
(* started again.                                                          *)
(*                                                                         *)
(* Composes the job store (JobStore, the SQLite file) with the package     *)
(* directory: the raw provider artifacts, the page records and the         *)
(* summary.  The two are written in separate steps, so a process that dies *)
(* in between leaves them at odds, and the next run has to cope.           *)
(*                                                                         *)
(* All processes use the same lease owner, as every run of the command     *)
(* line does ("mpdf-ocr-cli").  recover_expired and heartbeat are missing  *)
(* on purpose: nothing outside the tests of the store calls them.          *)
(*                                                                         *)
(* Die stands for everything that ends a run without cleaning up: a kill,  *)
(* a failed read or write, a database error.  As in JobStore, an operator  *)
(* called ...Faulty is a mistake the properties are shown to catch.        *)
(***************************************************************************)
EXTENDS Integers, FiniteSets

CONSTANTS
  PageCount, Null, MaxAttempts, ClockLag, MaxTime, AttemptBound,  \* JobStore
  Lease,         \* the 3600 seconds every claim asks for
  Owner,         \* the one lease owner
  Processes,
  NativePages,   \* the pages whose native text layer is good enough
  NativeText,    \* the evidence of such a page
  Answers,       \* evidence a provider may return
  Raws, RawOf    \* the raw artifact evidence comes with; Null for none

Evidence == Answers \cup {NativeText}

ASSUME PageCountAssumption == PageCount \in Nat \ {0}
ASSUME StoreAssumption ==
  /\ Owner # Null /\ MaxAttempts \in Nat \ {0} /\ Lease \in Nat \ {0}
  /\ ClockLag \in Nat /\ MaxTime \in Nat /\ AttemptBound \in Nat
ASSUME EvidenceAssumption == Null \notin Evidence /\ NativeText \notin Answers
ASSUME RawAssumption ==
  /\ Null \notin Raws
  /\ RawOf \in [Evidence -> Raws \cup {Null}] /\ RawOf[NativeText] = Null

VARIABLES
  now, jobStatus, cancelRequested, completedPages, retries, jobOwner, jobLease,
  pageStatus, attempts, pageOwner, pageLease, checkpoint, succeededRuns,
  failedRuns,   \* the job store
  rawFile,      \* ocr/raw/pN.raw
  pageFile,     \* ocr/pages/pN.json
  pageTemps,    \* temporary files in ocr/pages: process and page
  summary,      \* ocr/summary.json
  pc, page, evidence, results   \* per process; results is run.pages

Store == INSTANCE JobStore WITH
  Owners <- {Owner}, Digests <- Evidence, Leases <- {Lease}

Pages == Store!Pages

storeVars == <<now, jobStatus, cancelRequested, completedPages, retries, jobOwner,
               jobLease, pageStatus, attempts, pageOwner, pageLease, checkpoint,
               succeededRuns, failedRuns>>
diskVars == <<rawFile, pageFile, pageTemps, summary>>
localVars == <<pc, page, evidence, results>>
vars == <<storeVars, diskVars, localVars>>

\* No process is running: it never ran, died, or returned one of these.
Resting == {"idle", "done", "stopped", "cancelled", "rejected"}
Active == {"look", "adopt", "adopted", "claim", "work", "checkraw", "linkraw",
           "temp", "link", "unlink", "commit"}

\* Page records of an earlier job on the same package may be there.
Init ==
  /\ Store!Init
  /\ pageFile \in [Pages -> Evidence \cup {Null}]
  /\ \A p \in Pages : pageFile[p] # Null =>
       (pageFile[p] = NativeText <=> p \in NativePages)
  /\ rawFile = [p \in Pages |-> IF pageFile[p] = Null THEN Null ELSE RawOf[pageFile[p]]]
  /\ pageTemps = {} /\ summary = Null
  /\ pc = [q \in Processes |-> "idle"]
  /\ page = [q \in Processes |-> 0]
  /\ evidence = [q \in Processes |-> Null]
  /\ results = [q \in Processes |-> [p \in Pages |-> Null]]

-----------------------------------------------------------------------------
At(q, place) == pc[q] = place
Go(q, place) == pc' = [pc EXCEPT ![q] = place]
StayOn(q) == UNCHANGED <<page, evidence, results>>

\* run.pages.push(d), and on to the next page.
PushPage(q, d) ==
  /\ results' = [results EXCEPT ![q][page[q]] = d]
  /\ page' = [page EXCEPT ![q] = @ + 1]
  /\ evidence' = [evidence EXCEPT ![q] = Null]
  /\ Go(q, "look")

\* read_ocr_page: the record is there and its raw artifact is the one it names.
Readable(p) ==
  /\ pageFile[p] # Null
  /\ RawOf[pageFile[p]] \in {Null, rawFile[p]}

\* validate_ocr_page_files: anything but page records stops the run at once.
Start(q) ==
  /\ pc[q] \in Resting
  /\ Go(q, IF pageTemps = {} THEN "look" ELSE "rejected")
  /\ page' = [page EXCEPT ![q] = 0]
  /\ evidence' = [evidence EXCEPT ![q] = Null]
  /\ results' = [results EXCEPT ![q] = [p \in Pages |-> Null]]
  /\ UNCHANGED <<storeVars, diskVars>>

(***************************************************************************)
(* The head of the page loop reads the job row, the page row and the page  *)
(* record.  One step stands for the three reads: a change of the row       *)
(* between them is refused by the store at the claim that follows.         *)
(***************************************************************************)
LookFaulty(q) ==
  LET p == page[q]
  IN  /\ At(q, "look") /\ p < PageCount
      /\ \/ cancelRequested /\ Go(q, "cancelled") /\ StayOn(q)
         \/ /\ ~cancelRequested /\ pageStatus[p] = "completed"
            /\ PushPage(q, pageFile[p])
         \/ /\ ~cancelRequested /\ pageStatus[p] # "completed"
            /\ Go(q, "claim") /\ StayOn(q)
      /\ UNCHANGED <<storeVars, diskVars>>
Look(q) ==
  LET p == page[q]
      adoptable == pageStatus[p] \in {"queued", "running"} /\ pageFile[p] # Null
  IN  /\ At(q, "look") /\ p < PageCount
      /\ \/ cancelRequested /\ Go(q, "cancelled") /\ StayOn(q)
         \/ /\ ~cancelRequested /\ pageStatus[p] = "completed"
            /\ IF Readable(p) /\ pageFile[p] = checkpoint[p]
                 THEN PushPage(q, pageFile[p])
                 ELSE Go(q, "rejected") /\ StayOn(q)
         \/ /\ ~cancelRequested /\ adoptable
            /\ Go(q, IF Readable(p) THEN "adopt" ELSE "rejected") /\ StayOn(q)
         \/ /\ ~cancelRequested /\ pageStatus[p] # "completed" /\ ~adoptable
            /\ Go(q, "claim") /\ StayOn(q)
      /\ UNCHANGED <<storeVars, diskVars>>

\* A refused call of the store ends the run.
Refused(q) == Go(q, "rejected") /\ StayOn(q) /\ UNCHANGED <<storeVars, diskVars>>

\* A page record without a checkpoint is claimed by its number ...
Adopt(q, t) ==
  LET p == page[q]
  IN  /\ At(q, "adopt")
      /\ \/ /\ Store!ClaimPageAt(p, Owner, t, Lease)
            /\ Go(q, "adopted") /\ StayOn(q) /\ UNCHANGED diskVars
         \/ /\ ~(Store!Accepts(Owner, t)
                   /\ (Store!Open(p, t) \/ Store!Owns(p, Owner, t)))
            /\ Refused(q)

\* ... and checkpointed as it is, without the provider.
Adopted(q, t) ==
  LET p == page[q]
  IN  /\ At(q, "adopted")
      /\ \/ /\ Store!CheckpointPage(p, Owner, pageFile[p], t)
            /\ PushPage(q, pageFile[p]) /\ UNCHANGED diskVars
         \/ ~Store!Owns(p, Owner, t) /\ Refused(q)

\* Without a record the next open page is claimed, which need not be page[q].
Claim(q, t) ==
  /\ At(q, "claim")
  /\ \/ /\ Store!ClaimPage(Owner, t, Lease)
        /\ Go(q, "work") /\ StayOn(q) /\ UNCHANGED diskVars
     \/ /\ ~(Store!Accepts(Owner, t) /\ \E p \in Pages : Store!Open(p, t))
        /\ Refused(q)

\* Native text or the provider's answer for page[q].
Recognize(q) ==
  LET p == page[q]
  IN  /\ At(q, "work")
      /\ \E d \in IF p \in NativePages THEN {NativeText} ELSE Answers :
           /\ evidence' = [evidence EXCEPT ![q] = d]
           /\ Go(q, IF RawOf[d] = Null THEN "temp" ELSE "checkraw")
      /\ UNCHANGED <<storeVars, diskVars, page, results>>

\* A page that cannot be read or rendered is failed for good, a provider
\* failure may be retried by a later run; either ends this run.
FailWorkFaulty(q, t) ==
  LET p == page[q]
  IN  /\ At(q, "work")
      /\ \/ /\ \/ Store!FailPage(p, Owner, t, FALSE)
               \/ p \notin NativePages /\ Store!RecordProviderFailure(p, Owner, t, TRUE)
            /\ PushPage(q, Null) /\ UNCHANGED diskVars
         \/ ~Store!Owns(p, Owner, t) /\ Refused(q)
FailWork(q, t) ==
  LET p == page[q]
  IN  /\ At(q, "work")
      /\ \/ /\ \/ Store!FailPage(p, Owner, t, FALSE)
               \/ p \notin NativePages /\ Store!RecordProviderFailure(p, Owner, t, TRUE)
            /\ Go(q, "stopped") /\ StayOn(q) /\ UNCHANGED diskVars
         \/ ~Store!Owns(p, Owner, t) /\ Refused(q)

-----------------------------------------------------------------------------
\* write_raw_artifact: an artifact that is there must be the same one.
CheckRaw(q) ==
  LET p == page[q]
  IN  /\ At(q, "checkraw")
      /\ Go(q, CASE rawFile[p] = Null -> "linkraw"
                 [] rawFile[p] = RawOf[evidence[q]] -> "temp"
                 [] OTHER -> "rejected")
      /\ StayOn(q) /\ UNCHANGED <<storeVars, diskVars>>

\* A hard link never replaces a file.
LinkRaw(q) ==
  LET p == page[q]
  IN  /\ At(q, "linkraw")
      /\ IF rawFile[p] = Null
           THEN rawFile' = [rawFile EXCEPT ![p] = RawOf[evidence[q]]] /\ Go(q, "temp")
           ELSE Go(q, "rejected") /\ UNCHANGED rawFile
      /\ StayOn(q) /\ UNCHANGED <<storeVars, pageFile, pageTemps, summary>>

\* atomic_create_bytes for the page record: create, link, remove.
CreateTemp(q) ==
  /\ At(q, "temp")
  /\ pageTemps' = pageTemps \cup {<<q, page[q]>>}
  /\ Go(q, "link")
  /\ StayOn(q) /\ UNCHANGED <<storeVars, rawFile, pageFile, summary>>

LinkPageRenameFaulty(q) ==
  /\ At(q, "link")
  /\ pageFile' = [pageFile EXCEPT ![page[q]] = evidence[q]]
  /\ pageTemps' = pageTemps \ {<<q, page[q]>>}
  /\ Go(q, "commit")
  /\ StayOn(q) /\ UNCHANGED <<storeVars, rawFile, summary>>
LinkPageExistsFaulty(q) ==
  /\ At(q, "link")
  /\ pageFile' = [pageFile EXCEPT ![page[q]] = IF @ = Null THEN evidence[q] ELSE @]
  /\ Go(q, "unlink") /\ UNCHANGED pageTemps
  /\ StayOn(q) /\ UNCHANGED <<storeVars, rawFile, summary>>
LinkPage(q) ==
  LET p == page[q]
  IN  /\ At(q, "link")
      /\ \/ /\ pageFile[p] = Null
            /\ pageFile' = [pageFile EXCEPT ![p] = evidence[q]]
            /\ Go(q, "unlink") /\ UNCHANGED pageTemps
         \/ /\ pageFile[p] # Null
            /\ pageTemps' = pageTemps \ {<<q, p>>}
            /\ Go(q, "rejected") /\ UNCHANGED pageFile
      /\ StayOn(q) /\ UNCHANGED <<storeVars, rawFile, summary>>

UnlinkTemp(q) ==
  /\ At(q, "unlink")
  /\ pageTemps' = pageTemps \ {<<q, page[q]>>}
  /\ Go(q, "commit")
  /\ StayOn(q) /\ UNCHANGED <<storeVars, rawFile, pageFile, summary>>

\* The checkpoint, with a provider run if there was one.
CommitPage(q, t) ==
  LET p == page[q]
  IN  /\ At(q, "commit")
      /\ \/ /\ IF evidence[q] = NativeText
                 THEN Store!CheckpointPage(p, Owner, evidence[q], t)
                 ELSE Store!RecordProviderSuccess(p, Owner, evidence[q], t)
            /\ PushPage(q, evidence[q]) /\ UNCHANGED diskVars
         \/ ~Store!Owns(p, Owner, t) /\ Refused(q)

\* After the last page: write the summary, or compare with the one there is
\* (read_ocr_records also refuses foreign files in ocr/pages).
Finish(q) ==
  /\ At(q, "look") /\ page[q] = PageCount
  /\ \/ summary = Null /\ summary' = results[q] /\ Go(q, "done")
     \/ /\ summary # Null /\ UNCHANGED summary
        /\ Go(q, IF summary = results[q] /\ pageTemps = {} THEN "done"
                                                          ELSE "rejected")
  /\ StayOn(q) /\ UNCHANGED <<storeVars, rawFile, pageFile, pageTemps>>

Die(q) ==
  /\ pc[q] \in Active
  /\ Go(q, "idle")
  /\ page' = [page EXCEPT ![q] = 0]
  /\ evidence' = [evidence EXCEPT ![q] = Null]
  /\ results' = [results EXCEPT ![q] = [p \in Pages |-> Null]]
  /\ UNCHANGED <<storeVars, diskVars>>

-----------------------------------------------------------------------------
Step(q) ==
  \/ Start(q) \/ Look(q) \/ Recognize(q)
  \/ CheckRaw(q) \/ LinkRaw(q) \/ CreateTemp(q) \/ LinkPage(q) \/ UnlinkTemp(q)
  \/ Finish(q)
  \/ \E t \in Store!Times :
       Adopt(q, t) \/ Adopted(q, t) \/ Claim(q, t) \/ FailWork(q, t) \/ CommitPage(q, t)

\* mpdf job cancel, from another process.
Cancel == Store!RequestCancel /\ UNCHANGED <<diskVars, localVars>>

Tick == Store!Tick /\ UNCHANGED <<diskVars, localVars>>

Next == Cancel \/ Tick \/ \E q \in Processes : Step(q) \/ Die(q)

Spec == Init /\ [][Next]_vars

\* The clock advances, and the command is run again whenever it has returned.
FairSpec == Spec /\ WF_vars(Tick) /\ \A q \in Processes : WF_vars(Step(q))

-----------------------------------------------------------------------------
TypeOK ==
  /\ Store!TypeOK
  /\ rawFile \in [Pages -> Raws \cup {Null}]
  /\ pageFile \in [Pages -> Evidence \cup {Null}]
  /\ pageTemps \subseteq Processes \X Pages
  /\ summary \in [Pages -> Evidence] \cup {Null}
  /\ pc \in [Processes -> Active \cup Resting]
  /\ page \in [Processes -> 0 .. PageCount]
  /\ evidence \in [Processes -> Evidence \cup {Null}]
  /\ results \in [Processes -> [Pages -> Evidence \cup {Null}]]

\* Whatever the database calls completed can be read back: the page record
\* and the raw artifact of exactly this checkpoint are in the package, also
\* when the process died between two of the writes or raced another one ("not
\* a database-completed page without its evidence").
CommittedPageOnDisk ==
  \A p \in Pages : checkpoint[p] # Null => Readable(p) /\ pageFile[p] = checkpoint[p]

\* A summary is only there for a document all of whose pages are committed, and
\* it lists these checkpoints; a run that returns without page errors leaves one.
SummaryIsComplete ==
  /\ summary # Null =>
       \A p \in Pages : pageStatus[p] = "completed" /\ summary[p] = checkpoint[p]
  /\ \A q \in Processes : At(q, "done") => summary = results[q]

\* Evidence in the package is never replaced, by a second run, a retry or a
\* provider that answers differently this time ("no-clobber installation").
EvidenceIsFinal ==
  [][/\ \A p \in Pages : /\ pageFile[p] # Null => pageFile'[p] = pageFile[p]
                         /\ rawFile[p] # Null => rawFile'[p] = rawFile[p]
     /\ summary # Null => summary' = summary]_vars

\* Runs that race, die and are started again change the job only as the store
\* allows: whatever holds of the store by itself holds here.
ImplementsStore == Store!Spec

\* A page whose record was written, even if the process died before the
\* checkpoint, is not given to the provider again by a later run (adopted
\* "without invoking the provider").
RecordedPagesAreNotRedone ==
  [][\A q \in Processes :
       (At(q, "work") /\ evidence'[q] # Null) => pageFile[page[q]] = Null]_vars

-----------------------------------------------------------------------------
(***************************************************************************)
(* What the documents say and the code does not do: TLC refutes these.     *)
(***************************************************************************)
\* The page a run leases is the page it works on.
LeasesThePageItProcesses ==
  [][\A q \in Processes :
       (At(q, "claim") /\ At(q, "work")')
         => attempts'[page[q]] = attempts[page[q]] + 1]_vars

\* An orphaned raw artifact does not stop the run that does the page again.
RawOrphanIsNoObstacle ==
  [][\A q \in Processes : At(q, "checkraw") => ~At(q, "rejected")']_vars

\* A cancelled job ends, if not by the run that was cancelled, then by the next.
CancellationEnds == cancelRequested ~> jobStatus = "cancelled"
=============================================================================
