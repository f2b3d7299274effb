--------------------------- MODULE DurableOcrProofs ---------------------------
(***************************************************************************)
(* Proofs about DurableOcr for every number of pages and processes, every  *)
(* choice of native pages and provider answers, and every lease length,    *)
(* clock lag and bound.                                                    *)
(*                                                                         *)
(* CommittedPageOnDisk depends on what a process remembers: it commits the *)
(* evidence it holds, so this must be what the files say by then, although *)
(* another process may write the same page.  Registers names that, place   *)
(* by place; the files only ever change from absent to present, so what a  *)
(* process has found in place stays there.                                 *)
(***************************************************************************)
EXTENDS DurableOcr, TLAPS

StoreProofs == INSTANCE JobStoreProofs WITH
  Owners <- {Owner}, Digests <- Evidence, Leases <- {Lease}

FileTypes ==
  /\ rawFile \in [Pages -> Raws \cup {Null}]
  /\ pageFile \in [Pages -> Evidence \cup {Null}]
  /\ checkpoint \in [Pages -> Evidence \cup {Null}]

ProcessTypes ==
  /\ pc \in [Processes -> Active \cup Resting]
  /\ page \in [Processes -> Nat]
  /\ evidence \in [Processes -> Evidence \cup {Null}]

\* The raw artifact is written before the page record, the record before the
\* checkpoint.
WriteOrder ==
  \A p \in Pages : /\ pageFile[p] # Null => RawOf[pageFile[p]] \in {Null, rawFile[p]}
                   /\ checkpoint[p] # Null => pageFile[p] = checkpoint[p]

Registers(q) ==
  /\ pc[q] \in Active \ {"look"} => page[q] \in Pages
  /\ pc[q] \in {"adopt", "adopted"} => pageFile[page[q]] # Null
  /\ pc[q] \in {"checkraw", "linkraw"} => /\ evidence[q] \in Evidence
                                           /\ RawOf[evidence[q]] # Null
  /\ pc[q] \in {"temp", "link"} => /\ evidence[q] \in Evidence
                                   /\ RawOf[evidence[q]] \in {Null, rawFile[page[q]]}
  /\ pc[q] \in {"unlink", "commit"} => /\ evidence[q] \in Evidence
                                       /\ pageFile[page[q]] = evidence[q]

IInv == FileTypes /\ ProcessTypes /\ WriteOrder /\ \A q \in Processes : Registers(q)

-----------------------------------------------------------------------------
(* What the operations of the store do to checkpoints.                     *)

LEMMA CheckpointFrame ==
  ASSUME NEW p, NEW t,
         \/ Store!ClaimPageAt(p, Owner, t, Lease) \/ Store!ClaimPage(Owner, t, Lease)
         \/ Store!FailPage(p, Owner, t, FALSE)
         \/ Store!RecordProviderFailure(p, Owner, t, TRUE)
         \/ Store!RequestCancel \/ Store!Tick
  PROVE  checkpoint' = checkpoint
BY DEF Store!ClaimPageAt, Store!ClaimPage, Store!Take, Store!FailPage, Store!GiveBack,
       Store!RecordProviderFailure, Store!RequestCancel, Store!Tick, Store!pageVars

LEMMA CheckpointWritten ==
  ASSUME NEW p, NEW d, NEW t,
         \/ Store!CheckpointPage(p, Owner, d, t)
         \/ Store!RecordProviderSuccess(p, Owner, d, t)
  PROVE  checkpoint' = [checkpoint EXCEPT ![p] = d]
BY DEF Store!CheckpointPage, Store!RecordProviderSuccess, Store!Commit

-----------------------------------------------------------------------------
(* A step of a process that leaves files and checkpoints alone keeps the   *)
(* invariant if it leaves its own registers right.                         *)

LEMMA LocalStep ==
  ASSUME IInv, NEW q \in Processes, UNCHANGED <<rawFile, pageFile, checkpoint>>,
         ProcessTypes', Registers(q)',
         \A r \in Processes \ {q} :
            pc'[r] = pc[r] /\ page'[r] = page[r] /\ evidence'[r] = evidence[r]
  PROVE  IInv'
BY DEF IInv, FileTypes, WriteOrder, Registers

\* Refused calls, and everything else that puts a process to rest.
LEMMA RestStep ==
  ASSUME IInv, NEW q \in Processes, NEW place \in Resting \cup {"look"}, Go(q, place),
         UNCHANGED <<rawFile, pageFile, checkpoint>>,
         page' \in [Processes -> Nat], evidence' \in [Processes -> Evidence \cup {Null}],
         \A r \in Processes \ {q} : page'[r] = page[r] /\ evidence'[r] = evidence[r]
  PROVE  IInv'
<1>1. ProcessTypes'
  BY DEF IInv, ProcessTypes, Go, Active
<1>2. Registers(q)'
  BY DEF IInv, ProcessTypes, Registers, Go, Active, Resting
<1>3. \A r \in Processes \ {q} : pc'[r] = pc[r]
  BY DEF IInv, ProcessTypes, Go
<1>4. QED
  BY <1>1, <1>2, <1>3, LocalStep

LEMMA RefusedStep ==
  ASSUME IInv, NEW q \in Processes, Refused(q)
  PROVE  IInv'
BY RestStep DEF Refused, StayOn, IInv, ProcessTypes, storeVars, diskVars, Resting

LEMMA PushStep ==
  ASSUME IInv, NEW q \in Processes, NEW d, PushPage(q, d),
         UNCHANGED <<rawFile, pageFile, checkpoint>>
  PROVE  IInv'
<1>1. page' \in [Processes -> Nat] /\ evidence' \in [Processes -> Evidence \cup {Null}]
  BY DEF IInv, ProcessTypes, PushPage
<1>2. \A r \in Processes \ {q} : page'[r] = page[r] /\ evidence'[r] = evidence[r]
  BY DEF IInv, ProcessTypes, PushPage
<1>3. QED
  BY <1>1, <1>2, RestStep DEF PushPage

\* Moving on with the same registers.
LEMMA MoveStep ==
  ASSUME IInv, NEW q \in Processes, NEW place \in Active, Go(q, place), StayOn(q),
         UNCHANGED <<rawFile, pageFile, checkpoint>>, Registers(q)'
  PROVE  IInv'
<1>1. ProcessTypes' /\ \A r \in Processes \ {q} : pc'[r] = pc[r]
  BY DEF IInv, ProcessTypes, Go, StayOn
<1>2. QED
  BY <1>1, LocalStep DEF StayOn

-----------------------------------------------------------------------------
LEMMA LookStep ==
  ASSUME IInv, NEW q \in Processes, Look(q)
  PROVE  IInv'
<1> DEFINE p == page[q]
<1>1. p \in Pages /\ UNCHANGED <<rawFile, pageFile, checkpoint>>
  BY PageCountAssumption DEF Look, IInv, ProcessTypes, Pages, Store!Pages, storeVars, diskVars
<1>2. CASE PushPage(q, pageFile[p])
  BY <1>1, <1>2, PushStep
<1>3. CASE \E place \in {"cancelled", "rejected"} : Go(q, place) /\ StayOn(q)
  BY <1>1, <1>3, RestStep DEF StayOn, IInv, ProcessTypes, Resting
<1>4. CASE Go(q, "claim") /\ StayOn(q)
  <2>1. Registers(q)'
    BY <1>1, <1>4 DEF Registers, Go, StayOn, IInv, ProcessTypes
  <2>2. QED
    BY <1>1, <1>4, <2>1, MoveStep DEF Active
<1>5. CASE Go(q, "adopt") /\ StayOn(q) /\ pageFile[p] # Null
  <2>1. Registers(q)'
    BY <1>1, <1>5 DEF Registers, Go, StayOn, IInv, ProcessTypes
  <2>2. QED
    BY <1>1, <1>5, <2>1, MoveStep DEF Active
<1>6. QED
  BY <1>2, <1>3, <1>4, <1>5 DEF Look

LEMMA AdoptStep ==
  ASSUME IInv, NEW q \in Processes, NEW t, Adopt(q, t) \/ Adopted(q, t)
  PROVE  IInv'
<1> DEFINE p == page[q]
<1>1. p \in Pages /\ pageFile[p] # Null
  BY DEF Adopt, Adopted, At, IInv, Registers, Active
<1>2. CASE Refused(q)
  BY <1>2, RefusedStep
<1>3. CASE /\ Store!ClaimPageAt(p, Owner, t, Lease)
           /\ Go(q, "adopted") /\ StayOn(q) /\ UNCHANGED diskVars
  <2>1. UNCHANGED <<rawFile, pageFile, checkpoint>>
    BY <1>3, CheckpointFrame DEF diskVars
  <2>2. Registers(q)'
    BY <1>1, <1>3, <2>1 DEF Registers, Go, StayOn, IInv, ProcessTypes
  <2>3. QED
    BY <1>3, <2>1, <2>2, MoveStep DEF Active
<1>4. CASE /\ Store!CheckpointPage(p, Owner, pageFile[p], t)
           /\ PushPage(q, pageFile[p]) /\ UNCHANGED diskVars
  <2>1. /\ checkpoint' = [checkpoint EXCEPT ![p] = pageFile[p]]
        /\ UNCHANGED <<rawFile, pageFile>>
    BY <1>4, CheckpointWritten DEF diskVars
  <2>2. FileTypes' /\ WriteOrder'
    BY <1>1, <2>1 DEF IInv, FileTypes, WriteOrder
  <2>3. ProcessTypes' /\ \A r \in Processes : Registers(r)'
    BY <1>4, <2>1 DEF PushPage, Go, IInv, ProcessTypes, Registers, Active
  <2>4. QED
    BY <2>2, <2>3 DEF IInv
<1>5. QED
  BY <1>2, <1>3, <1>4 DEF Adopt, Adopted

LEMMA WorkStep ==
  ASSUME IInv, NEW q \in Processes, NEW t,
         Claim(q, t) \/ Recognize(q) \/ FailWork(q, t)
  PROVE  IInv'
<1> DEFINE p == page[q]
<1>1. p \in Pages
  BY DEF Claim, Recognize, FailWork, At, IInv, Registers, Active
<1>2. CASE Refused(q)
  BY <1>2, RefusedStep
<1>3. CASE /\ Store!ClaimPage(Owner, t, Lease)
           /\ Go(q, "work") /\ StayOn(q) /\ UNCHANGED diskVars
  <2>1. UNCHANGED <<rawFile, pageFile, checkpoint>>
    BY <1>3, CheckpointFrame DEF diskVars
  <2>2. Registers(q)'
    BY <1>1, <1>3, <2>1 DEF Registers, Go, StayOn, IInv, ProcessTypes
  <2>3. QED
    BY <1>3, <2>1, <2>2, MoveStep DEF Active
<1>4. CASE Recognize(q)
  <2>1. PICK d \in Evidence :
           /\ evidence' = [evidence EXCEPT ![q] = d]
           /\ Go(q, IF RawOf[d] = Null THEN "temp" ELSE "checkraw")
    BY <1>4 DEF Recognize, Evidence
  <2>2. page' = page /\ UNCHANGED <<rawFile, pageFile, checkpoint>>
    BY <1>4 DEF Recognize, storeVars, diskVars
  <2>3. ProcessTypes' /\ Registers(q)'
    BY <1>1, <2>1, <2>2 DEF IInv, ProcessTypes, Registers, Go, Active
  <2>4. \A r \in Processes \ {q} : pc'[r] = pc[r] /\ evidence'[r] = evidence[r]
    BY <2>1 DEF IInv, ProcessTypes, Go
  <2>5. QED
    BY <2>2, <2>3, <2>4, LocalStep
<1>5. CASE /\ \/ Store!FailPage(p, Owner, t, FALSE)
              \/ Store!RecordProviderFailure(p, Owner, t, TRUE)
           /\ Go(q, "stopped") /\ StayOn(q) /\ UNCHANGED diskVars
  <2>1. UNCHANGED <<rawFile, pageFile, checkpoint>>
    BY <1>5, CheckpointFrame DEF diskVars
  <2>2. QED
    BY <1>5, <2>1, RestStep DEF StayOn, IInv, ProcessTypes, Resting
<1>6. QED
  BY <1>2, <1>3, <1>4, <1>5 DEF Claim, FailWork

LEMMA RawStep ==
  ASSUME IInv, NEW q \in Processes, CheckRaw(q) \/ LinkRaw(q)
  PROVE  IInv'
<1> DEFINE p == page[q]
<1>1. /\ p \in Pages /\ evidence[q] \in Evidence /\ RawOf[evidence[q]] \in Raws
      /\ StayOn(q) /\ UNCHANGED <<pageFile, checkpoint>>
  BY RawAssumption DEF CheckRaw, LinkRaw, At, IInv, Registers, Active, storeVars, diskVars
<1>2. CASE Go(q, "rejected") /\ UNCHANGED rawFile
  BY <1>1, <1>2, RestStep DEF StayOn, IInv, ProcessTypes, Resting
<1>3. CASE Go(q, "linkraw") /\ UNCHANGED rawFile
  <2>1. Registers(q)'
    BY <1>1, <1>3, RawAssumption DEF Registers, Active, Go, StayOn, IInv, ProcessTypes
  <2>2. QED
    BY <1>1, <1>3, <2>1, MoveStep DEF Active
<1>4. CASE Go(q, "temp") /\ rawFile[p] = RawOf[evidence[q]] /\ UNCHANGED rawFile
  <2>1. Registers(q)'
    BY <1>1, <1>4 DEF Registers, Go, StayOn, IInv, ProcessTypes, Evidence
  <2>2. QED
    BY <1>1, <1>4, <2>1, MoveStep DEF Active
<1>5. CASE /\ rawFile[p] = Null /\ rawFile' = [rawFile EXCEPT ![p] = RawOf[evidence[q]]]
           /\ Go(q, "temp")
  <2>1. FileTypes'
    BY <1>1, <1>5 DEF IInv, FileTypes
  <2>2. \A r \in Pages : rawFile[r] # Null => rawFile'[r] = rawFile[r]
    BY <1>5 DEF IInv, FileTypes
  <2>3. WriteOrder'
    BY <1>1, <2>2, EvidenceAssumption DEF IInv, WriteOrder, FileTypes, Evidence
  <2>4. ProcessTypes'
    BY <1>1, <1>5 DEF IInv, ProcessTypes, Go, StayOn, Active
  <2>5. Registers(q)'
    BY <1>1, <1>5 DEF IInv, FileTypes, ProcessTypes, Registers, Go, StayOn, Evidence
  <2>6. ASSUME NEW r \in Processes \ {q} PROVE Registers(r)'
    <3>1. pc'[r] = pc[r] /\ page' = page /\ evidence' = evidence
      BY <1>1, <1>5 DEF Go, StayOn, IInv, ProcessTypes
    <3>2. QED
      BY <1>1, <2>2, <3>1, EvidenceAssumption DEF IInv, Registers, Evidence, Active
  <2>7. QED
    BY <2>1, <2>3, <2>4, <2>5, <2>6 DEF IInv
<1>6. QED
  BY <1>2, <1>3, <1>4, <1>5 DEF CheckRaw, LinkRaw, storeVars, diskVars

LEMMA PageRecordStep ==
  ASSUME IInv, NEW q \in Processes, CreateTemp(q) \/ LinkPage(q) \/ UnlinkTemp(q)
  PROVE  IInv'
<1> DEFINE p == page[q]
<1>1. /\ p \in Pages /\ evidence[q] \in Evidence
      /\ StayOn(q) /\ UNCHANGED <<rawFile, checkpoint>>
  BY DEF CreateTemp, LinkPage, UnlinkTemp, At, IInv, Registers, Active, storeVars
<1>2. CASE CreateTemp(q) \/ UnlinkTemp(q)
  <2>1. /\ UNCHANGED pageFile
        /\ (At(q, "temp") /\ Go(q, "link")) \/ (At(q, "unlink") /\ Go(q, "commit"))
    BY <1>2 DEF CreateTemp, UnlinkTemp
  <2>2. Registers(q)'
    BY <1>1, <2>1 DEF Registers, Go, At, StayOn, IInv, ProcessTypes
  <2>3. QED
    BY <1>1, <2>1, <2>2, MoveStep DEF Active
<1>3. CASE Go(q, "rejected") /\ UNCHANGED pageFile
  BY <1>1, <1>3, RestStep DEF StayOn, IInv, ProcessTypes, Resting
<1>4. CASE /\ At(q, "link") /\ pageFile[p] = Null
           /\ pageFile' = [pageFile EXCEPT ![p] = evidence[q]] /\ Go(q, "unlink")
  <2>1. RawOf[evidence[q]] \in {Null, rawFile[p]}
    BY <1>4 DEF At, IInv, Registers
  <2>2. \A r \in Pages : pageFile[r] # Null => pageFile'[r] = pageFile[r]
    BY <1>4 DEF IInv, FileTypes
  <2>3. FileTypes' /\ WriteOrder'
    BY <1>1, <1>4, <2>1, <2>2 DEF IInv, FileTypes, WriteOrder
  <2>4. ProcessTypes'
    BY <1>1, <1>4 DEF IInv, ProcessTypes, Go, StayOn, Active
  <2>5. Registers(q)'
    BY <1>1, <1>4 DEF IInv, FileTypes, ProcessTypes, Registers, Go, StayOn
  <2>6. ASSUME NEW r \in Processes \ {q} PROVE Registers(r)'
    <3>1. pc'[r] = pc[r] /\ page' = page /\ evidence' = evidence
      BY <1>1, <1>4 DEF Go, StayOn, IInv, ProcessTypes
    <3>2. QED
      BY <1>1, <2>2, <3>1, EvidenceAssumption DEF IInv, Registers, Active
  <2>7. QED
    BY <2>3, <2>4, <2>5, <2>6 DEF IInv
<1>5. QED
  BY <1>2, <1>3, <1>4 DEF LinkPage

LEMMA CommitStep ==
  ASSUME IInv, NEW q \in Processes, NEW t, CommitPage(q, t)
  PROVE  IInv'
<1> DEFINE p == page[q]
<1>1. p \in Pages /\ evidence[q] \in Evidence /\ pageFile[p] = evidence[q]
  BY DEF CommitPage, At, IInv, Registers, Active
<1>2. CASE Refused(q)
  BY <1>2, RefusedStep
<1>3. CASE /\ \/ Store!CheckpointPage(p, Owner, evidence[q], t)
              \/ Store!RecordProviderSuccess(p, Owner, evidence[q], t)
           /\ PushPage(q, evidence[q]) /\ UNCHANGED diskVars
  <2>1. /\ checkpoint' = [checkpoint EXCEPT ![p] = evidence[q]]
        /\ UNCHANGED <<rawFile, pageFile>>
    BY <1>3, CheckpointWritten DEF diskVars
  <2>2. FileTypes' /\ WriteOrder'
    BY <1>1, <2>1 DEF IInv, FileTypes, WriteOrder
  <2>3. ProcessTypes' /\ \A r \in Processes : Registers(r)'
    BY <1>3, <2>1 DEF PushPage, Go, IInv, ProcessTypes, Registers, Active
  <2>4. QED
    BY <2>2, <2>3 DEF IInv
<1>4. QED
  BY <1>2, <1>3 DEF CommitPage

\* Starting, finishing and dying.
LEMMA RestingSteps ==
  ASSUME IInv, NEW q \in Processes, Start(q) \/ Finish(q) \/ Die(q)
  PROVE  IInv'
<1>1. /\ UNCHANGED <<rawFile, pageFile, checkpoint>>
      /\ \E place \in Resting \cup {"look"} : Go(q, place)
  BY DEF Start, Finish, Die, storeVars, diskVars, Resting
<1>2. page' \in [Processes -> Nat] /\ evidence' \in [Processes -> Evidence \cup {Null}]
  BY DEF Start, Finish, Die, StayOn, IInv, ProcessTypes
<1>3. \A r \in Processes \ {q} : page'[r] = page[r] /\ evidence'[r] = evidence[r]
  BY DEF Start, Finish, Die, StayOn, IInv, ProcessTypes
<1>4. QED
  BY <1>1, <1>2, <1>3, RestStep

LEMMA IInvStep == IInv /\ [Next]_vars => IInv'
<1> SUFFICES ASSUME IInv, [Next]_vars PROVE IInv'
  OBVIOUS
<1>1. CASE Cancel \/ Tick \/ UNCHANGED vars
  <2>1. UNCHANGED <<rawFile, pageFile, checkpoint, pc, page, evidence>>
    BY <1>1, CheckpointFrame DEF Cancel, Tick, vars, storeVars, diskVars, localVars
  <2>2. QED
    BY <2>1 DEF IInv, FileTypes, ProcessTypes, WriteOrder, Registers
<1>2. QED
  BY <1>1, LookStep, AdoptStep, WorkStep, RawStep, PageRecordStep, CommitStep, RestingSteps
  DEF Next, Step

LEMMA IInvCorrect == Spec => []IInv
<1>1. Init => IInv
  <2> SUFFICES ASSUME Init PROVE IInv
    OBVIOUS
  <2>1. FileTypes /\ WriteOrder
    BY EvidenceAssumption, RawAssumption DEF Init, Store!Init, FileTypes, WriteOrder, Evidence, Pages
  <2>2. ProcessTypes /\ \A q \in Processes : Registers(q)
    BY DEF Init, ProcessTypes, Registers, Active, Resting
  <2>3. QED
    BY <2>1, <2>2 DEF IInv
<1>2. QED
  BY <1>1, IInvStep, PTL DEF Spec

\* Whatever the database calls completed is in the package, with its raw
\* artifact, whichever processes ran, raced or died.
THEOREM CommittedPageOnDiskCorrect == Spec => []CommittedPageOnDisk
<1>1. IInv => CommittedPageOnDisk
  BY EvidenceAssumption DEF IInv, FileTypes, WriteOrder, CommittedPageOnDisk, Readable
<1>2. QED
  BY <1>1, IInvCorrect, PTL

\* What is in the package is never replaced: the files are only ever linked
\* where there is none, and the summary is written once.
THEOREM EvidenceIsFinalCorrect == Spec => EvidenceIsFinal
<1>1. IInv /\ [Next]_vars =>
        [/\ \A p \in Pages : /\ pageFile[p] # Null => pageFile'[p] = pageFile[p]
                             /\ rawFile[p] # Null => rawFile'[p] = rawFile[p]
         /\ summary # Null => summary' = summary]_vars
  <2> SUFFICES ASSUME IInv, [Next]_vars
               PROVE  /\ \A p \in Pages : /\ pageFile[p] # Null => pageFile'[p] = pageFile[p]
                                          /\ rawFile[p] # Null => rawFile'[p] = rawFile[p]
                      /\ summary # Null => summary' = summary
    OBVIOUS
  <2>1. CASE Cancel \/ Tick \/ UNCHANGED vars
    BY <2>1 DEF Cancel, Tick, vars, diskVars
  <2>2. CASE \E q \in Processes : LinkRaw(q) \/ LinkPage(q) \/ Finish(q)
    BY <2>2 DEF LinkRaw, LinkPage, Finish, IInv, FileTypes
  <2>3. ASSUME NEW q \in Processes,
               \/ Start(q) \/ Look(q) \/ Recognize(q) \/ CheckRaw(q) \/ Die(q)
               \/ CreateTemp(q) \/ UnlinkTemp(q)
               \/ \E t \in Store!Times : \/ Adopt(q, t) \/ Adopted(q, t) \/ Claim(q, t)
                                         \/ FailWork(q, t) \/ CommitPage(q, t)
        PROVE  UNCHANGED <<pageFile, rawFile, summary>>
    BY <2>3 DEF Start, Look, Recognize, CheckRaw, Die, CreateTemp, UnlinkTemp, Adopt, Adopted,
                Claim, FailWork, CommitPage, Refused, diskVars
  <2>4. QED
    BY <2>1, <2>2, <2>3 DEF Next, Step
<1>2. QED
  BY <1>1, IInvCorrect, PTL DEF Spec, EvidenceIsFinal

-----------------------------------------------------------------------------
(* Every step of a run is a call of the store or leaves the job alone, so  *)
(* what JobStoreProofs shows of the store holds of the runs.               *)

LEMMA StoreCalls ==
  ASSUME IInv, [Next]_vars
  PROVE  \/ \E p \in Pages, d \in Evidence, t \in Store!Times :
              \/ Store!ClaimPage(Owner, t, Lease) \/ Store!ClaimPageAt(p, Owner, t, Lease)
              \/ Store!CheckpointPage(p, Owner, d, t)
              \/ Store!RecordProviderSuccess(p, Owner, d, t)
              \/ Store!FailPage(p, Owner, t, FALSE)
              \/ Store!RecordProviderFailure(p, Owner, t, TRUE)
         \/ Store!RequestCancel \/ Store!Tick
         \/ UNCHANGED storeVars
<1> DEFINE Calls(p, d, t) ==
      \/ Store!ClaimPage(Owner, t, Lease) \/ Store!ClaimPageAt(p, Owner, t, Lease)
      \/ Store!CheckpointPage(p, Owner, d, t) \/ Store!RecordProviderSuccess(p, Owner, d, t)
      \/ Store!FailPage(p, Owner, t, FALSE) \/ Store!RecordProviderFailure(p, Owner, t, TRUE)
<1>1. CASE Cancel \/ Tick \/ UNCHANGED vars
  BY <1>1 DEF Cancel, Tick, vars
<1>2. ASSUME NEW q \in Processes,
             \/ Start(q) \/ Look(q) \/ Recognize(q) \/ CheckRaw(q) \/ LinkRaw(q)
             \/ CreateTemp(q) \/ LinkPage(q) \/ UnlinkTemp(q) \/ Finish(q) \/ Die(q)
      PROVE  UNCHANGED storeVars
  BY <1>2 DEF Start, Look, Recognize, CheckRaw, LinkRaw, CreateTemp, LinkPage, UnlinkTemp,
              Finish, Die
<1>3. ASSUME NEW q \in Processes, NEW t \in Store!Times,
             \/ Adopt(q, t) \/ Adopted(q, t) \/ Claim(q, t) \/ FailWork(q, t)
             \/ CommitPage(q, t)
      PROVE  UNCHANGED storeVars \/ \E p \in Pages, d \in Evidence : Calls(p, d, t)
  <2>1. page[q] \in Pages
    BY <1>3 DEF Adopt, Adopted, Claim, FailWork, CommitPage, At, IInv, Registers, Active
  <2>2. NativeText \in Evidence
    BY DEF Evidence
  <2>3. CASE Refused(q)
    BY <2>3 DEF Refused
  <2>4. CASE Adopted(q, t)
    <3>1. pageFile[page[q]] \in Evidence
      BY <2>1, <2>4 DEF Adopted, At, IInv, Registers, FileTypes
    <3>2. QED
      BY <2>1, <2>4, <3>1 DEF Adopted, Refused
  <2>5. CASE CommitPage(q, t)
    <3>1. evidence[q] \in Evidence
      BY <2>5 DEF CommitPage, At, IInv, Registers
    <3>2. QED
      BY <2>1, <2>5, <3>1 DEF CommitPage, Refused
  <2>6. QED
    BY <1>3, <2>1, <2>2, <2>3, <2>4, <2>5 DEF Adopt, Claim, FailWork
<1>4. QED
  BY <1>1, <1>2, <1>3 DEF Next, Step

LEMMA StoreStep == IInv /\ [Next]_vars => [Store!Next]_(Store!vars)
<1> SUFFICES ASSUME IInv, [Next]_vars PROVE [Store!Next]_(Store!vars)
  OBVIOUS
<1>1. CASE UNCHANGED storeVars
  BY <1>1 DEF storeVars, Store!vars, Store!jobVars, Store!pageVars, Store!runVars
<1>2. QED
  BY <1>1, StoreCalls DEF Store!Next, Store!WorkerStep, Store!Pages, Pages

\* However runs race, die and are started again, they only take the job from
\* one state of the store to the next as its calls do.
THEOREM ImplementsStoreCorrect == Spec => ImplementsStore
<1>1. Init => Store!Init
  BY DEF Init
<1>2. QED
  BY <1>1, IInvCorrect, StoreStep, PTL DEF Spec, ImplementsStore, Store!Spec

\* The store of this module and that of JobStoreProofs are the same.
LEMMA SameCommit ==
  ASSUME NEW p, NEW d, NEW t
  PROVE  Store!Commit(p, Owner, d, t) <=> StoreProofs!Commit(p, Owner, d, t)
<1>1. Store!Completed(pageStatus') = StoreProofs!Completed(pageStatus')
  BY DEF Store!Completed, StoreProofs!Completed, Store!Pages, StoreProofs!Pages
<1>2. Store!Verdict(pageStatus') = StoreProofs!Verdict(pageStatus')
  BY DEF Store!Verdict, StoreProofs!Verdict, Store!Pages, StoreProofs!Pages
<1>3. Store!Owns(p, Owner, t) <=> StoreProofs!Owns(p, Owner, t)
  BY DEF Store!Owns, StoreProofs!Owns, Store!LivePages, StoreProofs!LivePages,
         Store!RunningPages, StoreProofs!RunningPages, Store!Pages, StoreProofs!Pages,
         Store!Live, StoreProofs!Live, Store!NoLease, StoreProofs!NoLease
<1>4. Store!NoLease = StoreProofs!NoLease
  BY DEF Store!NoLease, StoreProofs!NoLease
<1>5. \A S : Store!Cardinality(S) = StoreProofs!Cardinality(S)
  BY DEF Store!Cardinality, StoreProofs!Cardinality
<1>6. QED
  BY <1>1, <1>2, <1>3, <1>4, <1>5 DEF Store!Commit, StoreProofs!Commit

LEMMA SameCalls ==
  ASSUME NEW p, NEW d, NEW t
  PROVE  /\ Store!ClaimPage(Owner, t, Lease) => StoreProofs!ClaimPage(Owner, t, Lease)
         /\ Store!ClaimPageAt(p, Owner, t, Lease) => StoreProofs!ClaimPageAt(p, Owner, t, Lease)
         /\ Store!CheckpointPage(p, Owner, d, t) => StoreProofs!CheckpointPage(p, Owner, d, t)
         /\ Store!RecordProviderSuccess(p, Owner, d, t)
              => StoreProofs!RecordProviderSuccess(p, Owner, d, t)
         /\ Store!FailPage(p, Owner, t, FALSE) => StoreProofs!FailPage(p, Owner, t, FALSE)
         /\ Store!RecordProviderFailure(p, Owner, t, TRUE)
              => StoreProofs!RecordProviderFailure(p, Owner, t, TRUE)
<1> USE DEF Store!LivePages, StoreProofs!LivePages, Store!RunningPages,
            StoreProofs!RunningPages, Store!Pages, StoreProofs!Pages, Store!Live,
            StoreProofs!Live, Store!NoLease, StoreProofs!NoLease, Store!runVars,
            StoreProofs!runVars
<1>1. Store!ClaimPage(Owner, t, Lease) => StoreProofs!ClaimPage(Owner, t, Lease)
  BY DEF Store!ClaimPage, StoreProofs!ClaimPage, Store!Accepts, StoreProofs!Accepts,
         Store!FinalJobStatuses, StoreProofs!FinalJobStatuses, Store!Open, StoreProofs!Open,
         Store!Expired, StoreProofs!Expired, Store!Take, StoreProofs!Take
<1>2. Store!ClaimPageAt(p, Owner, t, Lease) => StoreProofs!ClaimPageAt(p, Owner, t, Lease)
  BY DEF Store!ClaimPageAt, StoreProofs!ClaimPageAt, Store!Accepts, StoreProofs!Accepts,
         Store!FinalJobStatuses, StoreProofs!FinalJobStatuses, Store!Open, StoreProofs!Open,
         Store!Expired, StoreProofs!Expired, Store!Owns, StoreProofs!Owns,
         Store!Take, StoreProofs!Take
<1>3. /\ Store!CheckpointPage(p, Owner, d, t) => StoreProofs!CheckpointPage(p, Owner, d, t)
      /\ Store!RecordProviderSuccess(p, Owner, d, t)
              => StoreProofs!RecordProviderSuccess(p, Owner, d, t)
  BY SameCommit DEF Store!CheckpointPage, StoreProofs!CheckpointPage,
         Store!RecordProviderSuccess, StoreProofs!RecordProviderSuccess
<1>4. /\ Store!FailPage(p, Owner, t, FALSE) => StoreProofs!FailPage(p, Owner, t, FALSE)
      /\ Store!RecordProviderFailure(p, Owner, t, TRUE)
           => StoreProofs!RecordProviderFailure(p, Owner, t, TRUE)
  BY DEF Store!FailPage, StoreProofs!FailPage, Store!RecordProviderFailure,
         StoreProofs!RecordProviderFailure, Store!FailureOutcome, StoreProofs!FailureOutcome,
         Store!GiveBack, StoreProofs!GiveBack, Store!Owns, StoreProofs!Owns
<1>5. QED
  BY <1>1, <1>2, <1>3, <1>4

LEMMA StoreProofsStep == IInv /\ [Next]_vars => [StoreProofs!Next]_(StoreProofs!vars)
<1> SUFFICES ASSUME IInv, [Next]_vars PROVE [StoreProofs!Next]_(StoreProofs!vars)
  OBVIOUS
<1>1. CASE UNCHANGED storeVars
  BY <1>1 DEF storeVars, StoreProofs!vars, StoreProofs!jobVars, StoreProofs!pageVars,
              StoreProofs!runVars
<1>2. CASE Store!RequestCancel \/ Store!Tick
  BY <1>2 DEF StoreProofs!Next, Store!RequestCancel, StoreProofs!RequestCancel, Store!Tick,
              StoreProofs!Tick, Store!FinalJobStatuses, StoreProofs!FinalJobStatuses,
              Store!RunningPages, StoreProofs!RunningPages, Store!Pages, StoreProofs!Pages,
              Store!jobVars, StoreProofs!jobVars, Store!pageVars, StoreProofs!pageVars,
              Store!runVars, StoreProofs!runVars
<1>3. Store!Times = StoreProofs!Times /\ Pages = StoreProofs!Pages
  BY DEF Store!Times, StoreProofs!Times, Pages, Store!Pages, StoreProofs!Pages
<1>4. QED
  BY <1>1, <1>2, <1>3, StoreCalls, SameCalls DEF StoreProofs!Next, StoreProofs!WorkerStep

LEMMA StoreConstants ==
  /\ PageCount \in Nat \ {0} /\ Null \notin {Owner} \cup Evidence
  /\ MaxAttempts \in Nat \ {0} /\ {Lease} \subseteq Nat \ {0}
  /\ ClockLag \in Nat /\ MaxTime \in Nat /\ AttemptBound \in Nat
BY PageCountAssumption, StoreAssumption, EvidenceAssumption

LEMMA StoreProofsSpec == Spec => StoreProofs!Spec
<1>1. Init => StoreProofs!Init
  BY DEF Init, Store!Init, StoreProofs!Init, Store!Pages, StoreProofs!Pages, Store!NoLease,
         StoreProofs!NoLease
<1>2. QED
  BY <1>1, IInvCorrect, StoreProofsStep, PTL DEF Spec, StoreProofs!Spec

LEMMA StoreHolds ==
  Spec => /\ [](/\ StoreProofs!TypeOK /\ StoreProofs!CounterMatchesPages
                /\ StoreProofs!CancellationWins)
          /\ StoreProofs!CheckpointsAreFinal
<1>1. /\ StoreProofs!Spec => []StoreProofs!TypeOK
      /\ StoreProofs!Spec => []StoreProofs!CounterMatchesPages
      /\ StoreProofs!Spec => []StoreProofs!CancellationWins
      /\ StoreProofs!Spec => StoreProofs!CheckpointsAreFinal
  BY StoreConstants, StoreProofs!TypeCorrect, StoreProofs!CounterCorrect,
     StoreProofs!CancellationWinsCorrect, StoreProofs!CheckpointsFinalCorrect
<1>2. QED
  BY <1>1, StoreProofsSpec, PTL

\* What the store promises the callers of a job it keeps under OCR runs that
\* race, die and are started again: provider runs belong to attempts, completed
\* means all pages, a verdict is final, and no outcome is ever taken back.
THEOREM RunsKeepThePromises ==
  Spec => /\ []StoreProofs!CompletedMeansAllPages
          /\ []StoreProofs!RunsBelongToAttempts
          /\ StoreProofs!CompletedAndCancelledAreFinal
          /\ StoreProofs!ImplementsLedger
<1>1. /\ StoreProofs!Spec => []StoreProofs!CompletedMeansAllPages
      /\ StoreProofs!Spec => []StoreProofs!RunsBelongToAttempts
      /\ StoreProofs!Spec => StoreProofs!CompletedAndCancelledAreFinal
      /\ StoreProofs!Spec => StoreProofs!ImplementsLedger
  BY StoreConstants, StoreProofs!CompletedMeansAllPagesCorrect, StoreProofs!RunsCorrect,
     StoreProofs!VerdictFinalCorrect, StoreProofs!ImplementsLedgerCorrect
<1>2. QED
  BY <1>1, StoreProofsSpec, PTL

-----------------------------------------------------------------------------
(* The summary.  A run that goes on has listed, for every page before its  *)
(* own, the checkpoint; checkpoints are final, so the list stays right     *)
(* whatever other runs do meanwhile.                                       *)

Listed(q) ==
  \A p \in Pages : p < page[q] => checkpoint[p] # Null /\ results[q][p] = checkpoint[p]

SummaryTypes ==
  /\ page \in [Processes -> 0 .. PageCount]
  /\ results \in [Processes -> [Pages -> Evidence \cup {Null}]]
  /\ pageTemps \subseteq Processes \X Pages
  /\ summary \in [Pages -> Evidence] \cup {Null}

SummaryInv ==
  /\ SummaryTypes
  /\ summary # Null => \A p \in Pages : checkpoint[p] # Null /\ summary[p] = checkpoint[p]
  /\ \A q \in Processes :
       /\ pc[q] \in Active => Listed(q)
       /\ pc[q] = "done" => page[q] = PageCount /\ Listed(q) /\ summary = results[q]

CheckpointsKept == \A p \in Pages : checkpoint[p] # Null => checkpoint'[p] = checkpoint[p]

\* A step of q that does not end its run and leaves the summary alone.
LEMMA SummaryFrame ==
  ASSUME SummaryInv, CheckpointsKept, NEW q \in Processes, SummaryTypes', summary' = summary,
         \A r \in Processes \ {q} :
            pc'[r] = pc[r] /\ page'[r] = page[r] /\ results'[r] = results[r],
         pc'[q] \in Active => Listed(q)', pc'[q] # "done"
  PROVE  SummaryInv'
<1>1. summary' # Null => \A p \in Pages : checkpoint'[p] # Null /\ summary'[p] = checkpoint'[p]
  BY DEF SummaryInv, CheckpointsKept
<1>2. ASSUME NEW r \in Processes \ {q}
      PROVE  /\ pc'[r] \in Active => Listed(r)'
             /\ pc'[r] = "done" => page'[r] = PageCount /\ Listed(r)' /\ summary' = results'[r]
  BY DEF SummaryInv, CheckpointsKept, Listed
<1>3. QED
  BY <1>1, <1>2 DEF SummaryInv

\* Going on, or to rest, with the same page and the same list.
LEMMA SummaryStay ==
  ASSUME IInv, SummaryInv, CheckpointsKept, NEW q \in Processes, pc[q] \in Active,
         NEW place, Go(q, place), place # "done", UNCHANGED <<page, results, summary>>,
         pageTemps' \subseteq Processes \X Pages
  PROVE  SummaryInv'
<1>1. SummaryTypes' /\ Listed(q)'
  BY DEF SummaryInv, SummaryTypes, CheckpointsKept, Listed
<1>2. pc'[q] # "done" /\ \A r \in Processes \ {q} : pc'[r] = pc[r]
  BY DEF Go, IInv, ProcessTypes
<1>3. QED
  BY <1>1, <1>2, SummaryFrame

\* Starting anew, or dying.
LEMMA SummaryReset ==
  ASSUME IInv, SummaryInv, CheckpointsKept, NEW q \in Processes, NEW place, Go(q, place),
         place # "done", page' = [page EXCEPT ![q] = 0],
         results' = [results EXCEPT ![q] = [p \in Pages |-> Null]],
         UNCHANGED <<summary, pageTemps>>
  PROVE  SummaryInv'
<1>1. SummaryTypes'
  BY PageCountAssumption DEF SummaryInv, SummaryTypes
<1>2. Listed(q)'
  BY PageCountAssumption DEF SummaryInv, SummaryTypes, Listed, Pages, Store!Pages
<1>3. pc'[q] # "done" /\ \A r \in Processes \ {q} :
        pc'[r] = pc[r] /\ page'[r] = page[r] /\ results'[r] = results[r]
  BY DEF Go, IInv, ProcessTypes, SummaryInv, SummaryTypes
<1>4. QED
  BY <1>1, <1>2, <1>3, SummaryFrame

\* Listing a page that is committed by then.
LEMMA SummaryPush ==
  ASSUME IInv, SummaryInv, CheckpointsKept, NEW q \in Processes, pc[q] \in Active,
         page[q] \in Pages, NEW d \in Evidence, PushPage(q, d), checkpoint'[page[q]] = d,
         UNCHANGED <<summary, pageTemps>>
  PROVE  SummaryInv'
<1>1. SummaryTypes'
  BY PageCountAssumption DEF PushPage, SummaryInv, SummaryTypes, Pages, Store!Pages
<1>2. pc'[q] # "done" /\ \A r \in Processes \ {q} :
        pc'[r] = pc[r] /\ page'[r] = page[r] /\ results'[r] = results[r]
  BY DEF PushPage, Go, IInv, ProcessTypes, SummaryInv, SummaryTypes
<1>3. ASSUME NEW p \in Pages, p < page'[q]
      PROVE  checkpoint'[p] # Null /\ results'[q][p] = checkpoint'[p]
  <2>1. page'[q] = page[q] + 1 /\ results'[q] = [results[q] EXCEPT ![page[q]] = d]
    BY DEF PushPage, SummaryInv, SummaryTypes
  <2>2. CASE p = page[q]
    BY <2>1, <2>2, EvidenceAssumption DEF SummaryInv, SummaryTypes
  <2>3. CASE p # page[q]
    <3>1. p < page[q]
      BY <1>3, <2>1, <2>3, PageCountAssumption DEF Pages, Store!Pages
    <3>2. QED
      BY <2>1, <2>3, <3>1 DEF SummaryInv, SummaryTypes, Listed, CheckpointsKept
  <2>4. QED
    BY <2>2, <2>3
<1>4. QED
  BY <1>1, <1>2, <1>3, SummaryFrame DEF Listed

\* The summary is written, or found, when everything is listed.
LEMMA SummaryFinish ==
  ASSUME IInv, SummaryInv, CheckpointsKept, NEW q \in Processes, Finish(q)
  PROVE  SummaryInv'
<1>1. /\ pc[q] \in Active /\ page[q] = PageCount /\ UNCHANGED <<page, results>>
      /\ checkpoint' = checkpoint /\ pageTemps' = pageTemps
  BY DEF Finish, At, Active, StayOn, storeVars
<1>2. CASE Go(q, "rejected") /\ UNCHANGED summary
  BY <1>1, <1>2, SummaryStay DEF SummaryInv, SummaryTypes
<1>3. CASE Go(q, "done") /\ summary' = results[q] /\ summary \in {Null, results[q]}
  <2>1. \A p \in Pages : checkpoint[p] # Null /\ results[q][p] = checkpoint[p]
    BY <1>1, PageCountAssumption DEF SummaryInv, Listed, Pages, Store!Pages
  <2>2. results[q] \in [Pages -> Evidence]
    BY <2>1 DEF SummaryInv, SummaryTypes
  <2>3. SummaryTypes'
    BY <1>1, <1>3, <2>2 DEF SummaryInv, SummaryTypes
  <2>4. ASSUME NEW r \in Processes, pc[r] = "done"
        PROVE  results[r] = results[q]
    <3>1. \A p \in Pages : results[r][p] = results[q][p]
      BY <2>1, <2>4, PageCountAssumption DEF SummaryInv, Listed, Pages, Store!Pages
    <3>2. QED
      BY <3>1 DEF SummaryInv, SummaryTypes
  <2>5. pc'[q] = "done" /\ \A r \in Processes \ {q} : pc'[r] = pc[r]
    BY <1>3 DEF Go, IInv, ProcessTypes
  <2>6. ASSUME NEW r \in Processes
        PROVE  /\ pc'[r] \in Active => Listed(r)'
               /\ pc'[r] = "done" =>
                    page'[r] = PageCount /\ Listed(r)' /\ summary' = results'[r]
    <3>1. CASE r = q
      BY <1>1, <1>3, <2>1, <3>1 DEF Listed
    <3>2. CASE r # q
      BY <1>1, <1>3, <2>4, <2>5, <3>2 DEF SummaryInv, Listed
    <3>3. QED
      BY <3>1, <3>2
  <2>7. QED
    BY <1>1, <1>3, <2>1, <2>3, <2>6 DEF SummaryInv
<1>4. QED
  BY <1>1, <1>2, <1>3 DEF Finish

LEMMA SummaryStep ==
  ASSUME IInv, SummaryInv, CheckpointsKept, StoreProofs!CounterMatchesPages, [Next]_vars
  PROVE  SummaryInv'
<1>1. CASE Cancel \/ Tick \/ UNCHANGED vars
  <2>1. UNCHANGED <<pc, page, results, summary, pageTemps>>
    BY <1>1 DEF Cancel, Tick, vars, diskVars, localVars
  <2>2. QED
    BY <2>1 DEF SummaryInv, SummaryTypes, CheckpointsKept, Listed
<1>2. ASSUME NEW q \in Processes, Start(q) \/ Die(q)
      PROVE  SummaryInv'
  BY <1>2, SummaryReset DEF Start, Die, diskVars
<1>3. ASSUME NEW q \in Processes, Look(q)
      PROVE  SummaryInv'
  <2>1. pc[q] \in Active /\ page[q] \in Pages
    BY <1>3, PageCountAssumption DEF Look, At, Active, SummaryInv, SummaryTypes, Pages, Store!Pages
  <2>2. UNCHANGED <<summary, pageTemps, checkpoint>>
    BY <1>3 DEF Look, storeVars, diskVars
  <2>3. CASE /\ pageStatus[page[q]] = "completed" /\ pageFile[page[q]] = checkpoint[page[q]]
             /\ PushPage(q, pageFile[page[q]])
    <3>1. checkpoint[page[q]] # Null
      BY <2>1, <2>3 DEF StoreProofs!CounterMatchesPages, Pages, Store!Pages, StoreProofs!Pages
    <3>2. checkpoint[page[q]] \in Evidence
      BY <2>1, <3>1 DEF IInv, FileTypes
    <3>3. QED
      BY <2>1, <2>2, <2>3, <3>2, SummaryPush
  <2>4. CASE \E place \in {"cancelled", "rejected", "adopt", "claim"} : Go(q, place) /\ StayOn(q)
    BY <2>1, <2>2, <2>4, SummaryStay DEF StayOn, SummaryInv, SummaryTypes
  <2>5. QED
    BY <1>3, <2>3, <2>4 DEF Look
<1>4. ASSUME NEW q \in Processes, NEW t \in Store!Times,
             \/ Adopt(q, t) \/ Claim(q, t) \/ FailWork(q, t)
             \/ (Adopted(q, t) \/ CommitPage(q, t)) /\ Refused(q)
      PROVE  SummaryInv'
  <2>1. pc[q] \in Active /\ UNCHANGED <<page, results, summary, pageTemps>>
    BY <1>4 DEF Adopt, Claim, FailWork, Adopted, CommitPage, Refused, At, Active, StayOn, diskVars
  <2>2. \E place \in {"adopted", "rejected", "work", "stopped"} : Go(q, place)
    BY <1>4 DEF Adopt, Claim, FailWork, Refused
  <2>3. QED
    BY <2>1, <2>2, SummaryStay DEF SummaryInv, SummaryTypes
<1>5. ASSUME NEW q \in Processes, NEW t \in Store!Times, Adopted(q, t) \/ CommitPage(q, t)
      PROVE  SummaryInv'
  <2>1. CASE Refused(q)
    BY <1>4, <1>5, <2>1
  <2>2. CASE ~Refused(q)
    <3>1. pc[q] \in Active /\ page[q] \in Pages
      BY <1>5 DEF Adopted, CommitPage, At, Active, IInv, Registers
    <3>2. PICK d \in Evidence : /\ checkpoint' = [checkpoint EXCEPT ![page[q]] = d]
                                /\ PushPage(q, d) /\ UNCHANGED diskVars
      <4>1. CASE Adopted(q, t)
        <5>1. pageFile[page[q]] \in Evidence
          BY <3>1, <4>1 DEF Adopted, At, IInv, Registers, FileTypes
        <5>2. QED
          BY <2>2, <4>1, <5>1, CheckpointWritten DEF Adopted
      <4>2. CASE CommitPage(q, t)
        <5>1. evidence[q] \in Evidence
          BY <4>2 DEF CommitPage, At, IInv, Registers
        <5>2. QED
          BY <2>2, <4>2, <5>1, CheckpointWritten DEF CommitPage
      <4>3. QED
        BY <1>5, <4>1, <4>2
    <3>3. checkpoint'[page[q]] = d
      BY <3>1, <3>2 DEF IInv, FileTypes
    <3>4. QED
      BY <3>1, <3>2, <3>3, SummaryPush DEF diskVars
  <2>3. QED
    BY <2>1, <2>2
<1>6. ASSUME NEW q \in Processes,
             \/ Recognize(q) \/ CheckRaw(q) \/ LinkRaw(q) \/ CreateTemp(q) \/ LinkPage(q)
             \/ UnlinkTemp(q)
      PROVE  SummaryInv'
  <2>1. /\ pc[q] \in Active /\ page[q] \in Pages /\ UNCHANGED <<page, results, summary>>
    BY <1>6 DEF Recognize, CheckRaw, LinkRaw, CreateTemp, LinkPage, UnlinkTemp, At, Active,
                StayOn, diskVars, IInv, Registers
  <2>2. \E place \in Active \cup {"rejected"} : Go(q, place)
    BY <1>6 DEF Recognize, CheckRaw, LinkRaw, CreateTemp, LinkPage, UnlinkTemp, Active
  <2>3. pageTemps' \subseteq Processes \X Pages
    BY <1>6, <2>1 DEF Recognize, CheckRaw, LinkRaw, CreateTemp, LinkPage, UnlinkTemp, diskVars,
                      SummaryInv, SummaryTypes
  <2>4. QED
    BY <2>1, <2>2, <2>3, SummaryStay DEF Active
<1>7. ASSUME NEW q \in Processes, Finish(q)
      PROVE  SummaryInv'
  BY <1>7, SummaryFinish
<1>8. QED
  BY <1>1, <1>2, <1>3, <1>4, <1>5, <1>6, <1>7 DEF Next, Step

LEMMA SummaryInvCorrect == Spec => []SummaryInv
<1>1. Init => SummaryInv
  BY PageCountAssumption
  DEF Init, SummaryInv, SummaryTypes, Active, Listed, Pages, Store!Pages
<1>2. [\A p \in StoreProofs!Pages : checkpoint[p] # Null => checkpoint'[p] = checkpoint[p]]_(StoreProofs!vars)
        => CheckpointsKept
  BY DEF StoreProofs!vars, StoreProofs!pageVars, CheckpointsKept, Pages, Store!Pages,
         StoreProofs!Pages
<1>3. IInv /\ SummaryInv /\ CheckpointsKept /\ StoreProofs!CounterMatchesPages /\ [Next]_vars
        => SummaryInv'
  BY SummaryStep
<1>4. QED
  BY <1>1, <1>2, <1>3, IInvCorrect, StoreHolds, PTL DEF Spec, StoreProofs!CheckpointsAreFinal

\* A summary lists the checkpoints of a document all of whose pages are
\* committed, and a run that ended well leaves one, although other runs of the
\* same job commit pages and write the summary at the same time.
THEOREM SummaryIsCompleteCorrect == Spec => []SummaryIsComplete
<1>1. SummaryInv /\ StoreProofs!CounterMatchesPages => SummaryIsComplete
  BY DEF SummaryInv, SummaryIsComplete, StoreProofs!CounterMatchesPages, Pages, Store!Pages,
         StoreProofs!Pages, At
<1>2. QED
  BY <1>1, SummaryInvCorrect, StoreHolds, PTL

\* The columns of the store, the files and the registers of every run hold
\* values of their domains.
THEOREM DurableTypeCorrect == Spec => []TypeOK
<1>1. StoreProofs!TypeOK => Store!TypeOK
  BY DEF StoreProofs!TypeOK, Store!TypeOK, StoreProofs!JobStatuses, Store!JobStatuses,
         StoreProofs!PageStatuses, Store!PageStatuses, StoreProofs!NoLease, Store!NoLease,
         StoreProofs!Pages, Store!Pages
<1>2. IInv /\ SummaryInv /\ StoreProofs!TypeOK => TypeOK
  BY <1>1 DEF IInv, FileTypes, ProcessTypes, SummaryInv, SummaryTypes, TypeOK
<1>3. QED
  BY <1>2, IInvCorrect, SummaryInvCorrect, StoreHolds, PTL

-----------------------------------------------------------------------------
(* One process at a time.  A page that has its record and is not completed *)
(* is claimed as a whole only when it failed or was cancelled, and then    *)
(* the job accepts no claim: a failed page means a failed job as long as   *)
(* nobody is at work beside the run that failed it.                        *)

OneProcess == \A q, r \in Processes : q = r

Busy == {"adopted", "work", "checkraw", "linkraw", "temp", "link", "unlink", "commit"}

ResumeInv ==
  /\ \A p \in Pages : pageStatus[p] = "failed" =>
       jobStatus = "failed" /\ \A q \in Processes : pc[q] \notin Busy
  /\ \A q \in Processes :
       /\ pc[q] = "claim" =>
            pageFile[page[q]] = Null \/ pageStatus[page[q]] \in {"failed", "cancelled"}
       /\ pc[q] = "work" => pageFile[page[q]] = Null

\* A step of the only process that neither claims a page nor concerns the job.
LEMMA ResumeQuiet ==
  ASSUME OneProcess, IInv, ResumeInv, NEW q \in Processes, UNCHANGED <<pageStatus, jobStatus>>,
         NEW place, Go(q, place), place \notin {"claim", "work"},
         place \in Busy => pc[q] \in Busy
  PROVE  ResumeInv'
<1>1. pc'[q] = place /\ \A r \in Processes : r = q
  BY DEF Go, IInv, ProcessTypes, OneProcess
<1>2. QED
  BY <1>1 DEF ResumeInv

\* A claim that is accepted finds no failed page, and leaves none.
LEMMA ResumeClaims ==
  ASSUME ResumeInv, StoreProofs!TypeOK, StoreProofs!CancellationWins, NEW p, NEW t,
         Store!ClaimPageAt(p, Owner, t, Lease) \/ Store!ClaimPage(Owner, t, Lease)
  PROVE  /\ \A r \in Pages : pageStatus[r] \notin {"failed", "cancelled"}
         /\ \A r \in Pages : pageStatus'[r] # "failed"
<1>1. jobStatus # "failed" /\ ~cancelRequested
  BY DEF Store!ClaimPageAt, Store!ClaimPage, Store!Accepts, Store!FinalJobStatuses
<1>2. \A r \in Pages : pageStatus[r] \notin {"failed", "cancelled"}
  BY <1>1 DEF ResumeInv, StoreProofs!CancellationWins, Pages, Store!Pages, StoreProofs!Pages
<1>3. \E r : pageStatus' = [pageStatus EXCEPT ![r] = "running"]
  BY DEF Store!ClaimPageAt, Store!ClaimPage, Store!Take
<1>4. QED
  BY <1>2, <1>3 DEF StoreProofs!TypeOK, Pages, Store!Pages, StoreProofs!Pages

LEMMA ResumeStep ==
  ASSUME OneProcess, IInv, ResumeInv, StoreProofs!TypeOK, StoreProofs!CancellationWins,
         [Next]_vars
  PROVE  ResumeInv'
<1>1. CASE Tick \/ UNCHANGED vars
  BY <1>1 DEF Tick, Store!Tick, Store!jobVars, Store!pageVars, vars, storeVars, diskVars,
              localVars, ResumeInv
<1>2. CASE Cancel
  <2>1. /\ jobStatus # "failed" /\ UNCHANGED <<diskVars, localVars>>
        /\ pageStatus' = [p \in Pages |->
             IF pageStatus[p] = "queued" THEN "cancelled" ELSE pageStatus[p]]
    BY <1>2 DEF Cancel, Store!RequestCancel, Store!FinalJobStatuses, Pages
  <2>2. QED
    BY <2>1 DEF ResumeInv, IInv, Registers, Active, diskVars, localVars
<1>3. ASSUME NEW q \in Processes,
             Start(q) \/ Die(q) \/ Finish(q) \/ Recognize(q) \/ CheckRaw(q) \/ LinkRaw(q)
               \/ CreateTemp(q) \/ LinkPage(q) \/ UnlinkTemp(q)
      PROVE  ResumeInv'
  <2>1. UNCHANGED <<pageStatus, jobStatus>>
    BY <1>3 DEF Start, Die, Finish, Recognize, CheckRaw, LinkRaw, CreateTemp, LinkPage,
                UnlinkTemp, storeVars
  <2>2. \/ \E place \in {"idle", "look", "rejected", "done"} : Go(q, place)
        \/ /\ pc[q] \in Busy
           /\ \E place \in {"temp", "checkraw", "linkraw", "link", "unlink", "commit"} :
                Go(q, place)
    BY <1>3 DEF Start, Die, Finish, Recognize, CheckRaw, LinkRaw, CreateTemp, LinkPage,
                UnlinkTemp, At, Busy
  <2>3. QED
    BY <2>1, <2>2, ResumeQuiet DEF Busy
<1>4. ASSUME NEW q \in Processes, Look(q)
      PROVE  ResumeInv'
  <2>1. /\ UNCHANGED <<pageStatus, jobStatus, pageFile>> /\ page[q] \in Pages
    BY <1>4, PageCountAssumption
    DEF Look, storeVars, diskVars, IInv, ProcessTypes, Pages, Store!Pages
  <2>2. CASE \E place \in {"look", "cancelled", "rejected", "adopt"} : Go(q, place)
    BY <2>1, <2>2, ResumeQuiet DEF Busy
  <2>3. CASE /\ Go(q, "claim") /\ StayOn(q) /\ pageStatus[page[q]] # "completed"
             /\ ~(pageStatus[page[q]] \in {"queued", "running"} /\ pageFile[page[q]] # Null)
    <3>1. pc'[q] = "claim" /\ page' = page /\ \A r \in Processes : r = q
      BY <2>3 DEF Go, StayOn, IInv, ProcessTypes, OneProcess
    <3>2. pageFile[page[q]] = Null \/ pageStatus[page[q]] \in {"failed", "cancelled"}
      BY <2>1, <2>3 DEF StoreProofs!TypeOK, StoreProofs!PageStatuses, Pages, Store!Pages,
                        StoreProofs!Pages
    <3>3. QED
      BY <2>1, <3>1, <3>2 DEF ResumeInv, Busy
  <2>4. QED
    BY <1>4, <2>2, <2>3 DEF Look, PushPage
<1>5. ASSUME NEW q \in Processes, NEW t \in Store!Times, Adopt(q, t) \/ Claim(q, t)
      PROVE  ResumeInv'
  <2>1. CASE Refused(q)
    BY <2>1, ResumeQuiet DEF Refused, storeVars, Busy
  <2>2. CASE ~Refused(q)
    <3>1. /\ UNCHANGED <<page, pageFile>> /\ page[q] \in Pages
          /\ \/ Store!ClaimPageAt(page[q], Owner, t, Lease) /\ Go(q, "adopted")
             \/ Store!ClaimPage(Owner, t, Lease) /\ Go(q, "work") /\ pc[q] = "claim"
      BY <1>5, <2>2 DEF Adopt, Claim, At, StayOn, diskVars, IInv, Registers, Active
    <3>2. pc'[q] \in {"adopted", "work"} /\ \A r \in Processes : r = q
      BY <3>1 DEF Go, IInv, ProcessTypes, OneProcess
    <3>3. /\ \A r \in Pages : pageStatus[r] \notin {"failed", "cancelled"}
          /\ \A r \in Pages : pageStatus'[r] # "failed"
      BY <3>1, ResumeClaims
    <3>4. pc'[q] = "work" => pageFile[page[q]] = Null
      BY <3>1, <3>3 DEF ResumeInv, Go, IInv, ProcessTypes
    <3>5. QED
      BY <3>1, <3>2, <3>3, <3>4 DEF ResumeInv
  <2>3. QED
    BY <2>1, <2>2
<1>6. ASSUME NEW q \in Processes, NEW t \in Store!Times,
             FailWork(q, t) \/ Adopted(q, t) \/ CommitPage(q, t)
      PROVE  ResumeInv'
  <2>1. page[q] \in Pages /\ \A r \in Pages : pageStatus[r] # "failed"
    BY <1>6 DEF FailWork, Adopted, CommitPage, At, ResumeInv, Busy, IInv, Registers, Active
  <2>2. CASE Refused(q)
    BY <2>2, ResumeQuiet DEF Refused, storeVars, Busy
  <2>3. CASE ~Refused(q)
    <3>1. /\ \E place \in {"stopped", "look"} : Go(q, place)
          /\ \E outcome : /\ pageStatus' = [pageStatus EXCEPT ![page[q]] = outcome]
                          /\ outcome = "failed" => jobStatus' = "failed"
      BY <1>6, <2>3
      DEF FailWork, Adopted, CommitPage, PushPage, Store!FailPage, Store!RecordProviderFailure,
          Store!GiveBack, Store!CheckpointPage, Store!RecordProviderSuccess, Store!Commit
    <3>2. pc'[q] \in {"stopped", "look"} /\ \A r \in Processes : r = q
      BY <3>1 DEF Go, IInv, ProcessTypes, OneProcess
    <3>3. \A r \in Pages : pageStatus'[r] = "failed" => jobStatus' = "failed"
      BY <2>1, <3>1 DEF StoreProofs!TypeOK, Pages, Store!Pages, StoreProofs!Pages
    <3>4. QED
      BY <3>2, <3>3 DEF ResumeInv, Busy
  <2>4. QED
    BY <2>2, <2>3
<1>7. QED
  BY <1>1, <1>2, <1>3, <1>4, <1>5, <1>6 DEF Next, Step

\* A page whose record a run wrote before it died is not given to the provider
\* again, as long as the command is not run twice at a time.
THEOREM RecordedPagesCorrect ==
  ASSUME OneProcess PROVE Spec => RecordedPagesAreNotRedone
<1>1. Init => ResumeInv
  BY DEF Init, Store!Init, Pages, ResumeInv
<1>2. IInv /\ ResumeInv /\ StoreProofs!TypeOK /\ StoreProofs!CancellationWins /\ [Next]_vars
        => ResumeInv'
  BY ResumeStep
<1>3. ResumeInv => [\A q \in Processes :
        (At(q, "work") /\ evidence'[q] # Null) => pageFile[page[q]] = Null]_vars
  BY DEF ResumeInv, At
<1>4. QED
  BY <1>1, <1>2, <1>3, IInvCorrect, StoreHolds, PTL DEF Spec, RecordedPagesAreNotRedone
=============================================================================
