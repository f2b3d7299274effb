-------------------------- MODULE JobIdentityProofs --------------------------
(***************************************************************************)
(* Proofs about JobIdentity for every set of callers, page counts and      *)
(* fingerprints.                                                           *)
(*                                                                         *)
(* AcceptedCallersAgree is not inductive: that the stamp of a creator      *)
(* cannot change the fingerprint an accepted caller has compared with      *)
(* follows only because a row that waits for its stamp has none yet and    *)
(* has one creator (OneStamp).                                             *)
(***************************************************************************)
EXTENDS JobIdentity, TLAPS

\* What a caller knows of the row at each place of ensure_job.
Knows(c) ==
  /\ pc[c] = "compare" => job # Null /\ job.pages = config[c].pages
  /\ pc[c] = "stamp" => job # Null /\ job.pages = config[c].pages
  /\ pc[c] = "accepted" => /\ job # Null /\ job.pages = config[c].pages
                           /\ job.fingerprint = config[c].fingerprint

IInv == TypeOK /\ OneStamp /\ \A c \in Callers : Knows(c)

\* The step of one caller keeps its own knowledge right and that of the others.
LEMMA CallerStep ==
  ASSUME IInv, NEW c \in Callers, Step(c) \/ Die(c)
  PROVE  IInv'
<1> USE DEF IInv, TypeOK, OneStamp, Knows, Configurations, Rows, Go, Inside, Outside
<1>1. CASE Call(c)
  BY <1>1 DEF Call
<1>2. CASE Look(c)
  BY <1>2 DEF Look
<1>3. CASE Compare(c)
  BY <1>3, NullAssumption DEF Compare
<1>4. CASE Create(c)
  <2>1. CASE job # Null
    BY <1>4, <2>1 DEF Create
  <2>2. CASE job = Null
    <3>1. /\ job' = [pages |-> config[c].pages, fingerprint |-> Null]
          /\ intended' = config[c] /\ pc' = [pc EXCEPT ![c] = "stamp"]
          /\ config' = config
      BY <1>4, <2>2 DEF Create
    <3>2. job' \in Rows /\ job' # Null
      BY <3>1, NullAssumption
    <3>3. \A d \in Callers : pc[d] \notin {"compare", "stamp", "accepted"}
      BY <2>2
    <3>4. QED
      BY <3>1, <3>2, <3>3
  <2>3. QED
    BY <2>1, <2>2
<1>5. CASE Stamp(c)
  <2>1. /\ job \in Rows /\ job.fingerprint = Null /\ job.pages = config[c].pages
        /\ \A d \in Callers : pc[d] = "stamp" => c = d
    BY <1>5 DEF Stamp
  <2>2. /\ job' \in Rows /\ job'.pages = job.pages
        /\ job'.fingerprint = config[c].fingerprint
    BY <1>5, <2>1 DEF Stamp
  <2>3. job' # Null /\ \A d \in Callers : pc[d] # "accepted"
    BY <2>1, <2>2, NullAssumption
  <2>4. QED
    BY <1>5, <2>1, <2>2, <2>3 DEF Stamp
<1>6. CASE Die(c)
  BY <1>6 DEF Die
<1>7. QED
  BY <1>1, <1>2, <1>3, <1>4, <1>5, <1>6 DEF Step

LEMMA IInvCorrect == Spec => []IInv
<1>1. Init => IInv
  BY DEF Init, IInv, TypeOK, OneStamp, Knows, Inside, Outside
<1>2. IInv /\ [Next]_vars => IInv'
  <2> SUFFICES ASSUME IInv, [Next]_vars PROVE IInv'
    OBVIOUS
  <2>1. CASE CreateBare
    <3>1. job = Null /\ job' \in Rows /\ UNCHANGED <<intended, pc, config>>
      BY <2>1 DEF CreateBare, Rows
    <3>2. \A c \in Callers : pc[c] \notin {"compare", "stamp", "accepted"}
      BY <3>1 DEF IInv, OneStamp, Knows
    <3>3. QED
      BY <3>1, <3>2 DEF IInv, TypeOK, OneStamp, Knows
  <2>2. CASE UNCHANGED vars
    BY <2>2 DEF vars, IInv, TypeOK, OneStamp, Knows
  <2>3. QED
    BY <2>1, <2>2, CallerStep DEF Next
<1>3. QED
  BY <1>1, <1>2, PTL DEF Spec

\* The row and the callers' registers always hold values of their domains.
THEOREM TypeCorrect == Spec => []TypeOK
BY IInvCorrect, PTL DEF IInv

\* One caller at a time is between inserting the row and stamping it, and the
\* row has no fingerprint before.
THEOREM OneStampCorrect == Spec => []OneStamp
BY IInvCorrect, PTL DEF IInv

\* Callers that were handed the job all have the same document and parameters,
\* however their statements interleave and whoever dies.
THEOREM AcceptedCallersAgreeCorrect == Spec => []AcceptedCallersAgree
<1>1. IInv => AcceptedCallersAgree
  BY DEF IInv, Knows, AcceptedCallersAgree
<1>2. QED
  BY <1>1, IInvCorrect, PTL
=============================================================================
