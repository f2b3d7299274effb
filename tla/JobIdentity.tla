----------------------------- MODULE JobIdentity -----------------------------
(***************************************************************************)
(* ensure_job of crates/mpdf-core/src/jobs.rs: callers open or create the  *)
(* job of one id, each for a source and provider configuration of its own. *)
(*                                                                         *)
(* Unlike the other operations of the store this one is several statements *)
(* outside of a transaction: read the job row, read its fingerprint, or    *)
(* insert the row and then write its fingerprint.  Callers interleave      *)
(* between them and may die there.                                         *)
(***************************************************************************)
EXTENDS Naturals

CONSTANTS
  Callers,
  PageCounts,     \* the page counts of their documents
  Fingerprints,   \* the source/provider fingerprints of their configurations
  Null            \* SQL NULL, and "no row"

ASSUME PageCountsAssumption == PageCounts \subseteq Nat \ {0}
Rows == [pages : PageCounts, fingerprint : Fingerprints \cup {Null}]

ASSUME NullAssumption == Null \notin Fingerprints \cup Rows

Configurations == [pages : PageCounts, fingerprint : Fingerprints]

VARIABLES
  job,        \* the row: Null, or its page_count and job_fingerprint
  intended,   \* the configuration ensure_job created the row for (history)
  pc, config  \* per caller

vars == <<job, intended, pc, config>>

\* A caller outside of ensure_job: not yet in it, killed, or returned.
Outside == {"idle", "accepted", "rejected"}
Inside == {"look", "compare", "create", "stamp"}

Init ==
  /\ job = Null /\ intended = Null
  /\ pc = [c \in Callers |-> "idle"]
  /\ config \in [Callers -> Configurations]

Go(c, place) == pc' = [pc EXCEPT ![c] = place]

\* A caller that holds an accepted job keeps its configuration; any other may
\* come back with one that was edited in between.
Call(c) ==
  /\ pc[c] \in {"idle", "rejected"}
  /\ Go(c, "look")
  /\ \E new \in Configurations : config' = [config EXCEPT ![c] = new]
  /\ UNCHANGED <<job, intended>>

Look(c) ==
  /\ pc[c] = "look"
  /\ Go(c, CASE job = Null -> "create"
             [] job # Null /\ job.pages # config[c].pages -> "rejected"
             [] OTHER -> "compare")
  /\ UNCHANGED <<job, intended, config>>

CompareNullFaulty(c) ==
  /\ pc[c] = "compare"
  /\ Go(c, IF job.fingerprint \in {Null, config[c].fingerprint} THEN "accepted"
                                                               ELSE "rejected")
  /\ UNCHANGED <<job, intended, config>>
Compare(c) ==
  /\ pc[c] = "compare"
  /\ Go(c, IF job.fingerprint = config[c].fingerprint THEN "accepted"
                                                      ELSE "rejected")
  /\ UNCHANGED <<job, intended, config>>

\* create_job: the primary key refuses a second row.
CreateIgnoreFaulty(c) ==
  /\ pc[c] = "create" /\ Go(c, "stamp")
  /\ job' = IF job = Null THEN [pages |-> config[c].pages, fingerprint |-> Null] ELSE job
  /\ intended' = IF job = Null THEN config[c] ELSE intended
  /\ UNCHANGED config
Create(c) ==
  /\ pc[c] = "create"
  /\ \/ /\ job = Null
        /\ job' = [pages |-> config[c].pages, fingerprint |-> Null]
        /\ intended' = config[c]
        /\ Go(c, "stamp")
     \/ job # Null /\ Go(c, "rejected") /\ UNCHANGED <<job, intended>>
  /\ UNCHANGED config

Stamp(c) ==
  /\ pc[c] = "stamp"
  /\ job' = [job EXCEPT !.fingerprint = config[c].fingerprint]
  /\ Go(c, "accepted")
  /\ UNCHANGED <<intended, config>>

\* `mpdf job create` makes a row without a fingerprint, for any page count but 0.
CreateBare ==
  /\ job = Null
  /\ \E n \in PageCounts \cup {0} :
       n # 0 /\ job' = [pages |-> n, fingerprint |-> Null]
  /\ UNCHANGED <<intended, pc, config>>

Die(c) == pc[c] \in Inside /\ Go(c, "idle") /\ UNCHANGED <<job, intended, config>>

Step(c) == Call(c) \/ Look(c) \/ Compare(c) \/ Create(c) \/ Stamp(c)

Next == CreateBare \/ \E c \in Callers : Step(c) \/ Die(c)

Spec == Init /\ [][Next]_vars

-----------------------------------------------------------------------------
TypeOK ==
  /\ job \in Rows \cup {Null}
  /\ intended \in Configurations \cup {Null}
  /\ pc \in [Callers -> Inside \cup Outside]
  /\ config \in [Callers -> Configurations]

\* Callers that were handed the job all mean the same document, provider and
\* parameters, at any time after ("rather than mixing checkpoints from
\* unrelated documents").
AcceptedCallersAgree ==
  \A c \in Callers : pc[c] = "accepted" =>
    job # Null /\ job.pages = config[c].pages /\ job.fingerprint = config[c].fingerprint

\* Only the caller that inserted the row writes its fingerprint, and once.
OneStamp ==
  \A c, d \in Callers :
    pc[c] = "stamp" => /\ job # Null /\ job.fingerprint = Null /\ intended = config[c]
                       /\ pc[d] = "stamp" => c = d
=============================================================================
