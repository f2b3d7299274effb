------------------------------ MODULE JobLedger ------------------------------
(***************************************************************************)
(* What the job store promises its clients, with no leases, clocks,        *)
(* attempts or queue in sight: every page gets at most one outcome, in any *)
(* order; a delivered page keeps the artifact it was delivered with; the   *)
(* job is completed by the delivery of its last page and is cancelled only *)
(* after somebody asked for it.                                            *)
(***************************************************************************)
CONSTANTS
  Pages,
  Artifacts,    \* what a page can be delivered as
  NoArtifact

VARIABLES
  outcome,      \* per page: "open", "delivered", "failed" or "dropped"
  artifact,     \* per page: the artifact it was delivered with
  cancelled,    \* cancellation was requested
  verdict       \* the job: "open", "completed" or "cancelled"

vars == <<outcome, artifact, cancelled, verdict>>

Init ==
  /\ outcome = [p \in Pages |-> "open"]
  /\ artifact = [p \in Pages |-> NoArtifact]
  /\ cancelled = FALSE
  /\ verdict = "open"

\* The open pages of S get the outcome o.
Settle(S, o) ==
  outcome' = [p \in Pages |-> IF p \in S THEN o ELSE outcome[p]]

OpenPages == {p \in Pages : outcome[p] = "open"}

\* A worker delivers page p; the last delivery decides the job.
Deliver(p, a) ==
  /\ p \in OpenPages
  /\ Settle({p}, "delivered")
  /\ artifact' = [artifact EXCEPT ![p] = a]
  /\ verdict' = IF \A q \in Pages \ {p} : outcome[q] \in {"delivered", "dropped"}
                  THEN IF cancelled THEN "cancelled" ELSE "completed"
                  ELSE verdict
  /\ UNCHANGED cancelled

\* Pages that will not be tried again.
GiveUp(S) ==
  /\ S # {} /\ S \subseteq OpenPages /\ ~cancelled
  /\ Settle(S, "failed")
  /\ UNCHANGED <<artifact, cancelled, verdict>>

\* Cancellation, or its progress: open pages are dropped and the job may be
\* over.  A completed job is not cancelled.
Cancel(S) ==
  /\ verdict # "completed" /\ S \subseteq OpenPages
  /\ Settle(S, "dropped")
  /\ cancelled' = TRUE
  /\ verdict' \in {verdict, "cancelled"}
  /\ UNCHANGED artifact

Next ==
  \/ \E p \in Pages, a \in Artifacts : Deliver(p, a)
  \/ \E S \in SUBSET Pages : GiveUp(S) \/ Cancel(S)

Spec == Init /\ [][Next]_vars
=============================================================================
