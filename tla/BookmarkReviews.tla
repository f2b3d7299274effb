--------------------------- MODULE BookmarkReviews ---------------------------
(***************************************************************************)
(* The bookmark candidates of a snapshot and their review                  *)
(* (mpdf-core/src/bookmarks): their order and parents, what makes a        *)
(* snapshot of them valid, the log of review operations over it, and the   *)
(* effective view they give, in the order of the document.                 *)
(*                                                                         *)
(* An action is [do, title, parent, level].  A snapshot is its own digest. *)
(* The generator makes no suggestions of an AI, which could not be         *)
(* confirmed.                                                              *)
(***************************************************************************)
EXTENDS OcrRecords

MaxCandidates == 100000
MaxReviews == 100000
DeepestLevel == 64

-----------------------------------------------------------------------------
(***************************************************************************)
(* Candidates and their order.                                             *)
(***************************************************************************)
\* The elements of a sequence at some positions, in an order of these: a set of
\* pairs of an earlier and a later one.
Arranged(seq, positions, order) ==
  LET place(k) == Cardinality({j \in positions : <<j, k>> \in order})
  IN  [i \in 1 .. Cardinality(positions) |-> seq[CHOOSE k \in positions : place(k) = i - 1]]

\* By page, height on the page and level.  The code orders candidates that agree
\* in these by title; titles have no order here, and they stay as they were.
Top(c) == IF c.box = <<>> THEN [n |-> 0, den |-> 1] ELSE [n |-> c.box[1].y, den |-> c.box[1].den]
GapBetween(upper, lower) == upper.n * lower.den - lower.n * upper.den
PrecedesOnPage(c, e, gap) == gap < 0 \/ (gap = 0 /\ c.level < e.level)
Precedes(c, e) ==
  \/ c.index < e.index
  \/ c.index = e.index /\ PrecedesOnPage(c, e, GapBetween(Top(c), Top(e)))
Order(candidates) ==
  {p \in (DOMAIN candidates) \X (DOMAIN candidates) :
     \/ Precedes(candidates[p[1]], candidates[p[2]])
     \/ ~Precedes(candidates[p[2]], candidates[p[1]]) /\ p[1] < p[2]}
Sorted(candidates) == Arranged(candidates, DOMAIN candidates, Order(candidates))

ValidCandidate(c) ==
  /\ c.source # <<>> /\ c.title # <<>> /\ c.level <= DeepestLevel
  /\ ValidConfidence(c.confidence) /\ c.evidence # <<>>
ValidSnapshot(s) ==
  /\ Len(s.candidates) <= MaxCandidates /\ Every(s.candidates, ValidCandidate)
  /\ Distinct([k \in DOMAIN s.candidates |-> s.candidates[k].id])
IsChild(c, candidates) ==
  c.parent # <<>> => \E k \in DOMAIN candidates : candidates[k].id = c.parent[1] /\ candidates[k].level < c.level

\* As below, with the stack popped only while it is deeper.
WithParentsFaulty(candidates) ==
  [k \in DOMAIN candidates |->
     LET above == {j \in 1 .. k - 1 : candidates[j].sourceLevel <= candidates[k].sourceLevel}
         parent == IF above = {} THEN <<>> ELSE <<candidates[Max(above)].id>>
     IN  [candidates[k] EXCEPT !.sourceParent = parent, !.parent = parent]]

\* Above each stands the last one before it that is shallower: the stack of
\* levels that is popped down to a lower one.
WithParents(candidates) ==
  [k \in DOMAIN candidates |->
     LET above == {j \in 1 .. k - 1 : candidates[j].sourceLevel < candidates[k].sourceLevel}
         parent == IF above = {} THEN <<>> ELSE <<candidates[Max(above)].id>>
     IN  [candidates[k] EXCEPT !.sourceParent = parent, !.parent = parent]]

-----------------------------------------------------------------------------
(***************************************************************************)
(* Operations.                                                             *)
(***************************************************************************)
NoReviews(s) == [base |-> s, operations |-> <<>>]
OperationId(candidate, action, ordinal) == <<"review", candidate, action, ordinal>>
ValidReviews(r) ==
  Len(r.operations) <= MaxReviews /\ Distinct([k \in DOMAIN r.operations |-> r.operations[k].id])

Reviewed(c, action) ==
  CASE action.do = "confirm" -> [c EXCEPT !.status = "confirmed"]
    [] action.do = "reject" -> [c EXCEPT !.status = "rejected"]
    [] action.do = "edit" -> [c EXCEPT !.title = action.title]
    [] action.do = "reparent" -> [c EXCEPT !.parent = action.parent, !.level = action.level]
Review(op, candidates) ==
  [k \in DOMAIN candidates |->
     IF candidates[k].id = op.candidate THEN Reviewed(candidates[k], op.action) ELSE candidates[k]]
Allowed(op, candidates) ==
  /\ \E k \in DOMAIN candidates : candidates[k].id = op.candidate
  /\ op.action.do = "edit" => op.action.title # <<>>
  /\ op.action.do = "reparent" => op.action.level <= DeepestLevel
AfterReviews(candidates, operations) ==
  LET after[n \in 0 .. Len(operations)] ==
        IF n = 0 THEN candidates ELSE Review(operations[n], after[n - 1])
  IN  after[Len(operations)]

\* The chain of parents above a candidate comes to its end.
IsRooted(c, candidates) ==
  LET parentOf(id) == candidates[Min({k \in DOMAIN candidates : candidates[k].id = id})].parent
      up[n \in 0 .. Len(candidates)] ==
        IF n = 0 THEN c.parent ELSE IF up[n - 1] = <<>> THEN <<>> ELSE parentOf(up[n - 1][1])
  IN  up[Len(candidates)] = <<>>

\* effective: <<candidates>>, or <<>>.
View(candidates) ==
  IF /\ Every(candidates, LAMBDA c : IsChild(c, candidates))
     /\ Every(candidates, LAMBDA c : IsRooted(c, candidates))
  THEN <<Sorted(candidates)>> ELSE <<>>
Effective(s, r) ==
  IF /\ ValidSnapshot(s) /\ ValidReviews(r) /\ r.base = s
     /\ Every(r.operations, LAMBDA op : Allowed(op, s.candidates))
  THEN View(AfterReviews(s.candidates, r.operations)) ELSE <<>>

\* append: <<reviews>>, or <<>>.
AppendReview(s, r, candidate, action) ==
  LET op == [id |-> OperationId(candidate, action, Len(r.operations)), candidate |-> candidate,
             action |-> action]
      next == [r EXCEPT !.operations = Append(@, op)]
  IN  IF Effective(s, next) # <<>> THEN <<next>> ELSE <<>>

\* What of a view is put into a PDF.
Confirmed(candidates) ==
  LET chosen == {k \in DOMAIN candidates : candidates[k].status = "confirmed"}
  IN  Arranged(candidates, chosen, {p \in chosen \X chosen : p[1] < p[2]})

-----------------------------------------------------------------------------
(***************************************************************************)
(* What reviews promise.                                                   *)
(***************************************************************************)
\* Reviews are wanted one after the other, and refused ones leave no trace.
Replay(s, wanted) ==
  LET log[n \in 0 .. Len(wanted)] ==
        IF n = 0 THEN NoReviews(s)
        ELSE LET next == AppendReview(s, log[n - 1], wanted[n][1], wanted[n][2])
             IN  IF next = <<>> THEN log[n - 1] ELSE next[1]
  IN  log[Len(wanted)]

\* A view shows of every candidate its own part as it was, and its last title
\* and verdict; its parents make a forest whose levels grow downwards.
Kept == {"id", "source", "sourceLevel", "sourceParent", "page", "index", "box", "evidence", "confidence"}
Verdicts == {"confirm", "reject"}
OperationsOn(c, operations, kinds) ==
  {n \in DOMAIN operations : operations[n].candidate = c.id /\ operations[n].action.do \in kinds}
TitleAfter(c, operations) ==
  LET edits == OperationsOn(c, operations, {"edit"})
  IN  IF edits = {} THEN c.title ELSE operations[Max(edits)].action.title
StatusAfter(c, operations) ==
  LET verdicts == OperationsOn(c, operations, Verdicts)
  IN  CASE verdicts = {} -> c.status
        [] verdicts # {} -> IF operations[Max(verdicts)].action.do = "confirm" THEN "confirmed" ELSE "rejected"
Shows(e, c, operations) ==
  /\ \A f \in Kept : e[f] = c[f]
  /\ e.title = TitleAfter(c, operations) /\ e.status = StatusAfter(c, operations)
ViewFollows(s, operations, view) ==
  LET parents(T) == {c \in ToSet(view) : \E e \in T : e.parent = <<c.id>>}
  IN  /\ Len(view) = Len(s.candidates)
      /\ \A c \in ToSet(s.candidates) : \E e \in ToSet(view) : Shows(e, c, operations)
      /\ \A j, k \in DOMAIN view : /\ view[j].id = view[k].id => j = k
                                  /\ j < k => ~Precedes(view[k], view[j])
      /\ \A T \in SUBSET ToSet(view) : T # {} => ~(T \subseteq parents(T))
      /\ \A c, e \in ToSet(view) : c.parent = <<e.id>> => e.level < c.level

\* Whatever is appended, the log still replays over its snapshot, and its view
\* follows it.  The log of one snapshot says nothing about another.
ReviewsReplay(s, wanted) ==
  \A log \in {Replay(s, wanted)} :
    /\ \A view \in {Effective(s, log)} :
         view # <<>> /\ \A shown \in ToSet(view) : ViewFollows(s, log.operations, shown)
    /\ log.operations # <<>> => Effective([s EXCEPT !.candidates = Tail(@)], log) = <<>>
=============================================================================
