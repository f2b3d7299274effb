----------------------------- MODULE PdfOutline -----------------------------
(***************************************************************************)
(* The outline of a searchable PDF (add_outline of                         *)
(* mpdf-core/src/searchable_pdf.rs): the links between the bookmarks that  *)
(* were confirmed.                                                         *)
(***************************************************************************)
EXTENDS Integers, Sequences, FiniteSets, FiniteSetsExt

\* add_outline: node 0 is the root, node k the k-th candidate; 0 is no node.
AddOutline(candidates) ==
  LET place(id) == {k \in DOMAIN candidates : candidates[k].id = id}
      parent(k) == IF candidates[k].parent = <<>> \/ place(candidates[k].parent[1]) = {} THEN 0
                   ELSE Min(place(candidates[k].parent[1]))
      children(n) == {k \in DOMAIN candidates : parent(k) = n}
      later(k) == {j \in children(parent(k)) : j > k}
      earlier(k) == {j \in children(parent(k)) : j < k}
      leastOf(S) == IF S = {} THEN 0 ELSE Min(S)
      greatestOf(S) == IF S = {} THEN 0 ELSE Max(S)
  IN  [n \in 0 .. Len(candidates) |->
         [parent |-> IF n = 0 THEN 0 ELSE parent(n),
          first |-> leastOf(children(n)), last |-> greatestOf(children(n)),
          next |-> IF n = 0 THEN 0 ELSE leastOf(later(n)),
          prev |-> IF n = 0 THEN 0 ELSE greatestOf(earlier(n))]]

-----------------------------------------------------------------------------
\* What the effective view of the bookmarks guarantees of those confirmed:
\* they have ids of their own, and each is deeper than its parent when that is
\* confirmed as well.
IsForest(confirmed) ==
  /\ \A j, k \in DOMAIN confirmed : confirmed[j].id = confirmed[k].id => j = k
  /\ \A k \in DOMAIN confirmed :
       /\ confirmed[k].parent = <<>> \/ confirmed[k].parent = <<confirmed[k].parent[1]>>
       /\ confirmed[k].level \in Nat
       /\ \A j \in DOMAIN confirmed :
            confirmed[k].parent = <<confirmed[j].id>> => confirmed[j].level < confirmed[k].level

\* The nodes met from the root within k steps along first and next.
Reached(outline) ==
  LET reached[k \in DOMAIN outline] ==
        IF k = 0 THEN {0}
        ELSE reached[k - 1] \cup {outline[j].first : j \in reached[k - 1]} \cup {outline[j].next : j \in reached[k - 1]}
  IN  reached

\* From the root, following first and next, every confirmed bookmark is met
\* once; it is under its parent, or at the top when that is not confirmed, and
\* the links back agree.
OutlineIsTree(confirmed, outline) ==
  LET n == Len(confirmed)
      firstOf(k) == {j \in 0 .. n : outline[j].first = k}
      nextOf(k) == {j \in 0 .. n : outline[j].next = k}
      title(k) == IF k = 0 THEN <<>> ELSE <<confirmed[k].id>>
      known(c) == \E k \in 1 .. n : <<confirmed[k].id>> = c.parent
  IN  /\ Reached(outline)[n] = 0 .. n
      /\ \A k \in 1 .. n :
           /\ Cardinality(firstOf(k)) + Cardinality(nextOf(k)) = 1
           /\ \A j \in firstOf(k) : outline[k].parent = j /\ outline[k].prev = 0
           /\ \A j \in nextOf(k) : outline[k].parent = outline[j].parent /\ outline[k].prev = j
           /\ outline[k].next = 0 => outline[outline[k].parent].last = k
           /\ title(outline[k].parent) = IF known(confirmed[k]) THEN confirmed[k].parent ELSE <<>>
=============================================================================
