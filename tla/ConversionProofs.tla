-------------------------- MODULE ConversionProofs --------------------------
(***************************************************************************)
(* Proofs about the conversion of a document: its runs (Conversion), for   *)
(* any number of runs and pages, and the algorithms that work on its pages *)
(* and around it, for every input: its own and the plans of remote OCR     *)
(* (Algorithms), the outline of a searchable PDF (PdfOutline), the scores  *)
(* of the benchmark (Benchmark) and the review of bookmarks                *)
(* (BookmarkReviews).                                                      *)
(***************************************************************************)
EXTENDS Conversion, Algorithms, FiniteSetTheorems, WellFoundedInduction, TLAPS

(***************************************************************************)
(* The runs.  RunOK says what a run has at each stage: in the page loop    *)
(* the pages it has done and those it has to do are together the pages of  *)
(* the source, in order; from "persist" on validation has accepted what it *)
(* wrote; its temporary file exists only between the write and its end.    *)
(* DestOK relates the destination to the stage of the run that wrote it.   *)
(***************************************************************************)
Functions ==
  /\ build \in Builds
  /\ cfg = [r \in Runs |-> cfg[r]] /\ stage = [r \in Runs |-> stage[r]]
  /\ cancelled = [r \in Runs |-> cancelled[r]] /\ todo = [r \in Runs |-> todo[r]]
  /\ pages = [r \in Runs |-> pages[r]] /\ bad = [r \in Runs |-> bad[r]]

Loop == {"render", "binarize", "encode", "add"}
Accepted == {"persist", "rename", "fill"}
HasTemp == {"validate", "dead"} \cup Accepted

InOrder(done, left) ==
  /\ done \in Seq(Nat) /\ left \in Seq(Nat)
  /\ Len(left) > 0 /\ Len(done) + Len(left) = PageCount
  /\ \A k \in 1 .. Len(done) : done[k] = k
  /\ \A k \in 1 .. Len(left) : left[k] = Len(done) + k

RunOK(r) ==
  /\ stage[r] \in {"idle", "begin", "open", "start"} => pages[r] = <<>>
  /\ stage[r] \in Loop => InOrder(pages[r], todo[r])
  /\ stage[r] \in {"write", "validate"} \cup Accepted => pages[r] = AllPages
  /\ stage[r] \in Accepted => bad[r] \cap Rendered(r) = {}
  /\ stage[r] = "fill" => build.strategy = "direct"
  /\ r \in temps => stage[r] \in HasTemp

DestOK ==
  Written =>
    /\ dest.pages = AllPages /\ dest.bad \cap dest.rendered = {}
    /\ dest.whole \in BOOLEAN
    /\ dest.whole => stage[dest.by] = "finished"
    /\ ~dest.whole => build.strategy = "direct" /\ stage[dest.by] \in {"fill", "failed", "dead"}

IInv ==
  /\ Functions
  /\ \A r \in Runs : RunOK(r)
  /\ DestOK

\* What a step of one run leaves alone.
Elsewhere(r) ==
  /\ build' = build
  /\ \A q \in Runs \ {r} :
       /\ cfg'[q] = cfg[q] /\ stage'[q] = stage[q] /\ cancelled'[q] = cancelled[q]
       /\ todo'[q] = todo[q] /\ pages'[q] = pages[q] /\ bad'[q] = bad[q]
       /\ q \in temps' <=> q \in temps

\* What replacing one value leaves of a function.
LEMMA ExceptIsFunction ==
  ASSUME NEW f, f = [q \in Runs |-> f[q]], NEW r \in Runs, NEW v
  PROVE  /\ [f EXCEPT ![r] = v] = [q \in Runs |-> [f EXCEPT ![r] = v][q]]
         /\ [f EXCEPT ![r] = v][r] = v
         /\ \A q \in Runs \ {r} : [f EXCEPT ![r] = v][q] = f[q]
OBVIOUS

\* What a run does elsewhere than with its own state keeps what holds of the others.
LEMMA OthersKeep ==
  ASSUME IInv, NEW r \in Runs, Elsewhere(r) PROVE \A q \in Runs \ {r} : RunOK(q)'
BY DEF IInv, RunOK, Elsewhere, Rendered

\* The initial states have the invariant.
LEMMA Initially == Init => IInv
BY RunsAssumption DEF Init, IInv, Functions, RunOK, DestOK, Written, File, Loop, Accepted, HasTemp

\* What a run is after it moves on,
LEMMA ToIs ==
  ASSUME IInv, NEW r \in Runs, NEW s, To(r, s)
  PROVE  /\ stage' = [q \in Runs |-> stage'[q]] /\ stage'[r] = s
         /\ \A q \in Runs \ {r} : stage'[q] = stage[q]
BY ExceptIsFunction DEF IInv, Functions, To

\* after it gives up its temporary file,
LEMMA ForgetIs ==
  ASSUME IInv, NEW r \in Runs, Forget(r)
  PROVE  /\ build' = build
         /\ cfg' = [q \in Runs |-> cfg'[q]] /\ cancelled' = [q \in Runs |-> cancelled'[q]]
         /\ todo' = [q \in Runs |-> todo'[q]] /\ pages' = [q \in Runs |-> pages'[q]]
         /\ bad' = [q \in Runs |-> bad'[q]]
         /\ pages'[r] = <<>>
         /\ \A q \in Runs \ {r} :
              /\ cfg'[q] = cfg[q] /\ cancelled'[q] = cancelled[q]
              /\ todo'[q] = todo[q] /\ pages'[q] = pages[q] /\ bad'[q] = bad[q]
<1>1. Functions
  BY DEF IInv
<1>2. /\ cfg' = [cfg EXCEPT ![r] = Nothing] /\ cancelled' = [cancelled EXCEPT ![r] = FALSE]
      /\ todo' = [todo EXCEPT ![r] = <<>>] /\ pages' = [pages EXCEPT ![r] = <<>>]
      /\ bad' = [bad EXCEPT ![r] = {}] /\ build' = build
  BY DEF Forget
<1>3. QED
  BY <1>1, <1>2, ExceptIsFunction DEF Functions

\* A run at rest, or at its end, has no obligations but for its files.
LEMMA EndIs ==
  ASSUME IInv, NEW r \in Runs, NEW how \in Ends, End(r, how)
  PROVE  Functions' /\ Elsewhere(r) /\ RunOK(r)' /\ stage'[r] = how
<1>1. To(r, how) /\ temps' = temps \ {r} /\ Forget(r)
  BY DEF End
<1>2. QED
  BY <1>1, ToIs, ForgetIs DEF IInv, Functions, Elsewhere, RunOK, Ends, Loop, Accepted

\* and after it dies.
LEMMA DieIs ==
  ASSUME IInv, NEW r \in Runs, Die(r)
  PROVE  Functions' /\ Elsewhere(r) /\ RunOK(r)' /\ stage'[r] = "dead"
BY ToIs, ForgetIs DEF Die, IInv, Functions, Elsewhere, RunOK, Ends, Loop, Accepted, HasTemp

-----------------------------------------------------------------------------
(***************************************************************************)
(* A step of a run keeps what the run has.                                 *)
(***************************************************************************)
Kept(r) == Functions' /\ Elsewhere(r) /\ RunOK(r)'

\* The start of a command keeps the invariant,
LEMMA BeginKeeps ==
  ASSUME IInv, NEW r \in Runs, NEW c \in Requests, Begin(r, c) PROVE Kept(r)
<1>1. UNCHANGED <<build, cancelled, todo, pages, bad, temps>> /\ stage[r] = "idle"
  BY DEF Begin, At
<1>2. PICK s \in {"refused", "open", "start", "begin"} : To(r, s)
  BY DEF Begin
<1>3. UNCHANGED cfg \/ cfg' = [cfg EXCEPT ![r] = c]
  BY DEF Begin
<1>4. /\ cfg' = [q \in Runs |-> cfg'[q]]
      /\ \A q \in Runs \ {r} : cfg'[q] = cfg[q]
  BY <1>3, ExceptIsFunction DEF IInv, Functions
<1>5. QED
  BY <1>1, <1>2, <1>4, ToIs DEF Kept, IInv, Functions, Elsewhere, RunOK, Loop, Accepted, HasTemp

\* and so do a cancellation,
LEMMA CancelKeeps ==
  ASSUME IInv, NEW r \in Runs, Cancel(r) PROVE Kept(r) /\ stage' = stage
BY ExceptIsFunction DEF Cancel, Kept, IInv, Functions, Elsewhere, RunOK, Rendered

\* Steps that go to another stage and change nothing else.
LEMMA MoveKeeps ==
  ASSUME IInv, NEW r \in Runs, NEW s \in {"start", "binarize", "encode", "add"}, To(r, s),
         UNCHANGED <<build, cfg, cancelled, todo, pages, bad, temps>>,
         s = "start" => stage[r] = "open", s # "start" => stage[r] \in Loop
  PROVE  Kept(r)
BY ToIs DEF Kept, IInv, Functions, Elsewhere, RunOK, Loop, Accepted, HasTemp

\* the start of the work,
LEMMA StartKeeps == ASSUME IInv, NEW r \in Runs, Start(r) PROVE Kept(r)
<1>1. To(r, "render") /\ UNCHANGED <<build, cfg, cancelled, pages, bad, temps>> /\ stage[r] = "start"
  BY DEF Start, Goes, At
<1>2. /\ todo' = [q \in Runs |-> todo'[q]] /\ todo'[r] = AllPages
      /\ \A q \in Runs \ {r} : todo'[q] = todo[q]
  BY ExceptIsFunction DEF Start, IInv, Functions
<1>3. pages[r] = <<>>
  BY <1>1 DEF IInv, RunOK
<1>4. InOrder(<<>>, AllPages)
  BY PageCountAssumption DEF InOrder, AllPages
<1>5. r \notin temps
  BY <1>1 DEF IInv, RunOK, HasTemp, Accepted
<1>6. QED
  BY <1>1, <1>2, <1>3, <1>4, <1>5, ToIs DEF Kept, IInv, Functions, Elsewhere, RunOK, Loop, Accepted, HasTemp

\* A book of all pages in order is the whole document.
LEMMA AllInOrder ==
  ASSUME NEW s \in Seq(Nat), Len(s) = PageCount, \A k \in 1 .. PageCount : s[k] = k PROVE s = AllPages
<1>1. s = [k \in 1 .. Len(s) |-> s[k]]
  OBVIOUS
<1>2. QED
  BY <1>1 DEF AllPages

\* Adding the page at hand to the ones that are done.
LEMMA AppendInOrder ==
  ASSUME NEW done, NEW left, InOrder(done, left),
         NEW more, NEW rest, more = Append(done, Head(left)), rest = Tail(left)
  PROVE  /\ Len(left) > 1 => InOrder(more, rest)
         /\ Len(left) = 1 => more = AllPages
<1>1. /\ done \in Seq(Nat) /\ left \in Seq(Nat) /\ Len(left) > 0 /\ Len(done) + Len(left) = PageCount
      /\ Len(done) \in Nat /\ Len(left) \in Nat
  BY DEF InOrder
<1>2. Head(left) = Len(done) + 1
  BY <1>1 DEF InOrder
<1>3. /\ more \in Seq(Nat) /\ Len(more) = Len(done) + 1
      /\ \A k \in 1 .. Len(done) + 1 : more[k] = k
  BY <1>1, <1>2 DEF InOrder
<1>4. ASSUME Len(left) > 1 PROVE InOrder(more, rest)
  <2>1. rest \in Seq(Nat) /\ Len(rest) = Len(left) - 1
    BY <1>1, <1>4
  <2>2. \A k \in 1 .. Len(left) - 1 : rest[k] = left[k + 1]
    BY <1>1, <1>4
  <2>3. \A k \in 1 .. Len(left) - 1 : left[k + 1] = Len(done) + (k + 1)
    BY <1>1 DEF InOrder
  <2>4. \A k \in 1 .. Len(rest) : rest[k] = Len(more) + k
    BY <1>1, <1>3, <2>1, <2>2, <2>3
  <2>5. QED
    BY <1>1, <1>3, <1>4, <2>1, <2>4 DEF InOrder
<1>5. ASSUME Len(left) = 1 PROVE more = AllPages
  BY <1>1, <1>3, <1>5, AllInOrder
<1>6. QED
  BY <1>4, <1>5

\* a page that is added or skipped,
LEMMA AddPageKeeps == ASSUME IInv, NEW r \in Runs, AddPage(r) PROVE Kept(r)
<1>1. UNCHANGED <<build, cfg, cancelled, temps>> /\ stage[r] = "add"
  BY DEF AddPage, Goes, At
<1>2. InOrder(pages[r], todo[r]) /\ r \notin temps
  BY <1>1 DEF IInv, RunOK, Loop, HasTemp, Accepted
<1>3. /\ pages' = [q \in Runs |-> pages'[q]] /\ pages'[r] = Append(pages[r], Head(todo[r]))
      /\ todo' = [q \in Runs |-> todo'[q]] /\ todo'[r] = Tail(todo[r])
      /\ \A q \in Runs \ {r} : pages'[q] = pages[q] /\ todo'[q] = todo[q]
  <2>1. Functions
    BY DEF IInv
  <2>2. /\ pages' = [pages EXCEPT ![r] = Append(pages[r], Head(todo[r]))]
        /\ todo' = [todo EXCEPT ![r] = Tail(todo[r])]
    BY DEF AddPage
  <2>3. QED
    BY <2>1, <2>2, ExceptIsFunction DEF Functions
<1>4. /\ bad' = [q \in Runs |-> bad'[q]]
      /\ \A q \in Runs \ {r} : bad'[q] = bad[q]
  BY ExceptIsFunction DEF AddPage, IInv, Functions
<1>5. /\ Len(todo[r]) > 1 => InOrder(pages'[r], todo'[r])
      /\ Len(todo[r]) = 1 => pages'[r] = AllPages
  <2>1. pages'[r] = Append(pages[r], Head(todo[r])) /\ todo'[r] = Tail(todo[r])
    BY <1>3
  <2>2. InOrder(pages[r], todo[r])
    BY <1>2
  <2>3. QED
    BY <2>1, <2>2, AppendInOrder, Zenon
<1>6. PICK s \in {"render", "write"} :
        To(r, s) /\ (s = "render" => Len(todo[r]) > 1) /\ (s = "write" => Len(todo[r]) = 1)
  BY DEF AddPage
<1>7. Functions' /\ Elsewhere(r)
  BY <1>1, <1>3, <1>4, <1>6, ToIs DEF IInv, Functions, Elsewhere
<1>8. RunOK(r)'
  BY <1>1, <1>2, <1>5, <1>6, ToIs DEF RunOK, Loop, Accepted
<1>9. QED
  BY <1>7, <1>8 DEF Kept

\* the write of the temporary file,
LEMMA WriteTemporaryKeeps == ASSUME IInv, NEW r \in Runs, WriteTemporary(r) PROVE Kept(r)
BY ToIs DEF WriteTemporary, Goes, At, Kept, IInv, Functions, Elsewhere, RunOK, Loop, Accepted, HasTemp

\* its validation,
LEMMA ValidateKeeps == ASSUME IInv, NEW r \in Runs, Validate(r) PROVE Kept(r)
BY ToIs DEF Validate, Accepts, Rendered, Goes, At, Kept, IInv, Functions, Elsewhere, RunOK, Loop,
            Accepted, HasTemp

\* the removal of the old destination,
LEMMA RemoveOldKeeps == ASSUME IInv, NEW r \in Runs, RemoveOld(r) PROVE Kept(r)
BY ToIs DEF RemoveOld, Rendered, At, Kept, IInv, Functions, Elsewhere, RunOK, Loop, Accepted, HasTemp

\* the truncation of a direct write,
LEMMA TruncateKeeps == ASSUME IInv, NEW r \in Runs, Truncate(r) PROVE Kept(r)
BY ToIs DEF Truncate, Rendered, At, Kept, IInv, Functions, Elsewhere, RunOK, Loop, Accepted, HasTemp

\* the start of an estimate,
LEMMA BeginMeasuringKeeps == ASSUME IInv, NEW r \in Runs, BeginMeasuring(r) PROVE Kept(r)
<1>1. To(r, "measure") /\ UNCHANGED <<build, cfg, cancelled, pages, bad, temps>> /\ stage[r] = "begin"
  BY DEF BeginMeasuring, At
<1>2. PICK selected : todo' = [todo EXCEPT ![r] = selected]
  BY DEF BeginMeasuring
<1>3. todo' = [q \in Runs |-> todo'[q]] /\ \A q \in Runs \ {r} : todo'[q] = todo[q]
  BY <1>2, ExceptIsFunction DEF IInv, Functions
<1>4. QED
  BY <1>1, <1>3, ToIs DEF Kept, IInv, Functions, Elsewhere, RunOK, Loop, Accepted, HasTemp

\* a page it measures,
LEMMA MeasureKeeps == ASSUME IInv, NEW r \in Runs, Measure(r) PROVE Kept(r)
<1>1. UNCHANGED <<build, cfg, cancelled, temps>> /\ stage[r] = "measure"
  BY DEF Measure, Goes, At
<1>2. PICK done, wrong : /\ todo' = [todo EXCEPT ![r] = Tail(todo[r])]
                         /\ pages' = pages \/ pages' = [pages EXCEPT ![r] = done]
                         /\ bad' = bad \/ bad' = [bad EXCEPT ![r] = wrong]
  BY DEF Measure
<1>3. /\ todo' = [q \in Runs |-> todo'[q]] /\ pages' = [q \in Runs |-> pages'[q]]
      /\ bad' = [q \in Runs |-> bad'[q]]
      /\ \A q \in Runs \ {r} : todo'[q] = todo[q] /\ pages'[q] = pages[q] /\ bad'[q] = bad[q]
  <2>1. Functions
    BY DEF IInv
  <2>2. QED
    BY <1>2, <2>1, ExceptIsFunction DEF Functions
<1>4. To(r, "report") \/ UNCHANGED stage
  BY DEF Measure
<1>5. /\ stage' = [q \in Runs |-> stage'[q]] /\ stage'[r] \in {"report", "measure"}
      /\ \A q \in Runs \ {r} : stage'[q] = stage[q]
  BY <1>1, <1>4, ToIs DEF IInv, Functions
<1>6. QED
  BY <1>1, <1>3, <1>5 DEF Kept, IInv, Functions, Elsewhere, RunOK, Loop, Accepted, HasTemp

\* the step to the next stage,
LEMMA AdvanceKeeps == ASSUME IInv, NEW r \in Runs, Advance(r) PROVE Kept(r)
<1>1. PICK s \in DOMAIN NextStage : Goes(r, s) /\ To(r, NextStage[s])
  BY DEF Advance
<1>2. stage[r] \in Loop /\ NextStage[s] \in {"binarize", "encode", "add"}
  BY <1>1 DEF NextStage, Goes, At, Loop
<1>3. QED
  BY <1>1, <1>2, MoveKeeps DEF Advance

\* A step that ends the run.
Finishes(r) == \E how \in {"finished", "failed", "cancelled"} : End(r, how)

\* and whatever a run does.
LEMMA WorkKeeps == ASSUME IInv, NEW r \in Runs, Work(r) PROVE Kept(r)
<1>1. CASE Finishes(r)
  BY <1>1, EndIs DEF Finishes, Kept, Ends
<1>2. CASE Heed(r) \/ Rename(r) \/ Fill(r) \/ Report(r) \/ Fail(r)
  BY <1>1, <1>2 DEF Heed, Rename, Fill, Report, Fail, Finishes
<1>3. CASE Open(r)
  BY <1>3, MoveKeeps DEF Open, Goes, At
<1>4. QED
  BY <1>2, <1>3, AdvanceKeeps, StartKeeps, AddPageKeeps, WriteTemporaryKeeps, ValidateKeeps,
     RemoveOldKeeps, TruncateKeeps, BeginMeasuringKeeps, MeasureKeeps DEF Work

-----------------------------------------------------------------------------
(***************************************************************************)
(* The destination.                                                        *)
(***************************************************************************)
\* The run that wrote the destination is through, or is writing it.
LEMMA WriterIsAt ==
  ASSUME IInv, Written
  PROVE  dest.by \in Runs /\ stage[dest.by] \in {"finished", "fill", "failed", "dead"}
BY DEF IInv, DestOK, Written

\* A step of a run that the destination is not the work of leaves it true.
LEMMA DestStays ==
  ASSUME IInv, NEW r \in Runs, UNCHANGED <<dest, build>>,
         \A q \in Runs \ {r} : stage'[q] = stage[q],
         stage'[r] = stage[r] \/ stage[r] \notin {"finished", "fill", "failed", "dead"}
           \/ (stage[r] = "fill" /\ stage'[r] \in {"failed", "dead"})
  PROVE  DestOK'
BY WriterIsAt DEF IInv, DestOK, Written

\* A whole output is one of those the invariant of the destination allows.
LEMMA OutputIs ==
  ASSUME IInv, NEW r \in Runs, stage[r] \in Accepted, NEW whole \in BOOLEAN, dest' = Output(r, whole),
         build' = build,
         whole => stage'[r] = "finished", ~whole => build.strategy = "direct" /\ stage'[r] = "fill"
  PROVE  DestOK'
BY DEF IInv, RunOK, DestOK, Written, Output, Accepted

\* Whatever a run does, the destination stays whole.
LEMMA WorkKeepsDest == ASSUME IInv, NEW r \in Runs, Work(r) PROVE DestOK'
<1>0. build' = build /\ \A q \in Runs \ {r} : stage'[q] = stage[q]
  BY WorkKeeps DEF Kept, Elsewhere
<1>1. CASE RemoveOld(r)
  BY <1>1, RunsAssumption DEF RemoveOld, File, DestOK, Written
<1>2. CASE Rename(r)
  <2>1. stage[r] \in Accepted /\ dest' = Output(r, TRUE) /\ End(r, "finished")
    BY <1>2 DEF Rename, At, Accepted
  <2>2. stage'[r] = "finished"
    BY <2>1, EndIs DEF Ends
  <2>3. QED
    BY <1>0, <2>1, <2>2, OutputIs
<1>3. CASE Truncate(r)
  <2>1. /\ stage[r] \in Accepted /\ dest' = Output(r, FALSE) /\ To(r, "fill")
        /\ build.strategy = "direct"
    BY <1>3 DEF Truncate, At, Accepted
  <2>2. stage'[r] = "fill"
    BY <2>1, ToIs
  <2>3. QED
    BY <1>0, <2>1, <2>2, OutputIs
<1>4. CASE Fill(r)
  <2>1. stage[r] \in Accepted /\ dest' = Output(r, TRUE) /\ End(r, "finished")
    BY <1>4 DEF Fill, At, Accepted
  <2>2. stage'[r] = "finished"
    BY <2>1, EndIs DEF Ends
  <2>3. QED
    BY <1>0, <2>1, <2>2, OutputIs
<1>5. CASE Fail(r)
  <2>1. End(r, "failed") /\ UNCHANGED dest /\ stage[r] \notin {"finished", "failed", "dead"}
    BY <1>5 DEF Fail, Fallible, At
  <2>2. stage'[r] = "failed"
    BY <2>1, EndIs DEF Ends
  <2>3. QED
    BY <1>0, <2>1, <2>2, DestStays
<1>6. CASE Heed(r)
  BY <1>0, <1>6, DestStays DEF Heed, StopsAt, Checked
<1>7. CASE Open(r) \/ Start(r) \/ Advance(r) \/ AddPage(r) \/ WriteTemporary(r) \/ Validate(r)
             \/ BeginMeasuring(r) \/ Measure(r) \/ Report(r)
  <2>1. UNCHANGED dest /\ stage[r] \notin {"finished", "fill", "failed", "dead"}
    BY <1>7 DEF Open, Start, Advance, NextStage, AddPage, WriteTemporary, Validate, BeginMeasuring, Measure, Report, Goes, At
  <2>2. QED
    BY <1>0, <2>1, DestStays
<1>8. QED
  BY <1>1, <1>2, <1>3, <1>4, <1>5, <1>6, <1>7 DEF Work

-----------------------------------------------------------------------------
\* Every step keeps the invariant,
LEMMA Inductive == IInv /\ [Next]_vars => IInv'
<1>1. ASSUME IInv, NEW r \in Runs, Kept(r), DestOK' PROVE IInv'
  BY <1>1, OthersKeep DEF IInv, Kept
<1>2. ASSUME IInv, NEW r \in Runs, NEW c \in Requests, Begin(r, c) PROVE IInv'
  <2>1. Kept(r)
    BY <1>2, BeginKeeps
  <2>2. stage[r] = "idle" /\ UNCHANGED <<dest, build>> /\ \A q \in Runs \ {r} : stage'[q] = stage[q]
    BY <1>2, <2>1 DEF Begin, At, Kept, Elsewhere
  <2>3. DestOK'
    BY <1>2, <2>2, DestStays
  <2>4. QED
    BY <1>1, <1>2, <2>1, <2>3
<1>3. ASSUME IInv, NEW r \in Runs, Work(r) PROVE IInv'
  BY <1>1, <1>3, WorkKeeps, WorkKeepsDest
<1>4. ASSUME IInv, NEW r \in Runs, Cancel(r) PROVE IInv'
  <2>1. Kept(r) /\ stage' = stage /\ UNCHANGED <<dest, build>>
    BY <1>4, CancelKeeps DEF Cancel
  <2>2. DestOK'
    BY <1>4, <2>1, DestStays
  <2>3. QED
    BY <1>1, <1>4, <2>1, <2>2
<1>5. ASSUME IInv, NEW r \in Runs, Die(r) PROVE IInv'
  <2>1. Kept(r)
    BY <1>5, DieIs DEF Kept
  <2>2. /\ stage'[r] = "dead" /\ stage[r] \notin {"finished", "failed", "dead"}
        /\ UNCHANGED <<dest, build>> /\ \A q \in Runs \ {r} : stage'[q] = stage[q]
    BY <1>5, DieIs DEF Die, Ends, Forget, Elsewhere
  <2>3. DestOK'
    BY <1>5, <2>2, DestStays
  <2>4. QED
    BY <1>1, <1>5, <2>1, <2>3
<1>6. ASSUME IInv, UNCHANGED vars PROVE IInv'
  BY <1>6 DEF IInv, Functions, RunOK, DestOK, Written, Rendered, vars
<1>7. QED
  BY <1>2, <1>3, <1>4, <1>5, <1>6 DEF Next

\* so it always holds.
LEMMA Invariance == Spec => []IInv
<1>1. QED
  BY Initially, Inductive, PTL DEF Spec

\* What a run wrote to the destination is every page of its source, in order,
\* and readable where validation looked; only a direct write shows less.
THEOREM DestinationIsWholeCorrect == Spec => []DestinationIsWhole
<1>1. IInv => DestinationIsWhole
  BY DEF IInv, DestOK, DestinationIsWhole
<1>2. QED
  BY <1>1, Invariance, PTL

\* A run that ends without being killed leaves no temporary file, and one that
\* did not finish left nothing whole at the destination.
THEOREM RunsTidyUpCorrect == Spec => []RunsTidyUp
<1>1. IInv => RunsTidyUp
  BY DEF IInv, RunOK, DestOK, Written, RunsTidyUp, Ends, HasTemp, Accepted
<1>2. QED
  BY <1>1, Invariance, PTL

\* A cancelled run goes to no other stage than its end, from every stage that
\* begins with a look at its flag.
THEOREM CancelledRunsStopCorrect == Spec => CancelledRunsStop
<1>1. ASSUME IInv, NEW r \in Runs, Work(r) PROVE Stops(r)
  <2>1. SUFFICES ASSUME cancelled[r], stage[r] \in Checked PROVE stage'[r] = "cancelled"
    BY DEF Stops
  <2>2. \A s : ~Goes(r, s)
    BY <2>1 DEF Goes, At, StopsAt
  <2>3. Heed(r)
    BY <1>1, <2>1, <2>2 DEF Work, Open, Start, Advance, AddPage, WriteTemporary, Validate, RemoveOld, Rename,
       Truncate, Fill, BeginMeasuring, Measure, Report, Fail, Fallible, At, Checked
  <2>4. QED
    BY <1>1, <2>3, EndIs DEF Heed, Ends
<1>2. ASSUME IInv, NEW r \in Runs, NEW q \in Runs, Work(r) PROVE Stops(q)
  BY <1>1, <1>2, WorkKeeps DEF Kept, Elsewhere, Stops
<1>3. ASSUME IInv, NEW r \in Runs, NEW q \in Runs, NEW c \in Requests, Begin(r, c) PROVE Stops(q)
  BY <1>3, BeginKeeps DEF Begin, At, Checked, Kept, Elsewhere, Stops
<1>4. ASSUME IInv, NEW r \in Runs, NEW q \in Runs, Die(r) PROVE Stops(q)
  BY <1>4, DieIs DEF Elsewhere, Stops
<1>5. ASSUME NEW q \in Runs, UNCHANGED stage PROVE Stops(q)
  BY <1>5 DEF Stops
<1>6. IInv /\ [Next]_vars => EveryRunStops
  BY <1>2, <1>3, <1>4, <1>5 DEF Next, Cancel, vars, EveryRunStops
<1>7. QED
  BY <1>6, Invariance, PTL DEF Spec, CancelledRunsStop

-----------------------------------------------------------------------------
(***************************************************************************)
(* The algorithms.  Sums, fills and passes are recursive functions: that   *)
(* they exist, and what they compute, is shown with the least number for   *)
(* which it would be otherwise (LeastNatural, and Induction and Recursion  *)
(* for sets and functions of numbers).                                     *)
(***************************************************************************)

-----------------------------------------------------------------------------
(* Induction and recursion over numbers.                                   *)
\* A set of numbers that is not empty has a least one.
LEMMA LeastNatural ==
  ASSUME NEW T \in SUBSET Nat, T # {}
  PROVE  \E n \in T : \A m \in T : n <= m
<1> DEFINE R == OpToRel(<, Nat)
<1>1. IsWellFoundedOn(R, Nat) BY NatLessThanWellFounded
<1>2. \E x \in T : \A y \in T : ~ (<<y, x>> \in R)
  <2> HIDE DEF R
  <2> QED BY <1>1, WFMin
<1>3. \A x, y \in Nat : <<y, x>> \notin R => x <= y
  BY DEF OpToRel
<1> QED BY <1>2, <1>3

\* Induction: a set of numbers with 0 and every successor has all.
LEMMA Induction ==
  ASSUME NEW T \in SUBSET Nat, 0 \in T, \A n \in T : n + 1 \in T
  PROVE  T = Nat
<1> SUFFICES ASSUME Nat \ T # {} PROVE FALSE
  OBVIOUS
<1>1. PICK n \in Nat \ T : \A m \in Nat \ T : n <= m
  BY LeastNatural
<1>2. n # 0 /\ n - 1 \in Nat /\ n - 1 \notin Nat \ T
  BY <1>1
<1>3. (n - 1) + 1 \in T /\ (n - 1) + 1 = n
  BY <1>2
<1> QED BY <1>3

(***************************************************************************)
(* Recursive definitions.  D is the domain, m a measure that every step    *)
(* lessens, B where the recursion ends.                                    *)
(***************************************************************************)
Solves(f, E, B, b, next, step) ==
  \A x \in E : f[x] = IF x \in B THEN b[x] ELSE step[<<x, f[next[x]]>>]
Recursive(D, V, m, B, b, next, step) ==
  /\ m \in [D -> Nat] /\ B \subseteq D /\ b \in [B -> V]
  /\ next \in [D \ B -> D] /\ step \in [(D \ B) \X V -> V]
  /\ \A x \in D \ B : m[next[x]] < m[x]

\* Two solutions of one recursion agree where both are defined.
LEMMA OneSolution ==
  ASSUME NEW D, NEW V, NEW m, NEW B, NEW b, NEW next, NEW step, Recursive(D, V, m, B, b, next, step),
         NEW E \in SUBSET D, NEW F \in SUBSET D,
         \A x \in E \ B : next[x] \in E, \A x \in F \ B : next[x] \in F,
         NEW f, NEW g, Solves(f, E, B, b, next, step), Solves(g, F, B, b, next, step)
  PROVE  \A x \in E \cap F : f[x] = g[x]
<1> DEFINE failing == {x \in E \cap F : f[x] # g[x]}
           T == {m[x] : x \in failing}
<1> SUFFICES ASSUME failing # {} PROVE FALSE
  OBVIOUS
<1>1. T \in SUBSET Nat /\ T # {}
  BY DEF Recursive
<1>2. PICK n \in T : \A k \in T : n <= k
  <2> HIDE DEF T
  <2> QED BY <1>1, LeastNatural
<1>3. PICK x \in failing : n = m[x]
  BY <1>2
<1>4. x \notin B
  BY <1>3 DEF Solves
<1>5. next[x] \in E \cap F /\ m[next[x]] < m[x] /\ m[next[x]] \in Nat /\ m[x] \in Nat
  BY <1>4 DEF Recursive
<1>6. next[x] \notin failing
  BY <1>2, <1>3, <1>5
<1>7. f[next[x]] = g[next[x]]
  BY <1>5, <1>6
<1> QED BY <1>3, <1>4, <1>7 DEF Solves

\* A recursion whose steps lessen the measure has a solution.
LEMMA Recursion ==
  ASSUME NEW D, NEW V, NEW m, NEW B, NEW b, NEW next, NEW step, Recursive(D, V, m, B, b, next, step)
  PROVE  \E f \in [D -> V] : Solves(f, D, B, b, next, step)
<1> DEFINE Low(n) == {x \in D : m[x] < n}
           T == {n \in Nat : \E f \in [Low(n) -> V] : Solves(f, Low(n), B, b, next, step)}
<1>1. 0 \in T
  <2>1. Low(0) = {}
    BY DEF Recursive
  <2>2. [x \in {} |-> x] \in [Low(0) -> V] /\ Solves([x \in {} |-> x], Low(0), B, b, next, step)
    BY <2>1 DEF Solves
  <2> QED BY <2>2
<1>2. ASSUME NEW n \in T PROVE n + 1 \in T
  <2>1. PICK f \in [Low(n) -> V] : Solves(f, Low(n), B, b, next, step)
    OBVIOUS
  <2> DEFINE h == [x \in Low(n + 1) |-> IF x \in B THEN b[x] ELSE step[<<x, f[next[x]]>>]]
  <2>2. ASSUME NEW x \in Low(n + 1), x \notin B PROVE next[x] \in Low(n) /\ next[x] \in Low(n + 1) /\ f[next[x]] \in V
    BY <2>2, n \in Nat DEF Recursive
  <2>3. h \in [Low(n + 1) -> V]
    <3>1. ASSUME NEW x \in Low(n + 1) PROVE h[x] \in V
      <4>1. CASE x \in B
        BY <4>1 DEF Recursive
      <4>2. CASE x \notin B
        <5>1. <<x, f[next[x]]>> \in (D \ B) \X V
          BY <2>2, <4>2
        <5> QED BY <5>1, <4>2 DEF Recursive
      <4> QED BY <4>1, <4>2
    <3> QED BY <3>1
  <2>4. ASSUME NEW x \in Low(n) PROVE x \in Low(n + 1) /\ h[x] = f[x]
    <3>1. x \in Low(n + 1)
      BY n \in Nat DEF Recursive
    <3> QED BY <3>1, <2>1 DEF Solves
  <2>5. Solves(h, Low(n + 1), B, b, next, step)
    <3>1. ASSUME NEW x \in Low(n + 1), x \notin B PROVE h[next[x]] = f[next[x]]
      BY <2>2, <2>4, <3>1
    <3> QED BY <3>1 DEF Solves
  <2> HIDE DEF h, Low
  <2>6. \E g \in [Low(n + 1) -> V] : Solves(g, Low(n + 1), B, b, next, step)
    BY <2>3, <2>5
  <2>7. n + 1 \in Nat
    BY n \in Nat
  <2> QED BY <2>6, <2>7
<1>3. T = Nat
  <2> HIDE DEF T
  <2>1. T \in SUBSET Nat
    BY DEF T
  <2> QED BY <1>1, <1>2, <2>1, Induction
<1> DEFINE Part(n) == CHOOSE f \in [Low(n) -> V] : Solves(f, Low(n), B, b, next, step)
           F == [x \in D |-> Part(m[x] + 1)[x]]
<1>4. ASSUME NEW n \in Nat PROVE Part(n) \in [Low(n) -> V] /\ Solves(Part(n), Low(n), B, b, next, step)
  BY <1>3, <1>4
<1>5. ASSUME NEW n \in Nat, NEW x \in Low(n) \ B PROVE next[x] \in Low(n)
  BY DEF Recursive
<1>6. ASSUME NEW n \in Nat, NEW x \in Low(n) PROVE Part(n)[x] = F[x]
  <2>1. x \in D /\ m[x] \in Nat /\ m[x] + 1 \in Nat /\ x \in Low(m[x] + 1)
    BY DEF Recursive
  <2>2. Low(n) \in SUBSET D /\ Low(m[x] + 1) \in SUBSET D
    OBVIOUS
  <2> HIDE DEF Part, Low
  <2>3. Part(n)[x] = Part(m[x] + 1)[x]
    BY <1>4, <1>5, <2>1, <2>2, OneSolution
  <2> QED BY <2>1, <2>3
<1>7. F \in [D -> V]
  <2> SUFFICES ASSUME NEW x \in D PROVE F[x] \in V
    OBVIOUS
  <2>1. m[x] \in Nat /\ m[x] + 1 \in Nat /\ x \in Low(m[x] + 1)
    BY DEF Recursive
  <2> HIDE DEF Part
  <2> QED BY <1>4, <2>1
<1>8. Solves(F, D, B, b, next, step)
  <2> SUFFICES ASSUME NEW x \in D PROVE F[x] = IF x \in B THEN b[x] ELSE step[<<x, F[next[x]]>>]
    BY DEF Solves
  <2>1. m[x] \in Nat /\ m[x] + 1 \in Nat /\ x \in Low(m[x] + 1)
    BY DEF Recursive
  <2> HIDE DEF Part, Low
  <2>2. F[x] = Part(m[x] + 1)[x]
    OBVIOUS
  <2>3. F[x] = IF x \in B THEN b[x] ELSE step[<<x, Part(m[x] + 1)[next[x]]>>]
    BY <2>1, <2>2, <1>4 DEF Solves
  <2>4. CASE x \notin B
    BY <2>1, <2>3, <2>4, <1>5, <1>6
  <2> QED BY <2>3, <2>4
<1> QED BY <1>7, <1>8

-----------------------------------------------------------------------------
\* Subsets of a finite set, from the empty one by adding elements.
LEMMA FiniteInduction ==
  ASSUME NEW S, IsFiniteSet(S), NEW T \in SUBSET SUBSET S,
         {} \in T, \A s \in T, x \in S : x \notin s => s \cup {x} \in T
  PROVE  S \in T
<1> DEFINE N == {n \in Nat : \A s \in SUBSET S : Cardinality(s) = n => s \in T}
<1>1. ASSUME NEW s \in SUBSET S PROVE IsFiniteSet(s) /\ Cardinality(s) \in Nat
  BY FS_Subset, FS_CardinalityType
<1>2. 0 \in N
  BY <1>1, FS_EmptySet
<1>3. ASSUME NEW n \in N PROVE n + 1 \in N
  <2> SUFFICES ASSUME NEW s \in SUBSET S, Cardinality(s) = n + 1 PROVE s \in T
    OBVIOUS
  <2>1. s # {}
    <3>1. n \in Nat /\ n + 1 # 0
      OBVIOUS
    <3> QED BY <3>1, FS_EmptySet
  <2>2. PICK x \in s : TRUE
    BY <2>1
  <2>3. Cardinality(s \ {x}) = n
    BY <1>1, FS_RemoveElement
  <2>4. s \ {x} \in T /\ s = (s \ {x}) \cup {x}
    BY <2>3
  <2> QED BY <2>4
<1>4. N = Nat
  <2> HIDE DEF N
  <2>1. N \in SUBSET Nat
    BY DEF N
  <2> QED BY <1>2, <1>3, <2>1, Induction
<1> QED BY <1>1, <1>4

-----------------------------------------------------------------------------
\* Sums of a function over a finite set.
Sum(f, S) == Img!SumFunctionOnSet(f, S)
AnyOf(s) == CHOOSE x \in s : TRUE
Sums(f, iter, S) == \A s \in SUBSET S : iter[s] = IF s = {} THEN 0 ELSE f[AnyOf(s)] + iter[s \ {AnyOf(s)}]

\* The recursion of SumFunctionOnSet over the subsets has a solution.
LEMMA SumExists ==
  ASSUME NEW S, IsFiniteSet(S), NEW f, \A x \in S : f[x] \in Int
  PROVE  \E iter \in [SUBSET S -> Int] : Sums(f, iter, S)
<1> DEFINE D == SUBSET S
           m == [s \in D |-> Cardinality(s)]
           next == [s \in D \ {{}} |-> s \ {AnyOf(s)}]
           b == [s \in {{}} |-> 0]
           step == [p \in (D \ {{}}) \X Int |-> f[AnyOf(p[1])] + p[2]]
<1>1. ASSUME NEW s \in D PROVE IsFiniteSet(s) /\ Cardinality(s) \in Nat
  BY FS_Subset, FS_CardinalityType
<1>2. ASSUME NEW s \in D \ {{}} PROVE AnyOf(s) \in s
  BY DEF AnyOf
<1>3. ASSUME NEW s \in D \ {{}} PROVE Cardinality(s \ {AnyOf(s)}) < Cardinality(s)
  BY <1>1, <1>2, FS_RemoveElement
<1>4. Recursive(D, Int, m, {{}}, b, next, step)
  <2>1. step \in [(D \ {{}}) \X Int -> Int]
    <3> SUFFICES ASSUME NEW p \in (D \ {{}}) \X Int PROVE f[AnyOf(p[1])] + p[2] \in Int
      OBVIOUS
    <3> QED BY <1>2
  <2>2. m \in [D -> Nat] /\ {{}} \subseteq D /\ b \in [{{}} -> Int] /\ next \in [D \ {{}} -> D]
    BY <1>1, <1>2
  <2>3. \A s \in D \ {{}} : m[next[s]] < m[s]
    BY <1>3
  <2> QED BY <2>1, <2>2, <2>3 DEF Recursive
<1>5. PICK iter \in [D -> Int] : Solves(iter, D, {{}}, b, next, step)
  <2> HIDE DEF D, m, next, b, step
  <2> QED BY <1>4, Recursion
<1>6. ASSUME NEW s \in D, s # {} PROVE step[<<s, iter[next[s]]>>] = f[AnyOf(s)] + iter[s \ {AnyOf(s)}]
  BY <1>6
<1> QED BY <1>5, <1>6 DEF Solves, Sums

\* ... and only one.
LEMMA SumsAgree ==
  ASSUME NEW S, IsFiniteSet(S), NEW f, NEW g, NEW h, Sums(f, g, S), Sums(f, h, S)
  PROVE  g[S] = h[S]
<1> DEFINE N == {n \in Nat : \A s \in SUBSET S : Cardinality(s) = n => g[s] = h[s]}
<1>1. ASSUME NEW s \in SUBSET S PROVE IsFiniteSet(s) /\ Cardinality(s) \in Nat
  BY FS_Subset, FS_CardinalityType
<1>2. 0 \in N
  <2> SUFFICES ASSUME NEW s \in SUBSET S, Cardinality(s) = 0 PROVE g[s] = h[s]
    OBVIOUS
  <2>1. s = {}
    BY <1>1, FS_EmptySet
  <2> QED BY <2>1 DEF Sums
<1>3. ASSUME NEW n \in N PROVE n + 1 \in N
  <2> SUFFICES ASSUME NEW s \in SUBSET S, Cardinality(s) = n + 1 PROVE g[s] = h[s]
    OBVIOUS
  <2>1. s # {}
    <3>1. n \in Nat /\ n + 1 # 0
      OBVIOUS
    <3> QED BY <3>1, FS_EmptySet
  <2>2. AnyOf(s) \in s
    BY <2>1 DEF AnyOf
  <2>3. Cardinality(s \ {AnyOf(s)}) = n
    <3>1. IsFiniteSet(s)
      BY <1>1
    <3>2. Cardinality(s \ {AnyOf(s)}) = Cardinality(s) - 1
      BY <2>2, <3>1, FS_RemoveElement
    <3> QED BY <3>2
  <2>4. g[s \ {AnyOf(s)}] = h[s \ {AnyOf(s)}]
    BY <2>3
  <2> QED BY <2>1, <2>4 DEF Sums
<1>4. N = Nat
  <2> HIDE DEF N
  <2>1. N \in SUBSET Nat
    BY DEF N
  <2> QED BY <1>2, <1>3, <2>1, Induction
<1> QED BY <1>1, <1>4

\* So a sum is the value of that recursion,
LEMMA SumIs ==
  ASSUME NEW S, IsFiniteSet(S), NEW f, \A x \in S : f[x] \in Int
  PROVE  \E iter \in [SUBSET S -> Int] : Sums(f, iter, S) /\ Sum(f, S) = iter[S]
<1> DEFINE Body(g) == [s \in SUBSET S |-> IF s = {} THEN 0 ELSE f[AnyOf(s)] + g[s \ {AnyOf(s)}]]
           sum == CHOOSE g : g = Body(g)
<1>1. PICK iter \in [SUBSET S -> Int] : Sums(f, iter, S)
  BY SumExists
<1>2. iter = Body(iter)
  BY <1>1 DEF Sums
<1>3. sum = Body(sum)
  <2> HIDE DEF Body
  <2> QED BY <1>2
<1>4. Sum(f, S) = sum[S]
  BY Zenon DEF Sum, Img!SumFunctionOnSet, Img!FoldFunctionOnSet, Img!MapThenFoldSet, AnyOf
<1> HIDE DEF sum
<1>5. Sums(f, sum, S)
  BY <1>3 DEF Sums
<1>6. sum[S] = iter[S]
  BY <1>1, <1>5, SumsAgree
<1> QED BY <1>1, <1>4, <1>6

\* and the same recursion gives the sum of every part.
LEMMA SumParts ==
  ASSUME NEW S, IsFiniteSet(S), NEW f, \A x \in S : f[x] \in Int,
         NEW iter \in [SUBSET S -> Int], Sums(f, iter, S)
  PROVE  \A s \in SUBSET S : Sum(f, s) = iter[s]
<1> SUFFICES ASSUME NEW s \in SUBSET S PROVE Sum(f, s) = iter[s]
  OBVIOUS
<1>1. IsFiniteSet(s) /\ \A x \in s : f[x] \in Int
  BY FS_Subset
<1>2. PICK own \in [SUBSET s -> Int] : Sums(f, own, s) /\ Sum(f, s) = own[s]
  BY <1>1, SumIs
<1>3. Sums(f, iter, s)
  BY DEF Sums
<1> QED BY <1>1, <1>2, <1>3, SumsAgree

\* A sum of integers is an integer.
LEMMA SumType ==
  ASSUME NEW S, IsFiniteSet(S), NEW f, \A x \in S : f[x] \in Int
  PROVE  Sum(f, S) \in Int
<1>1. PICK iter \in [SUBSET S -> Int] : Sums(f, iter, S) /\ Sum(f, S) = iter[S]
  BY SumIs
<1> QED BY <1>1

\* The sum over no element is 0.
LEMMA SumEmpty == ASSUME NEW f PROVE Sum(f, {}) = 0
<1>1. IsFiniteSet({}) /\ \A x \in {} : f[x] \in Int
  BY FS_EmptySet
<1>2. PICK iter \in [SUBSET {} -> Int] : Sums(f, iter, {}) /\ Sum(f, {}) = iter[{}]
  BY <1>1, SumIs
<1> QED BY <1>2 DEF Sums

\* Any element can be taken out first.
LEMMA SumRemove ==
  ASSUME NEW S, IsFiniteSet(S), NEW f, \A x \in S : f[x] \in Int, NEW a \in S
  PROVE  Sum(f, S) = f[a] + Sum(f, S \ {a})
<1>1. PICK iter \in [SUBSET S -> Int] : Sums(f, iter, S)
  BY SumExists
<1> DEFINE N == {n \in Nat : \A s \in SUBSET S : Cardinality(s) = n => \A x \in s : iter[s] = f[x] + iter[s \ {x}]}
<1>2. ASSUME NEW s \in SUBSET S PROVE IsFiniteSet(s) /\ Cardinality(s) \in Nat
  BY FS_Subset, FS_CardinalityType
<1>3. 0 \in N
  <2> SUFFICES ASSUME NEW s \in SUBSET S, Cardinality(s) = 0 PROVE s = {}
    OBVIOUS
  <2> QED BY <1>2, FS_EmptySet
<1>4. ASSUME NEW n \in N PROVE n + 1 \in N
  <2> SUFFICES ASSUME NEW s \in SUBSET S, Cardinality(s) = n + 1, NEW x \in s
               PROVE  iter[s] = f[x] + iter[s \ {x}]
    OBVIOUS
  <2> DEFINE y == AnyOf(s)
  <2>1. y \in s /\ iter[s] = f[y] + iter[s \ {y}]
    BY <1>1 DEF AnyOf, Sums
  <2>2. CASE x = y
    BY <2>1, <2>2
  <2>3. CASE x # y
    <3> HIDE DEF y
    <3>1. x \in s \ {y} /\ y \in s \ {x} /\ s \ {x} \in SUBSET S /\ s \ {y} \in SUBSET S
      BY <2>1, <2>3
    <3>2. Cardinality(s \ {x}) = n /\ Cardinality(s \ {y}) = n
      BY <1>2, <2>1, FS_RemoveElement
    <3>3. iter[s \ {y}] = f[x] + iter[(s \ {y}) \ {x}]
      BY <3>1, <3>2
    <3>4. iter[s \ {x}] = f[y] + iter[(s \ {x}) \ {y}]
      BY <3>1, <3>2
    <3>5. (s \ {x}) \ {y} = (s \ {y}) \ {x} /\ (s \ {y}) \ {x} \in SUBSET S
      OBVIOUS
    <3>6. f[x] \in Int /\ f[y] \in Int /\ iter[(s \ {y}) \ {x}] \in Int
      BY <2>1, <3>5
    <3>7. iter[s] = f[y] + (f[x] + iter[(s \ {y}) \ {x}]) /\ iter[s \ {x}] = f[y] + iter[(s \ {y}) \ {x}]
      BY <2>1, <3>3, <3>4, <3>5
    <3> QED BY <3>6, <3>7
  <2> QED BY <2>2, <2>3
<1>5. N = Nat
  <2> HIDE DEF N
  <2>1. N \in SUBSET Nat
    BY DEF N
  <2> QED BY <1>3, <1>4, <2>1, Induction
<1>6. iter[S] = f[a] + iter[S \ {a}]
  BY <1>2, <1>5
<1>7. Sum(f, S) = iter[S] /\ Sum(f, S \ {a}) = iter[S \ {a}]
  BY <1>1, SumParts
<1> QED BY <1>6, <1>7

\* One more element adds its value.
LEMMA SumInsert ==
  ASSUME NEW S, IsFiniteSet(S), NEW f, \A x \in S : f[x] \in Int, NEW a, a \notin S, f[a] \in Int
  PROVE  Sum(f, S \cup {a}) = f[a] + Sum(f, S)
<1>1. IsFiniteSet(S \cup {a}) /\ (\A x \in S \cup {a} : f[x] \in Int) /\ a \in S \cup {a}
  BY FS_AddElement
<1>2. (S \cup {a}) \ {a} = S
  OBVIOUS
<1> QED BY <1>1, <1>2, SumRemove

\* A sum depends on the values it adds and on nothing else.
LEMMA SumSame ==
  ASSUME NEW S, IsFiniteSet(S), NEW f, NEW g, \A x \in S : f[x] \in Int /\ f[x] = g[x]
  PROVE  Sum(f, S) = Sum(g, S)
<1>1. PICK iter \in [SUBSET S -> Int] : Sums(f, iter, S)
  BY SumExists
<1>2. Sums(g, iter, S)
  BY <1>1 DEF Sums, AnyOf
<1>3. Sum(f, S) = iter[S]
  <2>1. \A x \in S : f[x] \in Int
    OBVIOUS
  <2> QED BY <1>1, <2>1, SumParts
<1>4. Sum(g, S) = iter[S]
  <2>1. \A x \in S : g[x] \in Int
    OBVIOUS
  <2> QED BY <1>1, <1>2, <2>1, SumParts
<1> QED BY <1>3, <1>4

\* Sums of disjoint sets add up.
LEMMA SumUnion ==
  ASSUME NEW S, IsFiniteSet(S), NEW T, IsFiniteSet(T), S \cap T = {},
         NEW f, \A x \in S \cup T : f[x] \in Int
  PROVE  Sum(f, S \cup T) = Sum(f, S) + Sum(f, T)
<1> DEFINE Good == {t \in SUBSET T : Sum(f, S \cup t) = Sum(f, S) + Sum(f, t)}
<1>1. Sum(f, S) \in Int
  BY SumType
<1>2. {} \in Good
  <2>1. S \cup {} = S
    OBVIOUS
  <2> QED BY <1>1, <2>1, SumEmpty
<1>3. ASSUME NEW t \in Good, NEW x \in T, x \notin t PROVE t \cup {x} \in Good
  <2>1. IsFiniteSet(t) /\ IsFiniteSet(S \cup t)
    BY FS_Subset, FS_Union
  <2>2. S \cup (t \cup {x}) = (S \cup t) \cup {x} /\ x \notin S \cup t /\ f[x] \in Int
    BY <1>3
  <2>3. Sum(f, (S \cup t) \cup {x}) = f[x] + Sum(f, S \cup t)
    BY <2>1, <2>2, SumInsert
  <2>4. Sum(f, t \cup {x}) = f[x] + Sum(f, t)
    BY <1>3, <2>1, <2>2, SumInsert
  <2>5. Sum(f, t) \in Int
    BY <2>1, SumType
  <2>6. Sum(f, S \cup t) = Sum(f, S) + Sum(f, t)
    OBVIOUS
  <2>7. Sum(f, S \cup (t \cup {x})) = Sum(f, S) + Sum(f, t \cup {x})
    <3>1. Sum(f, S \cup (t \cup {x})) = f[x] + (Sum(f, S) + Sum(f, t))
      BY <2>2, <2>3, <2>6
    <3> QED BY <1>1, <2>2, <2>4, <2>5, <3>1
  <2> QED BY <2>7
<1>4. T \in Good
  <2> HIDE DEF Good
  <2>1. Good \in SUBSET SUBSET T
    BY DEF Good
  <2> QED BY <1>2, <1>3, <2>1, FiniteInduction
<1> QED BY <1>4

\* A sum of equal values is a product.
LEMMA SumConstant ==
  ASSUME NEW S, IsFiniteSet(S), NEW f, NEW c \in Int, \A x \in S : f[x] = c
  PROVE  Sum(f, S) = c * Cardinality(S)
<1> DEFINE Good == {s \in SUBSET S : Sum(f, s) = c * Cardinality(s)}
<1>1. {} \in Good
  BY SumEmpty, FS_EmptySet
<1>2. ASSUME NEW s \in Good, NEW x \in S, x \notin s PROVE s \cup {x} \in Good
  <2>1. IsFiniteSet(s) /\ Cardinality(s) \in Nat
    BY FS_Subset, FS_CardinalityType
  <2>2. Sum(f, s \cup {x}) = c + Sum(f, s)
    BY <1>2, <2>1, SumInsert
  <2>3. Cardinality(s \cup {x}) = Cardinality(s) + 1
    BY <1>2, <2>1, FS_AddElement
  <2> QED BY <2>1, <2>2, <2>3
<1>3. S \in Good
  <2> HIDE DEF Good
  <2>1. Good \in SUBSET SUBSET S
    BY DEF Good
  <2> QED BY <1>1, <1>2, <2>1, FiniteInduction
<1> QED BY <1>3

-----------------------------------------------------------------------------
(* What plans, receipts and results are bound to (RemotePlan), for whatever *)
(* their fields are.                                                        *)
DigestOf(f) ==
  <<"mpdf-api-plan 0.1", f.origin, "ocr", f.provider, f.model, f.source,
    f.bytes, f.pages, f.retention, f.cost, f.currency>>

MadeOf(p, f) ==
  /\ p.schema = "mpdf-api-plan 0.1" /\ p.origin = f.origin /\ p.operation = "ocr"
  /\ p.provider = f.provider /\ p.model = f.model /\ p.source = f.source
  /\ p.bytes = f.bytes /\ p.pages = f.pages /\ p.retention = f.retention
  /\ p.cost = f.cost /\ p.currency = f.currency /\ p.digest = DigestOf(f)

\* What ApiPlan::new makes of its arguments.
LEMMA NewPlanIs ==
  ASSUME NEW f
  PROVE  /\ MadeOf(Plan!NewPlan(f), f)
         /\ Plan!NewPlan(f).digest = Plan!Digest(Plan!NewPlan(f))
<1> DEFINE p == Plan!NewPlan(f)
<1> DEFINE plan == [schema |-> "mpdf-api-plan 0.1", origin |-> f.origin, operation |-> "ocr",
                    provider |-> f.provider, model |-> f.model, source |-> f.source,
                    bytes |-> f.bytes, pages |-> f.pages, retention |-> f.retention,
                    cost |-> f.cost, currency |-> f.currency, digest |-> <<>>]
<1>1. p = [plan EXCEPT !.digest = Plan!Digest(plan)]
  BY DEF Plan!NewPlan
<1>2. Plan!Digest(plan) = DigestOf(f)
  BY DEF Plan!Digest, DigestOf
<1>3. p = [plan EXCEPT !.digest = DigestOf(f)]
  BY <1>1, <1>2
<1>4. MadeOf(p, f)
  BY <1>3 DEF MadeOf
<1>5. Plan!Digest(p) = DigestOf(f)
  BY <1>4 DEF MadeOf, Plan!Digest, DigestOf
<1>6. p.digest = DigestOf(f)
  BY <1>4 DEF MadeOf
<1> QED
  BY <1>4, <1>5, <1>6

\* The digest of a plan tells it from every other.
LEMMA DigestDecides ==
  ASSUME NEW f, NEW g, Plan!NewPlan(f).digest = Plan!NewPlan(g).digest
  PROVE  Plan!NewPlan(f) = Plan!NewPlan(g)
<1>1. DigestOf(f) = DigestOf(g)
  BY NewPlanIs DEF MadeOf
<1>2. /\ f.origin = g.origin /\ f.provider = g.provider /\ f.model = g.model
      /\ f.source = g.source /\ f.bytes = g.bytes /\ f.pages = g.pages
      /\ f.retention = g.retention /\ f.cost = g.cost /\ f.currency = g.currency
  BY <1>1 DEF DigestOf
<1> QED
  BY <1>2 DEF Plan!NewPlan

\* A consent that one plan's digest was copied into is valid for no other plan,
\* whatever field was changed since (validate_consent).
THEOREM ConsentIsForOnePlan ==
  ASSUME NEW f, NEW g
  PROVE  Plan!ConsentCoversPlan(Plan!NewPlan(f), Plan!NewPlan(g))
BY DigestDecides DEF Plan!ConsentCoversPlan, Plan!ValidConsent

\* Requests of two plans, or of two actions on one, never share an idempotency
\* key, so that a retry is not taken for another request (idempotency_key).
THEOREM KeysTellRequestsApart ==
  ASSUME NEW f, NEW g
  PROVE  Plan!KeysAreDistinct(Plan!NewPlan(f), Plan!NewPlan(g))
BY DigestDecides DEF Plan!KeysAreDistinct, Plan!IdempotencyKey

\* A result that is installed has every page of the document once, whatever
\* order the service sent them in (install_remote_ocr_result).
THEOREM InstalledResultsAreWhole ==
  ASSUME NEW pkg, NEW result, pkg.pages \in Nat, result.pages \in Seq(Nat)
  PROVE  Plan!InstalledResultIsWhole(pkg, result)
<1> DEFINE n == pkg.pages
           S == 1 .. n
           T == 0 .. n - 1
<1> SUFFICES ASSUME Plan!Installs(pkg, result)
             PROVE  Plan!PageIndexes(result) = T
  BY DEF Plan!InstalledResultIsWhole
<1>1. result.pages \in [S -> Nat] /\ DOMAIN result.pages = S /\ n > 0
  BY DEF Plan!Installs
<1>2. ASSUME NEW k \in S PROVE result.pages[k] \in T
  <2>1. result.pages[k] \in Nat /\ result.pages[k] \in Plan!PageIndexes(result)
    BY <1>1 DEF Plan!PageIndexes
  <2>2. result.pages[k] < n
    BY <2>1 DEF Plan!Installs
  <2> QED
    BY <2>1, <2>2
<1>3. result.pages \in Injection(S, T)
  <2>1. result.pages \in [S -> T]
    BY <1>1, <1>2
  <2>2. \A j, k \in S : result.pages[j] = result.pages[k] => j = k
    BY <1>1 DEF Plan!Installs, Plan!Distinct
  <2> QED
    BY <2>1, <2>2 DEF Injection, IsInjective
<1>4. IsFiniteSet(T) /\ Cardinality(S) = n /\ Cardinality(T) = n
  <2>1. IsFiniteSet(0 .. n - 1) /\ Cardinality(0 .. n - 1) = IF 0 > n - 1 THEN 0 ELSE (n - 1) - 0 + 1
    BY FS_Interval, 0 \in Int, n - 1 \in Int
  <2>2. Cardinality(1 .. n) = IF 1 > n THEN 0 ELSE n - 1 + 1
    BY FS_Interval, 1 \in Int, n \in Int
  <2> QED
    BY <1>1, <2>1, <2>2
<1>5. result.pages \in Surjection(S, T)
  BY <1>3, <1>4, FS_Injection
<1> QED
  BY <1>1, <1>2, <1>5 DEF Surjection, Plan!PageIndexes

\* From a receipt of any plan for a document with pages and bytes `api import`
\* gets that very plan back, and the receipt matches no other
\* (ApiTaskReceipt::from_plan, matches_plan).
THEOREM ReceiptsRestorePlans ==
  ASSUME NEW f, NEW g, f.bytes \in Nat \ {0}, f.pages \in Nat \ {0}
  PROVE  Plan!ReceiptRestoresPlan(Plan!NewPlan(f), Plan!NewPlan(g))
<1> DEFINE p == Plan!NewPlan(f)
           q == Plan!NewPlan(g)
           r == Plan!FromPlan(p, "task")
<1>1. /\ r.origin = p.origin /\ r.operation = p.operation /\ r.source = p.source
      /\ r.bytes = p.bytes /\ r.pages = p.pages /\ r.plan = p.digest /\ r.provider = p.provider
      /\ r.model = p.model /\ r.cost = p.cost /\ r.currency = p.currency
      /\ r.retention = p.retention
      /\ r.schema = "mpdf-api-task-receipt 0.1" /\ r.protocol = "mpdf-api 0.1"
  BY DEF Plan!FromPlan
<1>2. r.digest = Plan!ReceiptDigest(r)
  BY DEF Plan!FromPlan, Plan!ReceiptDigest
<1>3. /\ p.origin = f.origin /\ p.provider = f.provider /\ p.model = f.model /\ p.source = f.source
      /\ p.bytes = f.bytes /\ p.pages = f.pages /\ p.retention = f.retention
      /\ p.cost = f.cost /\ p.currency = f.currency /\ p.operation = "ocr"
      /\ p.bytes > 0 /\ p.pages > 0 /\ p.schema = "mpdf-api-plan 0.1"
      /\ p.digest = Plan!Digest(p)
  <2>1. MadeOf(p, f) /\ p.digest = Plan!Digest(p)
    BY NewPlanIs
  <2>2. f.bytes > 0 /\ f.pages > 0
    OBVIOUS
  <2> HIDE DEF p
  <2> QED
    BY <2>1, <2>2 DEF MadeOf
<1>4. Plan!PlanOf(r) = p
  BY <1>1, <1>3 DEF Plan!PlanOf, Plan!NewPlan
<1>5. Plan!ValidReceipt(r)
  BY <1>1, <1>2, <1>3 DEF Plan!ValidReceipt
<1>6. Plan!Importable(r)
  BY <1>1, <1>4, <1>5 DEF Plan!Importable
<1>7. p = q => Plan!MatchesPlan(r, q)
  BY <1>1, <1>3, <1>5 DEF Plan!MatchesPlan, Plan!ValidPlan
<1>8. Plan!MatchesPlan(r, q) => p = q
  BY <1>1, DigestDecides DEF Plan!MatchesPlan
<1> QED
  BY <1>4, <1>6, <1>7, <1>8 DEF Plan!ReceiptRestoresPlan

-----------------------------------------------------------------------------
(***************************************************************************)
(* Samples of pages.                                                       *)
(***************************************************************************)
\* Division, by what characterizes its quotient.
LEMMA Product ==
  ASSUME NEW m \in Nat, NEW a \in Int, NEW b \in Int, a <= b
  PROVE  m * a <= m * b
<1>1. m * (b - a) >= 0
  OBVIOUS
<1> QED
  BY <1>1

\* What an integer quotient is bounded by,
LEMMA Quotient ==
  ASSUME NEW x \in Int, NEW m \in Nat \ {0}
  PROVE  /\ x \div m \in Int
         /\ m * (x \div m) <= x /\ x < m * (x \div m) + m
OBVIOUS

\* and that the bounds determine it.
LEMMA QuotientIs ==
  ASSUME NEW x \in Int, NEW m \in Nat \ {0}, NEW q \in Int, m * q <= x, x < m * q + m
  PROVE  x \div m = q
<1> DEFINE a == x \div m
<1>1. a \in Int /\ m * a <= x /\ x < m * a + m
  BY Quotient
<1> HIDE DEF a
<1>2. CASE a < q
  <2>1. m * (a + 1) <= m * q
    BY <1>1, <1>2, Product
  <2>2. m * (a + 1) = m * a + m
    BY <1>1
  <2> QED
    BY <1>1, <2>1, <2>2
<1>3. CASE q < a
  <2>1. m * (q + 1) <= m * a
    BY <1>1, <1>3, Product
  <2>2. m * (q + 1) = m * q + m
    OBVIOUS
  <2> QED
    BY <1>1, <2>1, <2>2
<1> QED
  BY <1>1, <1>2, <1>3 DEF a

\* What the quotient gains when a number is added is the number's own
\* quotient, or one more.
LEMMA QuotientGrows ==
  ASSUME NEW x \in Int, NEW y \in Int, NEW m \in Nat \ {0}
  PROVE  (x + y) \div m - x \div m \in {y \div m, y \div m + 1}
<1> DEFINE a == x \div m
           b == y \div m
<1>1. a \in Int /\ m * a <= x /\ x < m * a + m
  BY Quotient
<1>2. b \in Int /\ m * b <= y /\ y < m * b + m
  BY Quotient
<1> HIDE DEF a, b
<1>3. m * (a + b) = m * a + m * b /\ m * (a + b + 1) = m * a + m * b + m
  BY <1>1, <1>2
<1>4. CASE x + y < m * (a + b) + m
  <2>1. (x + y) \div m = a + b
    BY <1>1, <1>2, <1>3, <1>4, QuotientIs
  <2> QED
    BY <1>1, <1>2, <2>1 DEF a, b
<1>5. CASE ~(x + y < m * (a + b) + m)
  <2>1. (x + y) \div m = a + b + 1
    BY <1>1, <1>2, <1>3, <1>5, QuotientIs
  <2> QED
    BY <1>1, <1>2, <2>1 DEF a, b
<1> QED
  BY <1>4, <1>5

-----------------------------------------------------------------------------
\* As many values as arguments, when they rise.
Rising(f, n) ==
  /\ f \in [0 .. n - 1 -> Nat]
  /\ \A i, j \in 0 .. n - 1 : i < j => f[i] < f[j]

\* The first i values of a rising function are i values.
LEMMA RisingCount ==
  ASSUME NEW n \in Nat, NEW f, Rising(f, n), NEW i \in 0 .. n
  PROVE  Cardinality({f[j] : j \in 0 .. i - 1}) = i
<1> DEFINE S == 0 .. i - 1
           T == {f[j] : j \in S}
           g == [j \in S |-> f[j]]
<1>1. IsFiniteSet(S) /\ Cardinality(S) = i
  BY FS_Interval
<1>2. g \in Injection(S, T)
  BY DEF Rising, Injection, IsInjective
<1>3. g \in Surjection(S, T)
  BY DEF Surjection
<1>4. ExistsBijection(S, T)
  BY <1>2, <1>3 DEF ExistsBijection, Bijection
<1> QED
  BY <1>1, <1>4, FS_Bijection

\* The instance's cardinality is that of the library.
LEMMA SameCardinality == ASSUME NEW S PROVE Math!Cardinality(S) = Cardinality(S)
BY DEF Math!Cardinality, Cardinality

\* The values of a rising function, sorted, are the function.
LEMMA SortedRising ==
  ASSUME NEW n \in Nat, NEW f, Rising(f, n)
  PROVE  Math!Sorted({f[i] : i \in 0 .. n - 1}) = [k \in 1 .. n |-> f[k - 1]]
<1> DEFINE S == {f[i] : i \in 0 .. n - 1}
           rank(p) == Math!Cardinality({q \in S : q < p})
<1>1. Math!Cardinality(S) = n
  BY RisingCount, SameCardinality
<1>2. ASSUME NEW i \in 0 .. n - 1 PROVE rank(f[i]) = i
  <2>1. {q \in S : q < f[i]} = {f[j] : j \in 0 .. i - 1}
    BY DEF Rising
  <2> QED
    BY <2>1, RisingCount, SameCardinality
<1>3. ASSUME NEW k \in 1 .. n PROVE (CHOOSE p \in S : rank(p) = k - 1) = f[k - 1]
  <2>1. f[k - 1] \in S /\ rank(f[k - 1]) = k - 1
    BY <1>2
  <2>2. ASSUME NEW p \in S, rank(p) = k - 1 PROVE p = f[k - 1]
    <3>1. PICK i \in 0 .. n - 1 : p = f[i]
      OBVIOUS
    <3>2. rank(p) = i
      BY <3>1, <1>2
    <3> QED
      BY <2>2, <3>1, <3>2
  <2> HIDE DEF S, rank
  <2> QED
    BY <2>1, <2>2
<1> HIDE DEF S
<1>4. Math!Sorted(S) = [k \in 1 .. Math!Cardinality(S) |-> CHOOSE p \in S : rank(p) = k - 1]
  BY DEF Math!Sorted
<1> HIDE DEF rank
<1> QED
  BY <1>1, <1>3, <1>4 DEF S

-----------------------------------------------------------------------------
\* The page that select_sample_pages takes for index i of m + 1, where the last
\* page is "last".
Spread(m, last, i) == (i * last + m \div 2) \div m

\* Numbers spread over 0..last by rounding have gaps of two neighbouring sizes.
LEMMA SpreadIsEven ==
  ASSUME NEW m \in Nat \ {0}, NEW last \in Nat, m < last
  PROVE  /\ \A i \in 0 .. m : Spread(m, last, i) \in Nat
         /\ Spread(m, last, 0) = 0 /\ Spread(m, last, m) = last
         /\ \A i \in 0 .. m - 1 :
              Spread(m, last, i + 1) - Spread(m, last, i) \in {last \div m, last \div m + 1}
         /\ last \div m >= 1
<1> DEFINE half == m \div 2
<1>1. half \in Nat /\ half < m
  OBVIOUS
<1> HIDE DEF half
<1>2. ASSUME NEW i \in 0 .. m PROVE Spread(m, last, i) \in Nat
  <2>1. i * last + half \in Nat
    BY <1>1
  <2> DEFINE x == i * last + half
  <2> HIDE DEF x
  <2>2. x \div m \in Nat
    BY <2>1 DEF x
  <2> QED
    BY <2>2 DEF Spread, half, x
<1>3. Spread(m, last, 0) = 0
  <2>1. 0 * last + half = half
    BY <1>1
  <2>2. half \div m = 0
    BY <1>1, QuotientIs
  <2> QED
    BY <2>1, <2>2 DEF Spread, half
<1>4. Spread(m, last, m) = last
  <2>1. (m * last + half) \div m = last
    <3>1. m * last + half \in Int /\ m * last <= m * last + half /\ m * last + half < m * last + m
      BY <1>1
    <3> QED
      BY <3>1, QuotientIs
  <2> QED
    BY <2>1 DEF Spread, half
<1>5. ASSUME NEW i \in 0 .. m - 1
      PROVE  Spread(m, last, i + 1) - Spread(m, last, i) \in {last \div m, last \div m + 1}
  <2> DEFINE x == i * last + half
  <2>1. x \in Int /\ (i + 1) * last + half = x + last
    BY <1>1
  <2> HIDE DEF x
  <2>2. (x + last) \div m - x \div m \in {last \div m, last \div m + 1}
    BY <2>1, QuotientGrows
  <2> QED
    BY <2>1, <2>2 DEF Spread, half, x
<1>6. last \div m >= 1
  <2> DEFINE a == last \div m
  <2>1. a \in Int /\ last < m * a + m
    BY Quotient
  <2> HIDE DEF a
  <2>2. CASE a <= 0
    <3>1. m * a <= m * 0
      BY <2>1, <2>2, Product
    <3> QED
      BY <3>1, <2>1
  <2> QED
    BY <2>1, <2>2 DEF a
<1> QED
  BY <1>2, <1>3, <1>4, <1>5, <1>6

\* A function that grows at every step rises.
LEMMA GrowingRises ==
  ASSUME NEW m \in Nat \ {0}, NEW last \in Nat, m < last
  PROVE  \A i, j \in 0 .. m : i < j => Spread(m, last, i) < Spread(m, last, j)
<1> DEFINE half == m \div 2
<1>1. half \in Nat
  OBVIOUS
<1> HIDE DEF half
<1> SUFFICES ASSUME NEW i \in 0 .. m, NEW j \in 0 .. m, i < j
             PROVE  Spread(m, last, i) < Spread(m, last, j)
  OBVIOUS
<1> DEFINE x == i * last + half
           y == j * last + half
<1>2. x \in Int /\ y \in Int /\ x + m <= y
  <2>1. last * (i + 1) <= last * j
    BY Product
  <2>2. last * (i + 1) = i * last + last /\ last * j = j * last
    OBVIOUS
  <2> QED
    BY <1>1, <2>1, <2>2
<1> HIDE DEF x, y
<1>3. m * (x \div m) <= x /\ y < m * (y \div m) + m /\ x \div m \in Int /\ y \div m \in Int
  BY <1>2, Quotient
<1>4. x \div m < y \div m
  <2> DEFINE a == x \div m
             b == y \div m
  <2> HIDE DEF a, b
  <2>1. CASE b <= a
    <3>1. m * b <= m * a
      BY <1>3, <2>1, Product DEF a, b
    <3> QED
      BY <1>2, <1>3, <3>1 DEF a, b
  <2> QED
    BY <1>3, <2>1 DEF a, b
<1> QED
  BY <1>4 DEF Spread, x, y, half

-----------------------------------------------------------------------------
\* The sample of a document that has more pages than are asked for.
LEMMA SampleIs ==
  ASSUME NEW pageCount \in Nat, NEW n \in Nat, 1 < n, n < pageCount
  PROVE  Math!SamplePages(pageCount, n) = [k \in 1 .. n |-> Spread(n - 1, pageCount - 1, k - 1)]
<1> DEFINE m == n - 1
           last == pageCount - 1
           f == [i \in 0 .. n - 1 |-> Spread(m, last, i)]
<1>1. m \in Nat \ {0} /\ last \in Nat /\ m < last
  OBVIOUS
<1>2. Math!Larger(1, Math!Smaller(n, pageCount)) = n
  BY DEF Math!Larger, Math!Smaller
<1>3. Math!SamplePages(pageCount, n) = Math!Sorted({Spread(m, last, i) : i \in 0 .. n - 1})
  <2> DEFINE T == {(i * last + (n - 1) \div 2) \div (n - 1) : i \in 0 .. n - 1}
  <2>1. T = {Spread(m, last, i) : i \in 0 .. n - 1}
    BY DEF Spread
  <2> HIDE DEF T
  <2>2. Math!SamplePages(pageCount, n) = Math!Sorted(T)
    BY <1>2, ~(n >= pageCount), n # 1 DEF Math!SamplePages, T
  <2> QED
    BY <2>1, <2>2
<1>4. Rising(f, n)
  <2> HIDE DEF m, last
  <2> DEFINE h == n - 1
  <2>1. \A i \in 0 .. m : Spread(m, last, i) \in Nat
    BY <1>1, SpreadIsEven
  <2>2. \A i, j \in 0 .. m : i < j => Spread(m, last, i) < Spread(m, last, j)
    BY <1>1, GrowingRises
  <2>3. m = n - 1
    BY DEF m
  <2> QED
    BY <2>1, <2>2, <2>3 DEF Rising
<1>5. {Spread(m, last, i) : i \in 0 .. n - 1} = {f[i] : i \in 0 .. n - 1}
  OBVIOUS
<1>6. Math!Sorted({f[i] : i \in 0 .. n - 1}) = [k \in 1 .. n |-> f[k - 1]]
  <2> HIDE DEF f
  <2> QED
    BY <1>4, SortedRising
<1>7. [k \in 1 .. n |-> f[k - 1]] = [k \in 1 .. n |-> Spread(m, last, k - 1)]
  BY n - 1 \in Nat
<1> QED
  BY <1>3, <1>5, <1>6, <1>7

\* For every document and every request that is not refused, the sample has as
\* many pages as were asked for or as there are, begins with the first page, ends
\* with the last, and its gaps differ by at most one page (select_sample_pages).
THEOREM SamplesAreEven ==
  ASSUME NEW pageCount \in Nat \ {0}, NEW requested \in 1 .. Math!MaxSampleCount
  PROVE  Math!SampleIsEven(pageCount, requested)
<1> DEFINE n == Math!ResolveSampleCount(requested, pageCount)
           sample == Math!SamplePages(pageCount, n)
<1>1. n = Math!Smaller(requested, pageCount) /\ n \in Nat \ {0} /\ n <= pageCount
  BY DEF Math!ResolveSampleCount, Math!Smaller, Math!Larger, Math!MaxSampleCount
<1> SUFFICES /\ Len(sample) = n
             /\ sample[1] = 0 /\ (Len(sample) > 1 => sample[Len(sample)] = pageCount - 1)
             /\ \A g, h \in {sample[k + 1] - sample[k] : k \in 1 .. Len(sample) - 1} : g - h <= 1
  BY <1>1 DEF Math!SampleIsEven, Math!Last
<1> HIDE DEF n
<1>2. CASE n = pageCount
  <2>1. sample = [k \in 1 .. pageCount |-> k - 1]
    BY <1>1, <1>2 DEF Math!SamplePages, Math!Larger, Math!Smaller
  <2> HIDE DEF sample
  <2>2. Len(sample) = pageCount
    BY <2>1
  <2>3. \A k \in 1 .. pageCount - 1 : sample[k + 1] - sample[k] = 1
    BY <2>1
  <2> QED
    BY <1>2, <2>1, <2>2, <2>3
<1>3. CASE n < pageCount /\ n = 1
  <2>1. sample = <<0>>
    BY <1>1, <1>3 DEF Math!SamplePages, Math!Larger, Math!Smaller
  <2> HIDE DEF sample
  <2> QED
    BY <1>3, <2>1
<1>4. CASE n < pageCount /\ n > 1
  <2> DEFINE m == n - 1
             last == pageCount - 1
  <2>1. m \in Nat \ {0} /\ last \in Nat /\ m < last
    BY <1>1, <1>4
  <2>2. sample = [k \in 1 .. n |-> Spread(m, last, k - 1)]
    BY <1>1, <1>4, SampleIs
  <2> HIDE DEF sample
  <2>3. Len(sample) = n /\ sample[1] = Spread(m, last, 0) /\ sample[n] = Spread(m, last, m)
    BY <1>1, <2>2
  <2>4. ASSUME NEW k \in 1 .. n - 1
        PROVE  sample[k + 1] = Spread(m, last, (k - 1) + 1) /\ sample[k] = Spread(m, last, k - 1)
    BY <1>1, <2>2
  <2> HIDE DEF m, last
  <2>5. last \div m \in Int
    BY <2>1, Quotient
  <2>6. /\ Spread(m, last, 0) = 0 /\ Spread(m, last, m) = last
        /\ \A i \in 0 .. m - 1 :
             Spread(m, last, i + 1) - Spread(m, last, i) \in {last \div m, last \div m + 1}
    BY <2>1, SpreadIsEven
  <2>7. ASSUME NEW k \in 1 .. n - 1
        PROVE  sample[k + 1] - sample[k] \in {last \div m, last \div m + 1}
    <3>1. k - 1 \in 0 .. m - 1
      BY <1>1 DEF m
    <3> QED
      BY <3>1, <2>4, <2>6
  <2>8. \A g, h \in {last \div m, last \div m + 1} : g - h <= 1
    BY <2>5
  <2>9. {sample[k + 1] - sample[k] : k \in 1 .. n - 1} \subseteq {last \div m, last \div m + 1}
    BY <2>7
  <2>10. \A g, h \in {sample[k + 1] - sample[k] : k \in 1 .. n - 1} : g - h <= 1
    BY <2>8, <2>9
  <2>11. sample[1] = 0 /\ sample[n] = pageCount - 1
    BY <2>3, <2>6 DEF last
  <2> QED
    BY <2>3, <2>10, <2>11
<1> QED
  BY <1>1, <1>2, <1>3, <1>4

-----------------------------------------------------------------------------
(***************************************************************************)
(* Sizes of pages.                                                         *)
(***************************************************************************)
LEMMA PointsRound ==
  ASSUME NEW tenths \in Nat, NEW dpi \in Nat
  PROVE  LET x == Math!PointsToPixels(tenths, dpi)
         IN  /\ x \in Nat \ {0}
             /\ 2 * tenths * dpi - 720 < 1440 * x
             /\ x = 1 \/ 1440 * x <= 2 * tenths * dpi + 720
<1> DEFINE y == 2 * tenths * dpi
<1>1. y \in Nat
  OBVIOUS
<1>2. Math!PointsToPixels(tenths, dpi) = Math!Larger(1, (y + 720) \div 1440)
  BY DEF Math!PointsToPixels
<1> HIDE DEF y
<1> QED
  BY <1>1, <1>2 DEF Math!Larger, y

\* The longest edge is a number; the provers need not see which.
LEMMA EdgeLimit == Math!MaxEdge \in Nat
BY SMT DEF Math!MaxEdge

\* An edge in tenths of a point is a number.
LEMMA EdgeIsNat == ASSUME NEW w \in 1 .. Math!MaxEdge PROVE w \in Nat
BY EdgeLimit

\* A page that is rendered at all has at least one pixel each way, each length
\* rounded to the nearest pixel, and never more pixels than a rendering may have
\* (PageGeometry::pixel_size).
THEOREM PagesHaveTheirSize ==
  ASSUME NEW w \in Int, NEW h \in Int, NEW dpi \in Nat, NEW size,
         size = Math!PixelSize(w, h, dpi), size # Math!Refused
  PROVE  /\ size \in (Nat \ {0}) \X (Nat \ {0})
         /\ size[1] * size[2] <= Math!MaxRenderedPixels
         /\ 2 * w * dpi - 720 < 1440 * size[1]
         /\ size[1] = 1 \/ 1440 * size[1] <= 2 * w * dpi + 720
         /\ 2 * h * dpi - 720 < 1440 * size[2]
         /\ size[2] = 1 \/ 1440 * size[2] <= 2 * h * dpi + 720
<1> DEFINE x == Math!PointsToPixels(w, dpi)
           y == Math!PointsToPixels(h, dpi)
<1>1. w \in 1 .. Math!MaxEdge /\ h \in 1 .. Math!MaxEdge /\ size = Math!Rendered(x, y)
  BY DEF Math!PixelSize
<1>2. w \in Nat /\ h \in Nat
  BY <1>1, EdgeIsNat
<1>3. /\ x \in Nat \ {0} /\ 2 * w * dpi - 720 < 1440 * x
      /\ x = 1 \/ 1440 * x <= 2 * w * dpi + 720
  BY <1>2, PointsRound
<1>4. /\ y \in Nat \ {0} /\ 2 * h * dpi - 720 < 1440 * y
      /\ y = 1 \/ 1440 * y <= 2 * h * dpi + 720
  BY <1>2, PointsRound
<1> HIDE DEF x, y
<1>5. size = <<x, y>> /\ ~(x > Math!MaxRenderedPixels \div y)
  BY <1>1 DEF Math!Rendered
<1>6. x * y <= Math!MaxRenderedPixels
  <2> DEFINE m == Math!MaxRenderedPixels
             q == m \div y
  <2>1. m \in Nat
    BY SMT DEF Math!MaxRenderedPixels
  <2> HIDE DEF m
  <2>2. q \in Int /\ y * q <= m
    BY <1>4, <2>1, Quotient
  <2>3. x <= q
    BY <1>3, <1>5, <2>2 DEF m
  <2> HIDE DEF q
  <2>4. y * x <= y * q
    BY <1>3, <1>4, <2>2, <2>3, Product
  <2>5. y * x = x * y /\ y * x \in Int /\ y * q \in Int
    BY <1>3, <1>4, <2>2
  <2> QED
    BY <2>1, <2>2, <2>4, <2>5 DEF m
<1> QED
  BY <1>3, <1>4, <1>5, <1>6

-----------------------------------------------------------------------------
(***************************************************************************)
(* Quartiles of sorted values.                                             *)
(***************************************************************************)
Ascending(s) == \A i, j \in 1 .. Len(s) : i <= j => s[i] <= s[j]
Rank(i, r) == 4 * (i - 1) + r

\* The value at a rank, from the two it lies between.
LEMMA RankIs ==
  ASSUME NEW rank \in Nat
  PROVE  \E i \in Nat \ {0}, r \in 0 .. 3 : rank = Rank(i, r)
<1>1. rank \div 4 \in Nat /\ rank % 4 \in 0 .. 3 /\ rank = 4 * (rank \div 4) + (rank % 4)
  OBVIOUS
<1>2. rank = Rank(rank \div 4 + 1, rank % 4)
  BY <1>1 DEF Rank
<1> QED
  BY <1>1, <1>2

\* A quartile mixes the values of the two closest ranks, by quarters.
LEMMA AtRankIs ==
  ASSUME NEW s, NEW i \in Nat \ {0}, NEW r \in 0 .. 3
  PROVE  LET v == Math!AtRank4(s, Rank(i, r))
         IN  /\ r = 0 => v = 4 * s[i]
             /\ r = 1 => v = s[i] * 3 + s[i + 1] * 1
             /\ r = 2 => v = s[i] * 2 + s[i + 1] * 2
             /\ r = 3 => v = s[i] * 1 + s[i + 1] * 3
<1>1. Rank(i, r) % 4 = r /\ Rank(i, r) \div 4 = i - 1
  BY DEF Rank
<1>2. (i - 1) + 1 = i /\ (i - 1) + 2 = i + 1
  OBVIOUS
<1>3. /\ r = 0 => 4 - r = 4
      /\ r = 1 => 4 - r = 3
      /\ r = 2 => 4 - r = 2
      /\ r = 3 => 4 - r = 1
  OBVIOUS
<1>4. Math!AtRank4(s, Rank(i, r)) =
        IF r = 0 THEN 4 * s[i] ELSE s[i] * (4 - r) + s[i + 1] * r
  BY <1>1, <1>2 DEF Math!AtRank4
<1> QED
  BY <1>3, <1>4

\* Between two values, and nearer to the second the higher the rank.
LEMMA Mixes ==
  ASSUME NEW x \in Nat, NEW y \in Nat, x <= y
  PROVE  \A v \in {4 * x, x * 3 + y * 1, x * 2 + y * 2, x * 1 + y * 3} :
           v \in Nat /\ 4 * x <= v /\ v <= 4 * y
OBVIOUS

Mixed(s, i, r, v) ==
  /\ r = 0 => v = 4 * s[i]
  /\ r = 1 => v = s[i] * 3 + s[i + 1] * 1
  /\ r = 2 => v = s[i] * 2 + s[i + 1] * 2
  /\ r = 3 => v = s[i] * 1 + s[i + 1] * 3

\* Such a mixture lies between the two values,
LEMMA MixedIsBetween ==
  ASSUME NEW s \in Seq(Nat), Ascending(s), NEW i \in 1 .. Len(s), NEW r \in {0, 1, 2, 3},
         r # 0 => i + 1 \in 1 .. Len(s), NEW v, Mixed(s, i, r, v)
  PROVE  /\ v \in Nat /\ 4 * s[i] <= v
         /\ i + 1 \in 1 .. Len(s) => v <= 4 * s[i + 1]
<1>1. s[i] \in Nat
  OBVIOUS
<1>2. i + 1 \in 1 .. Len(s) => s[i + 1] \in Nat /\ s[i] <= s[i + 1]
  BY DEF Ascending
<1> DEFINE x == s[i]
           y == s[i + 1]
<1>3. CASE i + 1 \in 1 .. Len(s)
  <2>1. x \in Nat /\ y \in Nat /\ x <= y
    BY <1>1, <1>2, <1>3
  <2>2. v \in {4 * x, x * 3 + y * 1, x * 2 + y * 2, x * 1 + y * 3}
    BY DEF Mixed
  <2> HIDE DEF x, y
  <2>3. v \in Nat /\ 4 * x <= v /\ v <= 4 * y
    BY <2>1, <2>2, Mixes
  <2> QED
    BY <2>3 DEF x, y
<1>4. CASE ~(i + 1 \in 1 .. Len(s))
  <2>1. v = 4 * x
    BY <1>4 DEF Mixed
  <2> HIDE DEF x
  <2> QED
    BY <1>1, <1>4, <2>1 DEF x
<1> QED
  BY <1>3, <1>4

\* and does not fall as the rank rises between them,
LEMMA MixedRises ==
  ASSUME NEW s, NEW i, s[i] \in Nat, s[i + 1] \in Nat, s[i] <= s[i + 1],
         NEW q \in {0, 1, 2, 3}, NEW r \in {0, 1, 2, 3}, q <= r,
         NEW v, NEW w, Mixed(s, i, q, v), Mixed(s, i, r, w)
  PROVE  v <= w
<1> DEFINE x == s[i]
           y == s[i + 1]
<1>1. x \in Nat /\ y \in Nat /\ x <= y
  OBVIOUS
<1>2. \/ q = 0 /\ v = 4 * x
      \/ q = 1 /\ v = x * 3 + y * 1
      \/ q = 2 /\ v = x * 2 + y * 2
      \/ q = 3 /\ v = x * 1 + y * 3
  BY DEF Mixed
<1>3. \/ r = 0 /\ w = 4 * x
      \/ r = 1 /\ w = x * 3 + y * 1
      \/ r = 2 /\ w = x * 2 + y * 2
      \/ r = 3 /\ w = x * 1 + y * 3
  BY DEF Mixed
<1> HIDE DEF x, y
<1> QED
  BY <1>1, <1>2, <1>3

\* nor from one pair of ranks to the next.
LEMMA RanksRise ==
  ASSUME NEW s \in Seq(Nat), Ascending(s), NEW a \in Nat, NEW b \in Nat,
         a <= b, b <= 4 * (Len(s) - 1)
  PROVE  Math!AtRank4(s, a) <= Math!AtRank4(s, b)
<1>1. PICK i \in Nat \ {0}, q \in 0 .. 3 : a = Rank(i, q)
  BY RankIs
<1>2. PICK j \in Nat \ {0}, r \in 0 .. 3 : b = Rank(j, r)
  BY RankIs
<1>3. /\ i \in 1 .. Len(s) /\ j \in 1 .. Len(s) /\ i <= j
      /\ r # 0 => j + 1 \in 1 .. Len(s)
      /\ q # 0 => i + 1 \in 1 .. Len(s)
      /\ i = j => q <= r
      /\ i < j => i + 1 \in 1 .. Len(s) /\ i + 1 <= j
      /\ q \in {0, 1, 2, 3} /\ r \in {0, 1, 2, 3}
  BY <1>1, <1>2 DEF Rank
<1> DEFINE v == Math!AtRank4(s, a)
           w == Math!AtRank4(s, b)
<1>4. Mixed(s, i, q, v) /\ Mixed(s, j, r, w)
  BY <1>1, <1>2, AtRankIs DEF Mixed
<1> HIDE DEF v, w
<1>5. /\ v \in Nat /\ (i + 1 \in 1 .. Len(s) => v <= 4 * s[i + 1])
      /\ w \in Nat /\ 4 * s[j] <= w
  BY <1>3, <1>4, MixedIsBetween
<1>6. CASE i < j
  <2>1. i + 1 \in 1 .. Len(s) /\ s[i + 1] <= s[j] /\ s[i + 1] \in Nat /\ s[j] \in Nat
    BY <1>3, <1>6 DEF Ascending
  <2> QED
    BY <1>5, <2>1 DEF v, w
<1>7. CASE i = j /\ i + 1 \in 1 .. Len(s)
  <2>1. s[i] \in Nat /\ s[i + 1] \in Nat /\ s[i] <= s[i + 1]
    BY <1>3, <1>7 DEF Ascending
  <2> QED
    BY <1>3, <1>4, <1>7, <2>1, MixedRises DEF v, w
<1>8. CASE i = j /\ ~(i + 1 \in 1 .. Len(s))
  <2>1. q = 0 /\ r = 0
    BY <1>3, <1>8
  <2>2. v = 4 * s[i] /\ w = 4 * s[i]
    BY <1>4, <1>8, <2>1 DEF Mixed
  <2> QED
    BY <1>5, <2>2 DEF v, w
<1> QED
  BY <1>3, <1>6, <1>7, <1>8

\* Of any sorted durations or sizes the quartiles are in order and between the
\* extremes, and the middle one is the median that the other implementation
\* computes (percentile_of_sorted, median_of_sorted).
THEOREM QuartilesAreInOrder ==
  ASSUME NEW s \in Seq(Nat), s # <<>>, Ascending(s)
  PROVE  LET n == Len(s)
             q(k) == Math!AtRank4(s, k * (n - 1))
         IN  /\ 4 * s[1] <= q(1) /\ q(1) <= q(2) /\ q(2) <= q(3) /\ q(3) <= 4 * s[n]
             /\ q(2) = 2 * Math!Middle2(s, n)
<1> DEFINE n == Len(s)
           q(k) == Math!AtRank4(s, k * (n - 1))
<1>1. n \in Nat \ {0}
  OBVIOUS
<1> HIDE DEF n
<1>2. q(1) <= q(2) /\ q(2) <= q(3)
  BY <1>1, RanksRise DEF n
<1>3. 4 * s[1] <= q(1)
  <2>1. Math!AtRank4(s, Rank(1, 0)) = 4 * s[1] /\ Rank(1, 0) = 0
    BY AtRankIs DEF Rank
  <2> QED
    BY <1>1, <2>1, RanksRise DEF n
<1>4. q(3) <= 4 * s[n]
  <2>1. Math!AtRank4(s, Rank(n, 0)) = 4 * s[n] /\ Rank(n, 0) = 4 * (n - 1)
    BY <1>1, AtRankIs DEF Rank
  <2> QED
    BY <1>1, <2>1, RanksRise DEF n
<1>5. q(2) = 2 * Math!Middle2(s, n)
  <2>1. CASE n % 2 = 1
    <3>1. n \div 2 + 1 \in Nat \ {0} /\ 2 * (n - 1) = Rank(n \div 2 + 1, 0) /\ n \div 2 + 1 \in 1 .. n
      BY <1>1, <2>1 DEF Rank
    <3>2. q(2) = 4 * s[n \div 2 + 1]
      BY <3>1, AtRankIs
    <3>3. s[n \div 2 + 1] \in Nat
      BY <3>1 DEF n
    <3> QED
      BY <2>1, <3>2, <3>3 DEF Math!Middle2
  <2>2. CASE n % 2 = 0
    <3>1. n \div 2 \in Nat \ {0} /\ 2 * (n - 1) = Rank(n \div 2, 2) /\ n \div 2 + 1 \in 1 .. n
          /\ n \div 2 \in 1 .. n
      BY <1>1, <2>2 DEF Rank
    <3>2. q(2) = s[n \div 2] * 2 + s[n \div 2 + 1] * 2
      BY <3>1, AtRankIs
    <3>3. s[n \div 2] \in Nat /\ s[n \div 2 + 1] \in Nat
      BY <3>1 DEF n
    <3> QED
      BY <2>2, <3>2, <3>3 DEF Math!Middle2
  <2> QED
    BY <1>1, <2>1, <2>2
<1> QED
  BY <1>2, <1>3, <1>4, <1>5 DEF n

-----------------------------------------------------------------------------
(* A probe is one of the inputs, so that a theorem about an algorithm is    *)
(* one about every state.                                                   *)
ProbeOK ==
  /\ probe.of = "plans" => probe.in \in Plans \X Plans
  /\ probe.of = "result" => probe.in \in Packages \X Results
  /\ probe.of = "selection" => probe.in \in Selections
  /\ probe.of = "sample" => probe.in \in Samples
  /\ probe.of = "quartiles" => probe.in \in QuartileValues
  /\ probe.of = "estimate" => probe.in \in Estimates \X Containers
  /\ probe.of = "outliers" => probe.in \in PageReports
  /\ probe.of = "contrast" => probe.in \in Contrasts
  /\ probe.of = "otsu" => probe.in \in OtsuImages
  /\ probe.of = "sauvola" => probe.in \in SauvolaImages \X SauvolaParams
  /\ probe.of = "despeckle" => probe.in \in Masks \X Limits
  /\ probe.of = "packing" => probe.in \in PackedMasks
  /\ probe.of = "process" => probe.in \in Pages \X Settings
  /\ probe.of = "fingerprint" => probe.in \in Rivals \X Pages

\* Every input that is probed is one of those the assumptions speak of.
LEMMA ProbesAreInputs == ProbeSpec => []ProbeOK
<1>1. ProbeInit => ProbeOK
  BY DEF ProbeInit, ProbeOK
<1>2. ProbeOK /\ [ProbeNext]_probe => ProbeOK'
  <2> SUFFICES ASSUME ProbeOK, [ProbeNext]_probe PROVE ProbeOK'
    OBVIOUS
  <2>1. CASE UNCHANGED probe
    BY <2>1 DEF ProbeOK
  <2>2. ASSUME NEW name, NEW S, Probe(name, S) PROVE probe'.of = name /\ probe'.in \in S
    BY <2>2 DEF Probe
  <2>3. CASE ProbePlans \/ ProbeResults
    BY <2>2, <2>3 DEF ProbePlans, ProbeResults, ProbeOK
  <2>4. CASE ProbeSelection \/ ProbeSample \/ ProbeQuartiles \/ ProbeEstimate \/ ProbeOutliers
    BY <2>2, <2>4 DEF ProbeSelection, ProbeSample, ProbeQuartiles, ProbeEstimate, ProbeOutliers, ProbeOK
  <2>5. CASE ProbeContrast \/ ProbeOtsu \/ ProbeSauvola
    BY <2>2, <2>5 DEF ProbeContrast, ProbeOtsu, ProbeSauvola, ProbeOK
  <2>6. CASE ProbeDespeckle \/ ProbePacking \/ ProbeProcess \/ ProbeFingerprint
    BY <2>2, <2>6 DEF ProbeDespeckle, ProbePacking, ProbeProcess, ProbeFingerprint, ProbeOK
  <2> QED
    BY <2>1, <2>3, <2>4, <2>5, <2>6 DEF ProbeNext
<1> QED
  BY <1>1, <1>2, PTL DEF ProbeSpec

\* A consent, a receipt and a request stand for one plan, and a result that is
\* installed has every page of the document, for all plans, documents and results
\* (remote_api.rs).
THEOREM PlansBindCorrect == ProbeSpec => []PlansBind
<1>1. ProbeOK => PlansBind
  <2> SUFFICES ASSUME ProbeOK PROVE PlansBind
    OBVIOUS
  <2>1. ASSUME probe.of = "plans"
        PROVE  /\ Plan!ConsentCoversPlan(probe.in[1], probe.in[2])
               /\ Plan!ReceiptRestoresPlan(probe.in[1], probe.in[2])
               /\ Plan!KeysAreDistinct(probe.in[1], probe.in[2])
    <3>1. probe.in[1] \in Plans /\ probe.in[2] \in Plans
      BY <2>1 DEF ProbeOK
    <3>2. PICK f \in PlanFields, g \in PlanFields : probe.in[1] = Plan!NewPlan(f) /\ probe.in[2] = Plan!NewPlan(g)
      BY <3>1 DEF Plans
    <3>3. f.bytes \in Nat \ {0} /\ f.pages \in Nat \ {0}
      BY PlansAssumption
    <3> QED
      BY <3>2, <3>3, ConsentIsForOnePlan, ReceiptsRestorePlans, KeysTellRequestsApart
  <2>2. ASSUME probe.of = "result" PROVE Plan!InstalledResultIsWhole(probe.in[1], probe.in[2])
    <3>1. probe.in[1] \in Packages /\ probe.in[2] \in Results
      BY <2>2 DEF ProbeOK
    <3>2. probe.in[1].pages \in Nat /\ probe.in[2].pages \in Seq(Nat)
      BY <3>1, PlansAssumption
    <3> QED
      BY <3>2, InstalledResultsAreWhole
  <2> QED
    BY <2>1, <2>2 DEF PlansBind
<1> QED
  BY <1>1, ProbesAreInputs, PTL

-----------------------------------------------------------------------------
(* Contrast.                                                                *)
LEMMA RoundKeepsOrder ==
  ASSUME NEW den \in Nat \ {0}, NEW a \in Int, NEW b \in Int, a <= b
  PROVE  Img!Round(a, den) <= Img!Round(b, den)
<1> DEFINE D == 2 * den
           up(x) == (2 * x + den) \div D
           down(x) == (2 * (-x) + den) \div D
<1>1. D \in Nat \ {0}
  OBVIOUS
<1>2. ASSUME NEW x \in Int, NEW y \in Int, x <= y PROVE x \div D <= y \div D /\ x \div D \in Int /\ y \div D \in Int
  <2> DEFINE p == x \div D
             q == y \div D
  <2>1. p \in Int /\ q \in Int /\ D * p <= x /\ y < D * q + D
    BY <1>1, Quotient
  <2> HIDE DEF p, q, D
  <2>2. CASE p >= q + 1
    <3>1. D * (q + 1) <= D * p
      BY <1>1, <2>1, <2>2, Product
    <3>2. D * (q + 1) = D * q + D
      BY <1>1, <2>1
    <3> QED BY <1>1, <1>2, <2>1, <3>1, <3>2
  <2> QED BY <2>1, <2>2 DEF p, q
<1>3. \A x \in Int : x >= 0 => up(x) \in Nat /\ Img!Round(x, den) = up(x)
  BY <1>1, Quotient DEF Img!Round
<1>4. \A x \in Int : x < 0 => down(x) \in Nat /\ Img!Round(x, den) = -down(x)
  BY <1>1, Quotient DEF Img!Round
<1>5. CASE a >= 0
  <2>1. 2 * a + den <= 2 * b + den /\ 2 * a + den \in Int /\ 2 * b + den \in Int
    OBVIOUS
  <2>2. up(a) <= up(b)
    BY <1>2, <2>1
  <2> QED BY <1>3, <1>5, <2>2
<1>6. CASE b < 0
  <2>1. 2 * (-b) + den <= 2 * (-a) + den /\ 2 * (-a) + den \in Int /\ 2 * (-b) + den \in Int
    OBVIOUS
  <2>2. down(b) <= down(a)
    BY <1>2, <2>1
  <2> QED BY <1>4, <1>6, <2>2
<1>7. CASE a < 0 /\ b >= 0
  <2>1. down(a) \in Nat /\ up(b) \in Nat
    BY <1>3, <1>4, <1>7
  <2> HIDE DEF up, down
  <2> QED BY <2>1, <1>3, <1>4, <1>7
<1> QED BY <1>5, <1>6, <1>7

\* Contrast maps no darker gray above a lighter one (adjust_contrast).
THEOREM ContrastIsAStretch == ASSUME NEW q \in -4 .. 4 PROVE Img!ContrastKeepsOrder(q)
<1> SUFFICES ASSUME NEW p \in 0 .. Img!White - 1
             PROVE  Img!Stretch(q, p) <= Img!Stretch(q, p + 1)
  BY DEF Img!ContrastKeepsOrder
<1>1. p \in Nat
  BY DEF Img!White
<1> DEFINE den == 1036 - 255 * q
           a == 259 * (q + 4) * (p - 128)
           b == 259 * (q + 4) * (p + 1 - 128)
<1>2. den \in Nat \ {0} /\ a \in Int /\ b \in Int /\ a <= b
  <2>1. b - a = 259 * (q + 4) /\ a \in Int /\ b \in Int
    BY <1>1
  <2> QED BY <2>1
<1>3. Img!Round(a, den) \in Int /\ Img!Round(b, den) \in Int /\ Img!Round(a, den) <= Img!Round(b, den)
  <2> HIDE DEF den, a, b
  <2>1. \A x \in Int : Img!Round(x, den) \in Int
    BY <1>2, Quotient DEF Img!Round
  <2> QED BY <1>2, <2>1, RoundKeepsOrder
<1> HIDE DEF den, a, b
<1>4. CASE q = 0
  BY <1>1, <1>4 DEF Img!Stretch
<1>5. CASE q # 0
  <2>1. /\ Img!Stretch(q, p) = Img!Clamp(128 + Img!Round(a, den), 0, Img!White)
        /\ Img!Stretch(q, p + 1) = Img!Clamp(128 + Img!Round(b, den), 0, Img!White)
    BY <1>5 DEF Img!Stretch, a, b, den
  <2> QED BY <1>3, <2>1 DEF Img!Clamp, Img!White
<1> QED BY <1>4, <1>5

-----------------------------------------------------------------------------
(* Otsu's threshold.                                                        *)
LEMMA SameSize == ASSUME NEW S PROVE Img!Cardinality(S) = Cardinality(S)
BY DEF Img!Cardinality, Cardinality

\* An image has finitely many pixels.
LEMMA PixelsAreFinite ==
  ASSUME NEW w \in Nat, NEW h \in Nat
  PROVE  IsFiniteSet(Img!Pixels(w, h))
<1>1. IsFiniteSet(0 .. w - 1) /\ IsFiniteSet(0 .. h - 1)
  BY FS_Interval
<1> QED BY <1>1, FS_Product DEF Img!Pixels

\* A bounded set of integers has a greatest element.
LEMMA GreatestIs ==
  ASSUME NEW n \in Int, NEW S, S # {}, \A u \in S : u \in Int /\ u <= n
  PROVE  Img!Greatest(S) \in S /\ \A u \in S : u <= Img!Greatest(S)
<1> DEFINE T == {n - u : u \in S}
<1>1. T \in SUBSET Nat /\ T # {}
  OBVIOUS
<1>2. PICK k \in T : \A m \in T : k <= m
  <2> HIDE DEF T
  <2> QED BY <1>1, LeastNatural
<1>3. PICK t \in S : k = n - t
  OBVIOUS
<1>4. ASSUME NEW u \in S PROVE u <= t
  <2>1. n - u \in T /\ n - t <= n - u /\ u \in Int /\ t \in Int
    BY <1>2, <1>3
  <2> QED BY <2>1
<1> QED BY <1>4 DEF Img!Greatest

Fraction(a) == a.num \in Nat /\ a.den \in Nat \ {0}

\* What is greater than a fraction is greater than every one not above it.
LEMMA GreaterThanNotGreater ==
  ASSUME NEW a, NEW b, NEW c, Fraction(a), Fraction(b), Fraction(c),
         Img!Greater(a, b), ~Img!Greater(c, b)
  PROVE  Img!Greater(a, c)
<1> DEFINE an == a.num  ad == a.den  bn == b.num  bd == b.den  cn == c.num  cd == c.den
<1>1. /\ an \in Nat /\ ad \in Nat \ {0} /\ bn \in Nat /\ bd \in Nat \ {0}
      /\ cn \in Nat /\ cd \in Nat \ {0}
      /\ an * bd > bn * ad /\ cn * bd <= bn * cd
  BY DEF Fraction, Img!Greater
<1> HIDE DEF an, ad, bn, bd, cn, cd
<1>2. cd * (bn * ad) < cd * (an * bd)
  BY <1>1
<1>3. ad * (cn * bd) <= ad * (bn * cd)
  BY <1>1
<1>4. bd * (cn * ad) < bd * (an * cd)
  <2>1. /\ cd * (bn * ad) = ad * (bn * cd) /\ cd * (an * bd) = bd * (an * cd)
        /\ ad * (cn * bd) = bd * (cn * ad)
    BY <1>1
  <2>2. /\ cd * (bn * ad) \in Int /\ cd * (an * bd) \in Int /\ ad * (cn * bd) \in Int
    BY <1>1
  <2> QED BY <1>2, <1>3, <2>1, <2>2
<1>5. an * cd > cn * ad
  <2> SUFFICES ASSUME an * cd <= cn * ad PROVE FALSE
    BY <1>1
  <2>1. bd * (an * cd) <= bd * (cn * ad)
    BY <1>1, Product
  <2> QED BY <1>1, <1>4, <2>1
<1> QED BY <1>5 DEF Img!Greater, an, ad, cn, cd

Dark(image, t) == {at \in DOMAIN image.px : image.px[at] <= t}
Light(image, t) == DOMAIN image.px \ Dark(image, t)
Total(image) == Img!Cardinality(DOMAIN image.px)
Whole(image) == Sum(image.px, DOMAIN image.px)
IsGray(image) == IsImage(image, Img!Grays)

\* The pixels of a gray image are numbers, and there is one.
LEMMA GrayPixels ==
  ASSUME NEW image, IsGray(image)
  PROVE  /\ DOMAIN image.px = Img!Pixels(image.w, image.h) /\ IsFiniteSet(DOMAIN image.px)
         /\ \A at \in DOMAIN image.px : image.px[at] \in Img!Grays /\ image.px[at] \in Int
         /\ <<0, 0>> \in DOMAIN image.px
<1>1. image.w \in Nat \ {0} /\ image.h \in Nat \ {0} /\ image.px \in [Img!Pixels(image.w, image.h) -> Img!Grays]
  BY DEF IsGray, IsImage
<1>2. DOMAIN image.px = Img!Pixels(image.w, image.h) /\ \A at \in DOMAIN image.px : image.px[at] \in Img!Grays
  BY <1>1
<1>3. IsFiniteSet(Img!Pixels(image.w, image.h))
  BY <1>1, PixelsAreFinite
<1>4. Img!Grays \subseteq Int
  BY DEF Img!Grays, Img!White
<1>5. <<0, 0>> \in Img!Pixels(image.w, image.h)
  BY <1>1 DEF Img!Pixels
<1> QED BY <1>2, <1>3, <1>4, <1>5

\* A threshold divides pixels, and their gray values, into two classes.
LEMMA ClassesDivide ==
  ASSUME NEW image, IsGray(image), NEW t \in Int
  PROVE  /\ IsFiniteSet(Dark(image, t)) /\ IsFiniteSet(Light(image, t))
         /\ Cardinality(Dark(image, t)) \in Nat /\ Cardinality(Light(image, t)) \in Nat
         /\ Total(image) = Cardinality(Dark(image, t)) + Cardinality(Light(image, t))
         /\ Sum(image.px, Dark(image, t)) \in Int /\ Sum(image.px, Light(image, t)) \in Int
         /\ Whole(image) = Sum(image.px, Dark(image, t)) + Sum(image.px, Light(image, t))
         /\ Dark(image, t) = {} <=> Cardinality(Dark(image, t)) = 0
         /\ Light(image, t) = {} <=> Cardinality(Light(image, t)) = 0
<1> DEFINE P == DOMAIN image.px
           D == Dark(image, t)
           L == Light(image, t)
<1>1. IsFiniteSet(P) /\ \A at \in P : image.px[at] \in Int
  BY GrayPixels
<1>2. D \subseteq P /\ L \subseteq P /\ D \cap L = {} /\ D \cup L = P
  BY DEF Dark, Light
<1> HIDE DEF D, L
<1>3. IsFiniteSet(D) /\ IsFiniteSet(L)
  BY <1>1, <1>2, FS_Subset
<1>4. Cardinality(D) \in Nat /\ Cardinality(L) \in Nat /\ Cardinality(P) = Cardinality(D) + Cardinality(L)
  <2>1. Cardinality(D \cup L) = Cardinality(D) + Cardinality(L) - Cardinality(D \cap L)
    BY <1>3, FS_Union
  <2>2. Cardinality(D) \in Nat /\ Cardinality(L) \in Nat
    BY <1>3, FS_CardinalityType
  <2>3. Cardinality(D \cap L) = 0
    BY <1>2, FS_EmptySet
  <2>4. Cardinality(D \cup L) = Cardinality(D) + Cardinality(L)
    BY <2>1, <2>2, <2>3
  <2> QED BY <1>2, <2>2, <2>4
<1>5. (\A at \in D : image.px[at] \in Int) /\ \A at \in L : image.px[at] \in Int
  BY <1>1, <1>2
<1>6. Sum(image.px, D) \in Int /\ Sum(image.px, L) \in Int
  BY <1>3, <1>5, SumType
<1>7. Sum(image.px, D \cup L) = Sum(image.px, D) + Sum(image.px, L)
  <2>1. \A at \in D \cup L : image.px[at] \in Int
    BY <1>5
  <2> QED BY <1>2, <1>3, <2>1, SumUnion
<1>8. (D = {} <=> Cardinality(D) = 0) /\ (L = {} <=> Cardinality(L) = 0)
  BY <1>3, FS_EmptySet
<1> QED BY <1>2, <1>3, <1>4, <1>6, <1>7, <1>8, SameSize DEF D, L, Total, Whole

NoVariance == [num |-> 0, den |-> 1]
VarianceAt(image, t) ==
  Img!Variance(Cardinality(Dark(image, t)), Sum(image.px, Dark(image, t)), Total(image), Whole(image))

\* The variance of the definition is a fraction, none if a class is empty.
LEMMA BetweenIs ==
  ASSUME NEW image, IsGray(image), NEW t \in Int
  PROVE  /\ Fraction(Img!Between(image, t))
         /\ Dark(image, t) = {} \/ Light(image, t) = {} => Img!Between(image, t) = NoVariance
         /\ ~(Dark(image, t) = {} \/ Light(image, t) = {}) => Img!Between(image, t) = VarianceAt(image, t)
<1> DEFINE D == Dark(image, t)
           L == Light(image, t)
           d == Sum(image.px, D) * Cardinality(L) - Sum(image.px, L) * Cardinality(D)
<1>1. Img!Between(image, t) =
        IF D = {} \/ L = {} THEN NoVariance ELSE [num |-> d * d, den |-> Cardinality(D) * Cardinality(L)]
  BY SameSize, Zenon DEF Img!Between, Dark, Light, Sum, NoVariance
<1> DEFINE nd == Cardinality(D)
           nl == Cardinality(L)
           sd == Sum(image.px, D)
           sl == Sum(image.px, L)
<1>2. /\ nd \in Nat /\ nl \in Nat /\ sd \in Int /\ sl \in Int
      /\ Total(image) = nd + nl /\ Whole(image) = sd + sl
      /\ (D = {} <=> nd = 0) /\ (L = {} <=> nl = 0)
  BY ClassesDivide
<1>3. Fraction(NoVariance)
  BY DEF Fraction, NoVariance
<1>4. CASE ~(D = {} \/ L = {})
  <2>1. Img!Between(image, t) = [num |-> d * d, den |-> nd * nl]
    BY <1>1, <1>4
  <2>2. nd \in Nat \ {0} /\ nl \in Nat \ {0}
    BY <1>2, <1>4
  <2>3. VarianceAt(image, t) = Img!Variance(nd, sd, nd + nl, sd + sl)
    BY <1>2 DEF VarianceAt
  <2> HIDE DEF nd, nl, sd, sl
  <2>4. (nd + nl) - nd = nl /\ (sd + sl) - sd = sl
    BY <1>2
  <2>5. VarianceAt(image, t) = [num |-> d * d, den |-> nd * nl]
    BY <2>3, <2>4 DEF Img!Variance, nd, nl, sd, sl
  <2>6. d \in Int
    BY <1>2 DEF nd, nl, sd, sl
  <2>7. nd * nl \in Nat \ {0}
    BY <2>2
  <2> HIDE DEF d
  <2>8. d * d \in Nat
    BY <2>6
  <2> QED BY <1>4, <2>1, <2>5, <2>7, <2>8 DEF Fraction
<1> QED BY <1>1, <1>3, <1>4

Bins(image) == {-1} \cup Img!Shades(image)
Before(image, t) == Img!Greatest({u \in Bins(image) : u < t})
NoPixels == [wb |-> 0, sb |-> 0, best |-> NoVariance, t |-> 0]
Number(image, t) == Img!Cardinality({at \in DOMAIN image.px : image.px[at] = t})
OtsuStep(image, r, t, s) ==
  LET wb == s.wb + Number(image, t)
      sb == s.sb + t * Number(image, t)
      here == Img!Rounded(Img!Variance(wb, sb, Total(image), Whole(image)), r[t])
      better == wb # Total(image) /\ Img!Greater(here, s.best)
  IN  [wb |-> wb, sb |-> sb, best |-> IF better THEN here ELSE s.best,
       t |-> IF better THEN t ELSE s.t]
Passes(image, r, pass) ==
  pass = [t \in Bins(image) |-> IF t = -1 THEN NoPixels ELSE OtsuStep(image, r, t, pass[Before(image, t)])]

\* otsu_threshold is the pass, read at the last bin.
LEMMA OtsuIsAPass ==
  ASSUME NEW image, NEW r
  PROVE  Img!OtsuThreshold(image, r) = (CHOOSE pass : Passes(image, r, pass))[Img!Greatest(Bins(image))].t
BY Zenon DEF Img!OtsuThreshold, Passes, OtsuStep, NoPixels, Before, Bins, Total, Whole, Sum, Number, NoVariance

\* The bins are finitely many integers, each but the first with one before it.
LEMMA BinsAre ==
  ASSUME NEW image, IsGray(image)
  PROVE  /\ -1 \in Bins(image) /\ \A u \in Bins(image) : u \in -1 .. Img!White
         /\ \A n \in Int : {u \in Bins(image) : u <= n} # {} => 
              LET g == Img!Greatest({u \in Bins(image) : u <= n})
              IN  g \in Bins(image) /\ g <= n /\ \A u \in Bins(image) : u <= n => u <= g
         /\ \A t \in Bins(image) \ {-1} : /\ Before(image, t) \in Bins(image) /\ Before(image, t) < t
                                          /\ \A u \in Bins(image) : u < t => u <= Before(image, t)
         /\ /\ Img!Greatest(Bins(image)) \in Bins(image) 
            /\ \A u \in Bins(image) : u <= Img!Greatest(Bins(image))
<1>1. ASSUME NEW u \in Bins(image) PROVE u \in -1 .. Img!White
  BY GrayPixels DEF Bins, Img!Shades, Img!Grays, Img!White
<1>2. -1 \in Bins(image)
  BY DEF Bins
<1>3. ASSUME NEW n \in Int, {u \in Bins(image) : u <= n} # {}
      PROVE LET g == Img!Greatest({u \in Bins(image) : u <= n})
            IN  g \in Bins(image) /\ g <= n /\ \A u \in Bins(image) : u <= n => u <= g
  <2> DEFINE S == {u \in Bins(image) : u <= n}
  <2>1. S # {} /\ \A u \in S : u \in Int /\ u <= n
    BY <1>1, <1>3
  <2>2. Img!Greatest(S) \in S /\ \A u \in S : u <= Img!Greatest(S)
    <3> HIDE DEF S
    <3> QED BY <2>1, GreatestIs
  <2> QED BY <2>2
<1>4. ASSUME NEW t \in Bins(image) \ {-1}
      PROVE /\ Before(image, t) \in Bins(image) /\ Before(image, t) < t
            /\ \A u \in Bins(image) : u < t => u <= Before(image, t)
  <2> DEFINE S == {u \in Bins(image) : u < t}
  <2>1. t \in Nat
    BY <1>1
  <2>2. -1 \in S /\ \A u \in S : u \in Int /\ u <= t
    BY <1>1, <1>2, <2>1
  <2>3. Img!Greatest(S) \in S /\ \A u \in S : u <= Img!Greatest(S)
    <3> HIDE DEF S
    <3> QED BY <2>1, <2>2, GreatestIs
  <2> QED BY <2>3 DEF Before
<1>5. Img!Greatest(Bins(image)) \in Bins(image) /\ \A u \in Bins(image) : u <= Img!Greatest(Bins(image))
  <2>1. Img!White \in Int /\ \A u \in Bins(image) : u \in Int /\ u <= Img!White
    BY <1>1 DEF Img!White
  <2>2. Bins(image) # {}
    BY <1>2
  <2> QED BY <2>1, <2>2, GreatestIs
<1> QED BY <1>1, <1>2, <1>3, <1>4, <1>5

\* A shade's variance is off by at most a part,
LEMMA RoundingIs ==
  ASSUME NEW image, NEW r \in Img!Roundings(image), NEW t \in Bins(image) \ {-1}
  PROVE  r[t] \in -1 .. 1 /\ r[t] \in Int
BY DEF Bins, Img!Roundings

\* so it stays a fraction, none only if it was none,
LEMMA RoundedIs ==
  ASSUME NEW v, Fraction(v), NEW e \in -1 .. 1
  PROVE  /\ Fraction(Img!Rounded(v, e))
         /\ Img!Rounded(v, e).num = v.num * (256 + e) /\ Img!Rounded(v, e).den = v.den
         /\ v.num = 0 <=> Img!Rounded(v, e).num = 0
<1>1. v.num \in Nat /\ v.den \in Nat \ {0} /\ 256 + e \in Nat \ {0}
  BY DEF Fraction
<1>2. Img!Rounded(v, e) = [v EXCEPT !.num = v.num * (256 + e)]
  BY DEF Img!Rounded, Img!FloatParts
<1>3. v.num * (256 + e) \in Nat /\ (v.num = 0 <=> v.num * (256 + e) = 0)
  <2> DEFINE n == v.num
             k == 256 + e
  <2>1. n \in Nat /\ k \in Nat \ {0}
    BY <1>1
  <2> HIDE DEF n, k
  <2>2. n * k \in Nat /\ (n = 0 <=> n * k = 0)
    BY <2>1
  <2> QED BY <2>2 DEF n, k
<1> QED BY <1>1, <1>2, <1>3 DEF Fraction

\* and rounding hides no greater difference than two parts.
LEMMA RoundingHidesLittle ==
  ASSUME NEW v, NEW w, Fraction(v), Fraction(w), NEW e \in -1 .. 1, NEW f \in -1 .. 1,
         ~Img!Greater(Img!Rounded(v, e), Img!Rounded(w, f))
  PROVE  ~Img!Greater(Img!Rounded(v, -1), Img!Rounded(w, 1))
<1> DEFINE a == v.num
           b == v.den
           c == w.num
           d == w.den
<1>1. a \in Nat /\ b \in Nat /\ c \in Nat /\ d \in Nat
  BY DEF Fraction
<1>2. \A i, j \in -1 .. 1 : Img!Greater(Img!Rounded(v, i), Img!Rounded(w, j))
                              <=> (a * (256 + i)) * d > (c * (256 + j)) * b
  BY RoundedIs DEF Img!Greater
<1> HIDE DEF a, b, c, d
<1>3. ~((a * (256 + e)) * d > (c * (256 + f)) * b)
  BY <1>2
<1> DEFINE x == a * d
           y == c * b
<1>4. x \in Nat /\ y \in Nat
  BY <1>1
<1>5. \A i \in -1 .. 1 : (a * (256 + i)) * d = x * (256 + i) /\ (c * (256 + i)) * b = y * (256 + i)
  BY <1>1
<1> HIDE DEF x, y
<1>6. ~(x * (256 + e) > y * (256 + f))
  BY <1>3, <1>5
<1>7. ~(x * 255 > y * 257)
  <2>1. e = -1 \/ e = 0 \/ e = 1
    OBVIOUS
  <2>2. f = -1 \/ f = 0 \/ f = 1
    OBVIOUS
  <2> QED BY <1>4, <1>6, <2>1, <2>2
<1>8. -1 \in -1 .. 1 /\ 1 \in -1 .. 1 /\ 256 + -1 = 255 /\ 256 + 1 = 257
  OBVIOUS
<1> QED BY <1>2, <1>5, <1>7, <1>8

\* The pass has a result.
LEMMA PassExists ==
  ASSUME NEW image, IsGray(image), NEW r \in Img!Roundings(image)
  PROVE  \E pass : Passes(image, r, pass)
<1> DEFINE D == Bins(image)
           V == [wb : Int, sb : Int, best : [num : Int, den : Int], t : Int]
           m == [t \in D |-> t + 1]
           b == [t \in {-1} |-> NoPixels]
           next == [t \in D \ {-1} |-> Before(image, t)]
           step == [p \in (D \ {-1}) \X V |-> OtsuStep(image, r, p[1], p[2])]
<1>1. D \subseteq Int /\ -1 \in D /\ \A t \in D : t + 1 \in Nat
  <2> SUFFICES ASSUME NEW t \in D PROVE t \in -1 .. 255
    BY BinsAre
  <2> QED BY BinsAre DEF Img!White
<1>2. m \in [D -> Nat] /\ {-1} \subseteq D
  BY <1>1
<1>3. b \in [{-1} -> V]
  BY DEF NoPixels, NoVariance
<1>4. next \in [D \ {-1} -> D] /\ \A t \in D \ {-1} : m[next[t]] < m[t]
  <2> SUFFICES ASSUME NEW t \in D \ {-1} PROVE Before(image, t) \in D /\ Before(image, t) + 1 < t + 1
    OBVIOUS
  <2> QED BY BinsAre, <1>1
<1>5. step \in [(D \ {-1}) \X V -> V]
  <2>1. Total(image) \in Int /\ Whole(image) \in Int
    BY ClassesDivide
  <2> SUFFICES ASSUME NEW t \in D \ {-1}, NEW s \in V PROVE OtsuStep(image, r, t, s) \in V
    OBVIOUS
  <2>2. t \in Int
    BY <1>1
  <2>3. Number(image, t) \in Int
    <3>1. IsFiniteSet({at \in DOMAIN image.px : image.px[at] = t})
      BY GrayPixels, FS_Subset
    <3> QED BY <3>1, FS_CardinalityType, SameSize DEF Number
  <2> DEFINE wb == s.wb + Number(image, t)
             sb == s.sb + t * Number(image, t)
  <2>4. wb \in Int /\ sb \in Int
    BY <2>2, <2>3
  <2>5. Img!Rounded(Img!Variance(wb, sb, Total(image), Whole(image)), r[t]) \in [num : Int, den : Int]
    <3> HIDE DEF wb, sb
    <3>1. sb * (Total(image) - wb) - (Whole(image) - sb) * wb \in Int /\ wb * (Total(image) - wb) \in Int
      BY <2>1, <2>4
    <3>2. Img!Variance(wb, sb, Total(image), Whole(image)) \in [num : Int, den : Int]
      BY <3>1 DEF Img!Variance
    <3>3. r[t] \in Int
      BY RoundingIs
    <3> QED BY <3>2, <3>3 DEF Img!Rounded, Img!FloatParts
  <2> QED BY <2>2, <2>4, <2>5 DEF OtsuStep
<1>6. Recursive(D, V, m, {-1}, b, next, step)
  <2> HIDE DEF V, step, next, m, b
  <2> QED BY <1>2, <1>3, <1>4, <1>5 DEF Recursive
<1>7. PICK pass \in [D -> V] : Solves(pass, D, {-1}, b, next, step)
  <2> HIDE DEF D, V, m, next, b, step
  <2> QED BY <1>6, Recursion
<1>8. ASSUME NEW t \in D \ {-1} PROVE step[<<t, pass[next[t]]>>] = OtsuStep(image, r, t, pass[Before(image, t)])
  BY <1>4
<1>9. pass[-1] = NoPixels
  BY <1>1, <1>7 DEF Solves
<1>10. \A t \in D : pass[t] = IF t = -1 THEN NoPixels ELSE OtsuStep(image, r, t, pass[Before(image, t)])
  BY <1>7, <1>8, <1>9 DEF Solves
<1> QED BY <1>10 DEF Passes

\* From one bin to the next the dark class gains the pixels of the bin.
LEMMA WeightsGrow ==
  ASSUME NEW image, IsGray(image), NEW t \in Bins(image) \ {-1}
  PROVE  /\ Cardinality(Dark(image, t)) = Cardinality(Dark(image, Before(image, t))) + Number(image, t)
         /\ Sum(image.px, Dark(image, t)) = Sum(image.px, Dark(image, Before(image, t))) + t * Number(image, t)
         /\ Dark(image, t) # {}
<1> DEFINE b == Before(image, t)
           D == Dark(image, b)
           E == {at \in DOMAIN image.px : image.px[at] = t}
<1>1. t \in Nat /\ b \in Bins(image) /\ b \in Int /\ b < t /\ \A u \in Bins(image) : u < t => u <= b
  <2>1. t \in -1 .. Img!White /\ b \in -1 .. Img!White
    BY BinsAre
  <2> HIDE DEF b
  <2>2. t \in Nat /\ b \in Int
    BY <2>1 DEF Img!White
  <2> QED BY <2>2, BinsAre DEF b
<1>2. /\ IsFiniteSet(DOMAIN image.px) /\ \A at \in DOMAIN image.px : image.px[at] \in Int
  BY GrayPixels
<1> HIDE DEF b
<1>3. Dark(image, t) = D \cup E /\ D \cap E = {}
  <2>1. ASSUME NEW at \in DOMAIN image.px
        PROVE  image.px[at] <= t <=> image.px[at] <= b \/ image.px[at] = t
    <3>1. image.px[at] \in Bins(image) /\ image.px[at] \in Int
      BY <1>2 DEF Bins, Img!Shades
    <3> QED BY <3>1, <1>1
  <2>2. ASSUME NEW at \in D \cap E PROVE FALSE
    BY <1>1 DEF Dark
  <2> QED BY <2>1, <2>2 DEF Dark
<1>4. E # {}
  BY <1>1 DEF Bins, Img!Shades
<1>5. IsFiniteSet(D) /\ IsFiniteSet(E)
  BY <1>2, FS_Subset DEF Dark
<1>6. Number(image, t) = Cardinality(E)
  BY SameSize DEF Number
<1>7. (\A at \in D : image.px[at] \in Int) /\ (\A at \in E : image.px[at] \in Int) /\ \A at \in E : image.px[at] = t
  BY <1>2 DEF Dark
<1> HIDE DEF D, E
<1>8. Cardinality(D \cup E) = Cardinality(D) + Cardinality(E)
  <2>1. Cardinality(D \cup E) = Cardinality(D) + Cardinality(E) - Cardinality(D \cap E)
    BY <1>5, FS_Union
  <2>2. Cardinality(D) \in Nat /\ Cardinality(E) \in Nat
    BY <1>5, FS_CardinalityType
  <2>3. Cardinality(D \cap E) = 0
    BY <1>3, FS_EmptySet
  <2> QED BY <2>1, <2>2, <2>3
<1>9. Sum(image.px, D \cup E) = Sum(image.px, D) + Sum(image.px, E)
  <2>1. \A at \in D \cup E : image.px[at] \in Int
    BY <1>7
  <2> QED BY <1>3, <1>5, <2>1, SumUnion
<1>10. Sum(image.px, E) = t * Cardinality(E)
  BY <1>1, <1>5, <1>7, SumConstant
<1> QED BY <1>3, <1>4, <1>6, <1>8, <1>9, <1>10 DEF D, b

RoundedAt(image, r, u) ==
  IF u = -1 THEN NoVariance ELSE Img!Rounded(Img!Between(image, u), r[u])
Good(image, r, pass, t) ==
  LET s == pass[t]
  IN  /\ s.wb = Cardinality(Dark(image, t)) /\ s.sb = Sum(image.px, Dark(image, t))
      /\ Fraction(s.best)
      /\ \A u \in Bins(image) : u <= t => ~Img!Greater(RoundedAt(image, r, u), s.best)
      /\ \/ s.best.num = 0 /\ s.t = 0
         \/ s.t \in Img!Shades(image) /\ s.best = RoundedAt(image, r, s.t) /\ s.best.num # 0

\* The variance a float holds is a fraction.
LEMMA RoundedAtIs ==
  ASSUME NEW image, IsGray(image), NEW r \in Img!Roundings(image), NEW u \in Bins(image)
  PROVE  Fraction(RoundedAt(image, r, u)) /\ u \in Int
<1>1. u \in Int
  BY BinsAre DEF Img!White
<1>2. CASE u = -1
  BY <1>1, <1>2 DEF RoundedAt, Fraction, NoVariance
<1>3. CASE u # -1
  BY <1>1, <1>3, BetweenIs, RoundingIs, RoundedIs DEF RoundedAt
<1> QED BY <1>2, <1>3

\* No fraction is below no variance, or below itself.
LEMMA NoneIsGreater ==
  ASSUME NEW a, Fraction(a)
  PROVE  ~Img!Greater(NoVariance, a) /\ ~Img!Greater(a, a)
<1>1. a.num \in Nat /\ a.den \in Nat
  BY DEF Fraction
<1> QED BY <1>1 DEF Img!Greater, NoVariance

\* What is greater is not none.
LEMMA GreaterIsSome ==
  ASSUME NEW a, NEW b, Fraction(a), Fraction(b), Img!Greater(a, b)
  PROVE  a.num # 0
<1>1. a.num * b.den > b.num * a.den /\ b.num * a.den \in Nat /\ b.den \in Nat
  BY DEF Fraction, Img!Greater
<1> QED BY <1>1

\* Whatever is not none is greater than none.
LEMMA SomeIsGreater ==
  ASSUME NEW a, NEW b, Fraction(a), Fraction(b), b.num = 0, ~Img!Greater(a, b)
  PROVE  a.num = 0
<1> DEFINE n == a.num
           d == b.den
<1>1. n \in Nat /\ d \in Nat \ {0} /\ a.den \in Nat
  BY DEF Fraction
<1>2. b.num * a.den = 0
  BY <1>1
<1>3. ~(n * d > 0)
  BY <1>2 DEF Img!Greater
<1> HIDE DEF n, d
<1>4. n # 0 => n * d > 0
  BY <1>1
<1> QED BY <1>1, <1>3, <1>4 DEF n

\* Of two fractions at most one is greater.
LEMMA GreaterIsOneWay ==
  ASSUME NEW a, NEW b, Fraction(a), Fraction(b), Img!Greater(a, b)
  PROVE  ~Img!Greater(b, a)
<1>1. a.num * b.den \in Int /\ b.num * a.den \in Int
  BY DEF Fraction
<1> QED BY <1>1 DEF Img!Greater

\* No pixel is darker than black.
LEMMA NothingIsDarkest == ASSUME NEW image, IsGray(image) PROVE Dark(image, -1) = {}
<1> SUFFICES ASSUME NEW at \in DOMAIN image.px, image.px[at] <= -1 PROVE FALSE
  BY DEF Dark
<1>1. image.px[at] \in 0 .. 255
  BY GrayPixels DEF Img!Grays, Img!White
<1> QED BY <1>1

\* Before the first bin nothing is weighed and nothing is best.
LEMMA FirstIsGood ==
  ASSUME NEW image, IsGray(image), NEW r \in Img!Roundings(image), NEW pass, Passes(image, r, pass)
  PROVE  Good(image, r, pass, -1)
<1>1. pass[-1] = NoPixels
  BY BinsAre DEF Passes
<1>2. Dark(image, -1) = {}
  BY NothingIsDarkest
<1>3. Cardinality(Dark(image, -1)) = 0 /\ Sum(image.px, Dark(image, -1)) = 0
  BY <1>2, FS_EmptySet, SumEmpty
<1>4. Fraction(NoVariance)
  BY DEF Fraction, NoVariance
<1>5. ASSUME NEW u \in Bins(image), u <= -1 PROVE ~Img!Greater(RoundedAt(image, r, u), NoVariance)
  <2>1. u = -1
    BY <1>5, BinsAre DEF Img!White
  <2>2. RoundedAt(image, r, u) = NoVariance
    BY <2>1 DEF RoundedAt
  <2> QED BY <2>2, <1>4, NoneIsGreater
<1> QED BY <1>1, <1>3, <1>4, <1>5 DEF Good, NoPixels, NoVariance

\* A bin keeps the running weights and the best threshold right,
LEMMA NextIsGood ==
  ASSUME NEW image, IsGray(image), NEW r \in Img!Roundings(image), NEW pass, Passes(image, r, pass),
         NEW t \in Bins(image) \ {-1}, Good(image, r, pass, Before(image, t))
  PROVE  Good(image, r, pass, t)
<1> DEFINE b == Before(image, t)
           s == pass[b]
           here == Img!Rounded(VarianceAt(image, t), r[t])
           wb == Cardinality(Dark(image, t))
           sb == Sum(image.px, Dark(image, t))
           better == wb # Total(image) /\ Img!Greater(here, s.best)
           Btw(u) == RoundedAt(image, r, u)
<1>1. t \in Nat /\ b \in Bins(image) /\ b \in Int /\ b < t /\ \A u \in Bins(image) : u < t => u <= b
  <2>1. t \in -1 .. Img!White /\ b \in -1 .. Img!White
    BY BinsAre
  <2> HIDE DEF b
  <2>2. t \in Nat /\ b \in Int
    BY <2>1 DEF Img!White
  <2> QED BY <2>2, BinsAre DEF b
<1>2. pass[t] = OtsuStep(image, r, t, s)
  BY DEF Passes
<1>3. pass[t] = [wb |-> wb, sb |-> sb, best |-> IF better THEN here ELSE s.best, t |-> IF better THEN t ELSE s.t]
  <2>1. s.wb = Cardinality(Dark(image, b)) /\ s.sb = Sum(image.px, Dark(image, b))
    BY DEF Good
  <2>2. wb = s.wb + Number(image, t) /\ sb = s.sb + t * Number(image, t)
    BY <2>1, WeightsGrow
  <2> QED BY <1>2, <2>2 DEF OtsuStep, VarianceAt
<1> HIDE DEF b
<1>4. \A u \in Bins(image) : u \in Int /\ Fraction(Btw(u))
  BY RoundedAtIs
<1>5. Fraction(s.best) /\ \A u \in Bins(image) : u <= b => ~Img!Greater(Btw(u), s.best)
  BY DEF Good, b
<1> DEFINE L == Light(image, t)
           nl == Cardinality(L)
<1>6. wb \in Nat /\ nl \in Nat /\ Total(image) = wb + nl /\ (L = {} <=> nl = 0)
  BY <1>1, ClassesDivide
<1>7. wb = Total(image) <=> L = {}
  <2> HIDE DEF wb, nl, L
  <2> QED BY <1>6
<1>8. wb = Total(image) => Btw(t).num = 0
  <2>1. wb = Total(image) => Light(image, t) = {}
    BY <1>7
  <2>2. wb = Total(image) => Img!Between(image, t) = NoVariance
    BY <2>1, <1>1, BetweenIs
  <2> QED BY <2>2, <1>1, BetweenIs, RoundingIs, RoundedIs DEF RoundedAt, NoVariance
<1>9. wb # Total(image) => Btw(t) = here
  <2>1. wb # Total(image) => Light(image, t) # {}
    BY <1>7
  <2>2. wb # Total(image) => Img!Between(image, t) = VarianceAt(image, t)
    BY <2>1, <1>1, WeightsGrow, BetweenIs
  <2> QED BY <2>2, <1>1 DEF RoundedAt
<1>10. CASE better
  <2>1. Btw(t) = here /\ Fraction(here) /\ Img!Greater(here, s.best)
    BY <1>4, <1>9, <1>10
  <2>2. ASSUME NEW u \in Bins(image), u < t PROVE Img!Greater(here, Btw(u))
    BY <1>1, <1>4, <1>5, <2>1, <2>2, GreaterThanNotGreater
  <2>3. ASSUME NEW u \in Bins(image), u <= t PROVE ~Img!Greater(Btw(u), here)
    <3>1. CASE u = t
      BY <2>1, <3>1, NoneIsGreater
    <3>2. CASE u < t
      BY <1>4, <2>1, <2>2, <3>2, GreaterIsOneWay
    <3> QED BY <1>1, <1>4, <2>3, <3>1, <3>2
  <2>4. /\ pass[t].wb = wb /\ pass[t].sb = sb /\ pass[t].best = here /\ pass[t].t = t
    BY <1>3, <1>10
  <2> HIDE DEF better, here, s, wb, sb
  <2>5. t \in Img!Shades(image) /\ here.num # 0
    BY <1>5, <2>1, GreaterIsSome DEF Bins, s
  <2>6. Good(image, r, pass, t) <=> 
         /\ pass[t].wb = wb /\ pass[t].sb = sb
         /\ Fraction(pass[t].best)
         /\ \A u \in Bins(image) : u <= t => ~Img!Greater(Btw(u), pass[t].best)
         /\ \/ pass[t].best.num = 0 /\ pass[t].t = 0
            \/ pass[t].t \in Img!Shades(image) /\ pass[t].best = Btw(pass[t].t) /\ pass[t].best.num # 0
    BY DEF Good, wb, sb
  <2> HIDE DEF Btw
  <2> QED BY <2>1, <2>2, <2>3, <2>4, <2>5, <2>6
<1>11. CASE ~better
  <2>1. ~Img!Greater(Btw(t), s.best)
    BY <1>4, <1>5, <1>8, <1>9, <1>11, GreaterIsSome
  <2>2. ASSUME NEW u \in Bins(image), u <= t PROVE ~Img!Greater(Btw(u), s.best)
    <3>1. u = t \/ u < t
      BY <1>1, <1>4, <2>2
    <3> QED BY <3>1, <1>1, <1>5, <2>1
  <2>3. /\ pass[t].wb = wb /\ pass[t].sb = sb /\ pass[t].best = s.best /\ pass[t].t = s.t
    BY <1>3, <1>11
  <2>4. \/ s.best.num = 0 /\ s.t = 0
        \/ s.t \in Img!Shades(image) /\ s.best = Btw(s.t) /\ s.best.num # 0
    BY DEF Good, b
  <2> HIDE DEF better, here, s
  <2> QED BY <1>5, <2>2, <2>3, <2>4 DEF Good
<1> QED BY <1>10, <1>11

\* so they are right at every bin.
LEMMA AllAreGood ==
  ASSUME NEW image, IsGray(image), NEW r \in Img!Roundings(image), NEW pass, Passes(image, r, pass)
  PROVE  \A t \in Bins(image) : Good(image, r, pass, t)
<1> DEFINE T == {t + 1 : t \in {u \in Bins(image) : ~Good(image, r, pass, u)}}
<1> SUFFICES ASSUME NEW u \in Bins(image), ~Good(image, r, pass, u) PROVE FALSE
  OBVIOUS
<1>1. \A t \in Bins(image) : t \in Int /\ t + 1 \in Nat
  BY BinsAre DEF Img!White
<1>2. T \in SUBSET Nat /\ T # {}
  BY <1>1
<1>3. PICK n \in T : \A k \in T : n <= k
  <2> HIDE DEF T
  <2> QED BY <1>2, LeastNatural
<1>4. PICK t \in Bins(image) : n = t + 1 /\ ~Good(image, r, pass, t)
  BY <1>3
<1>5. t # -1
  BY <1>4, FirstIsGood
<1>6. Before(image, t) \in Bins(image) /\ Before(image, t) < t
  BY <1>5, BinsAre
<1>7. Before(image, t) + 1 \notin T
  <2> HIDE DEF T
  <2> QED BY <1>1, <1>3, <1>4, <1>6
<1>8. Good(image, r, pass, Before(image, t))
  BY <1>6, <1>7
<1> QED BY <1>4, <1>5, <1>8, NextIsGood

\* Whichever way the floats are rounded, the threshold returned separates a page
\* best up to the rounding, at a shade with lighter pixels if not at 0
\* (otsu_threshold).
THEOREM OtsuThresholdIsBest == ASSUME NEW image, IsGray(image) PROVE Img!OtsuIsBest(image)
<1> SUFFICES ASSUME NEW r \in Img!Roundings(image)
             PROVE  LET t == Img!OtsuThreshold(image, r)
                    IN  /\ \A u \in Img!Grays : ~Img!Greater(Img!Rounded(Img!Between(image, u), -1),
                                                            Img!Rounded(Img!Between(image, t), 1))
                        /\ t # 0 => t \in Img!Shades(image) /\ Img!Between(image, t).num > 0
  BY DEF Img!OtsuIsBest
<1> DEFINE pass == CHOOSE f : Passes(image, r, f)
           g == Img!Greatest(Bins(image))
           s == pass[g]
           t == s.t
           Btw(u) == Img!Between(image, u)
           Worse(u) == ~Img!Greater(Img!Rounded(Btw(u), -1), Img!Rounded(Btw(t), 1))
<1>1. Passes(image, r, pass)
  BY PassExists
<1>2. Img!OtsuThreshold(image, r) = t
  BY OtsuIsAPass
<1>3. g \in Bins(image) /\ \A u \in Bins(image) : u <= g
  BY BinsAre
<1> HIDE DEF pass, g
<1>4. Good(image, r, pass, g)
  BY <1>1, <1>3, AllAreGood
<1>5. ASSUME NEW u \in Img!Grays
      PROVE  \E b \in Bins(image) : b <= u /\ Btw(u) = Btw(b) 
  <2>1. u \in Nat
    BY DEF Img!Grays, Img!White
  <2> DEFINE S == {v \in Bins(image) : v <= u}
             b == Img!Greatest(S)
  <2>2. -1 \in S
    BY <2>1, BinsAre
  <2>3. b \in Bins(image) /\ b <= u /\ \A v \in Bins(image) : v <= u => v <= b
    BY <2>1, <2>2, BinsAre
  <2> HIDE DEF b
  <2>4. b \in Int /\ \A at \in DOMAIN image.px : image.px[at] \in Bins(image) /\ image.px[at] \in Int
    BY <2>3, GrayPixels, BinsAre DEF Bins, Img!Shades, Img!White
  <2>5. Dark(image, u) = Dark(image, b)
    BY <2>1, <2>3, <2>4 DEF Dark
  <2>6. Light(image, u) = Light(image, b) /\ VarianceAt(image, u) = VarianceAt(image, b)
    BY <2>5 DEF Light, VarianceAt
  <2>7. Btw(u) = Btw(b)
    BY <2>1, <2>4, <2>5, <2>6, BetweenIs
  <2> QED BY <2>3, <2>7
<1>6. \A u \in Int : Fraction(Btw(u))
  BY BetweenIs
<1>7. Fraction(s.best) /\ \A b \in Bins(image) : ~Img!Greater(RoundedAt(image, r, b), s.best)
  BY <1>3, <1>4 DEF Good
<1>8. t = 0 \/ t \in Img!Shades(image)
  BY <1>4 DEF Good
<1>9. t \in Int /\ (t \in Img!Shades(image) => t \in Bins(image) \ {-1} /\ RoundedAt(image, r, t) = Img!Rounded(Btw(t), r[t]))
  <2>1. t \in Img!Shades(image) => t \in Nat
    BY GrayPixels DEF Img!Shades, Img!Grays
  <2> QED BY <1>8, <2>1 DEF Bins, RoundedAt
<1> HIDE DEF s
<1>10. ASSUME NEW u \in Int, Btw(u).num = 0 PROVE Worse(u)
  <2>1. Img!Rounded(Btw(u), -1).num = 0 /\ Fraction(Img!Rounded(Btw(u), -1)) /\ Fraction(Img!Rounded(Btw(t), 1))
    BY <1>6, <1>9, <1>10, RoundedIs
  <2> QED BY <2>1, GreaterIsSome
<1>11. ASSUME NEW b \in Bins(image) \ {-1} PROVE Worse(b)
  <2>1. b \in Int /\ Fraction(Btw(b)) /\ r[b] \in -1 .. 1 /\ RoundedAt(image, r, b) = Img!Rounded(Btw(b), r[b])
    BY RoundedAtIs, <1>6, RoundingIs DEF RoundedAt
  <2>2. ~Img!Greater(Img!Rounded(Btw(b), r[b]), s.best)
    BY <1>7, <2>1
  <2>3. CASE s.best.num = 0
    <3>1. Fraction(Img!Rounded(Btw(b), r[b])) /\ (Btw(b).num = 0 <=> Img!Rounded(Btw(b), r[b]).num = 0)
      BY <2>1, RoundedIs
    <3>2. Img!Rounded(Btw(b), r[b]).num = 0
      BY <1>7, <2>2, <2>3, <3>1, SomeIsGreater
    <3> QED BY <1>10, <2>1, <3>1, <3>2
  <2>4. CASE t \in Img!Shades(image) /\ s.best = RoundedAt(image, r, t)
    <3>1. s.best = Img!Rounded(Btw(t), r[t]) /\ r[t] \in -1 .. 1 /\ Fraction(Btw(t))
      BY <1>6, <1>9, <2>4, RoundingIs
    <3> HIDE DEF Btw
    <3> QED BY <2>1, <2>2, <3>1, RoundingHidesLittle
  <2> QED BY <1>4, <2>3, <2>4 DEF Good, s
<1>12. ASSUME NEW u \in Img!Grays PROVE Worse(u)
  <2>1. PICK b \in Bins(image) : Btw(u) = Btw(b)
    BY <1>5
  <2>2. CASE b = -1
    <3>1. Dark(image, -1) = {}
      BY NothingIsDarkest
    <3>2. Btw(b).num = 0
      BY <2>2, <3>1, BetweenIs DEF NoVariance
    <3>3. Worse(b)
      BY <1>10, <2>2, <3>2
    <3> QED BY <2>1, <3>3
  <2>3. CASE b # -1
    BY <1>11, <2>1, <2>3
  <2> QED BY <2>2, <2>3
<1>13. ASSUME t # 0 PROVE t \in Img!Shades(image) /\ Btw(t).num > 0
  <2>1. t \in Img!Shades(image) /\ s.best = RoundedAt(image, r, t) /\ s.best.num # 0
    BY <1>4, <1>13 DEF Good, s
  <2>2. Fraction(Btw(t)) /\ r[t] \in -1 .. 1 /\ s.best = Img!Rounded(Btw(t), r[t])
    BY <1>6, <1>9, <2>1, RoundingIs
  <2>3. Btw(t).num # 0 /\ Btw(t).num \in Nat
    BY <2>1, <2>2, RoundedIs DEF Fraction
  <2> QED BY <2>1, <2>3
<1> QED BY <1>2, <1>12, <1>13

-----------------------------------------------------------------------------
(* Sauvola's threshold.  The integral image holds sums of rectangles at the *)
(* origin, and a window is what four of them leave.                         *)
RowOf(w, h, v, row) ==
  row = [p \in (0 .. w) \X (0 .. h - 1) |->
           IF p[1] = 0 THEN 0 ELSE row[<<p[1] - 1, p[2]>>] + v[<<p[1] - 1, p[2]>>]]
TableOf(w, h, row, table) ==
  table = [p \in (0 .. w) \X (0 .. h) |->
             IF p[1] = 0 \/ p[2] = 0 THEN 0 ELSE table[<<p[1], p[2] - 1>>] + row[<<p[1], p[2] - 1>>]]
Left(w, h, x, y) == {q \in Img!Pixels(w, h) : q[1] < x /\ q[2] = y}
Above(w, h, x, y) == {q \in Img!Pixels(w, h) : q[1] < x /\ q[2] < y}

\* integral_images builds a table on the sums of rows.
LEMMA IntegralIsATable ==
  ASSUME NEW w, NEW h, NEW v
  PROVE  Img!Integral(w, h, v) = CHOOSE table : TableOf(w, h, CHOOSE row : RowOf(w, h, v, row), table)
BY Zenon DEF Img!Integral, RowOf, TableOf

\* A part of an image has a sum.
LEMMA PartIsFinite ==
  ASSUME NEW w \in Nat, NEW h \in Nat, NEW S \in SUBSET Img!Pixels(w, h),
         NEW v, \A q \in Img!Pixels(w, h) : v[q] \in Int
  PROVE  IsFiniteSet(S) /\ (\A q \in S : v[q] \in Int) /\ Sum(v, S) \in Int
<1>1. IsFiniteSet(S)
  BY PixelsAreFinite, FS_Subset
<1>2. \A q \in S : v[q] \in Int
  OBVIOUS
<1> QED BY <1>1, <1>2, SumType

\* The pixels left of a column, from one column to the next.
LEMMA LeftGrows ==
  ASSUME NEW w \in Nat, NEW h \in Nat, NEW v, \A q \in Img!Pixels(w, h) : v[q] \in Int,
         NEW y \in 0 .. h - 1
  PROVE  /\ Sum(v, Left(w, h, 0, y)) = 0
         /\ \A x \in 0 .. w - 1 : Sum(v, Left(w, h, x + 1, y)) = Sum(v, Left(w, h, x, y)) + v[<<x, y>>]
<1>1. Left(w, h, 0, y) = {}
  BY DEF Left, Img!Pixels
<1>2. ASSUME NEW x \in 0 .. w - 1
      PROVE  Sum(v, Left(w, h, x + 1, y)) = Sum(v, Left(w, h, x, y)) + v[<<x, y>>]
  <2> DEFINE S == Left(w, h, x, y)
             a == <<x, y>>
  <2>1. a \in Img!Pixels(w, h) /\ a \notin S /\ Left(w, h, x + 1, y) = S \cup {a}
    BY DEF Left, Img!Pixels
  <2>2. S \in SUBSET Img!Pixels(w, h)
    BY DEF Left
  <2> HIDE DEF S, a
  <2>3. IsFiniteSet(S) /\ (\A q \in S : v[q] \in Int) /\ v[a] \in Int /\ Sum(v, S) \in Int
    <3>1. v[a] \in Int
      BY <2>1
    <3> QED BY <2>2, <3>1, PartIsFinite
  <2>4. Sum(v, S \cup {a}) = v[a] + Sum(v, S)
    BY <2>1, <2>3, SumInsert
  <2>5. Sum(v, Left(w, h, x + 1, y)) = Sum(v, S) + v[a]
    <3> DEFINE old == Sum(v, S)
               new == v[a]
    <3>1. Sum(v, Left(w, h, x + 1, y)) = new + old /\ new \in Int /\ old \in Int
      BY <2>1, <2>3, <2>4
    <3> HIDE DEF old, new
    <3> QED BY <3>1 DEF old, new
  <2> QED BY <2>5 DEF S, a
<1> QED BY <1>1, <1>2, SumEmpty

\* The pixels above a row, from one row to the next.
LEMMA AboveGrows ==
  ASSUME NEW w \in Nat, NEW h \in Nat, NEW v, \A q \in Img!Pixels(w, h) : v[q] \in Int
  PROVE  /\ \A x \in 0 .. w : Sum(v, Above(w, h, x, 0)) = 0
         /\ \A y \in 0 .. h : Sum(v, Above(w, h, 0, y)) = 0
         /\ \A x \in 0 .. w, y \in 0 .. h - 1 :
              Sum(v, Above(w, h, x, y + 1)) = Sum(v, Above(w, h, x, y)) + Sum(v, Left(w, h, x, y))
<1>1. \A x \in 0 .. w : Above(w, h, x, 0) = {}
  BY DEF Above, Img!Pixels
<1>2. \A y \in 0 .. h : Above(w, h, 0, y) = {}
  BY DEF Above, Img!Pixels
<1>3. ASSUME NEW x \in 0 .. w, NEW y \in 0 .. h - 1
      PROVE  Sum(v, Above(w, h, x, y + 1)) = Sum(v, Above(w, h, x, y)) + Sum(v, Left(w, h, x, y))
  <2> DEFINE S == Above(w, h, x, y)
             T == Left(w, h, x, y)
  <2>1. Above(w, h, x, y + 1) = S \cup T /\ S \cap T = {}
    BY DEF Above, Left, Img!Pixels
  <2>2. S \in SUBSET Img!Pixels(w, h) /\ T \in SUBSET Img!Pixels(w, h)
    BY DEF Above, Left
  <2> HIDE DEF S, T
  <2>3. IsFiniteSet(S) /\ IsFiniteSet(T) /\ \A q \in S \cup T : v[q] \in Int
    BY <2>2, PartIsFinite
  <2>4. Sum(v, S \cup T) = Sum(v, S) + Sum(v, T)
    BY <2>1, <2>3, SumUnion
  <2> QED BY <2>1, <2>4 DEF S, T
<1> QED BY <1>1, <1>2, <1>3, SumEmpty

\* A row's running sum is the sum of the pixels to the left,
LEMMA RowIs ==
  ASSUME NEW w \in Nat, NEW h \in Nat, NEW v, \A q \in Img!Pixels(w, h) : v[q] \in Int
  PROVE  LET row == CHOOSE r : RowOf(w, h, v, r)
         IN  \A x \in 0 .. w, y \in 0 .. h - 1 : row[<<x, y>>] = Sum(v, Left(w, h, x, y))
<1> DEFINE row == CHOOSE r : RowOf(w, h, v, r)
           sums == [p \in (0 .. w) \X (0 .. h - 1) |-> Sum(v, Left(w, h, p[1], p[2]))]
<1>1. RowOf(w, h, v, sums)
  <2> SUFFICES ASSUME NEW x \in 0 .. w, NEW y \in 0 .. h - 1
               PROVE  Sum(v, Left(w, h, x, y)) = IF x = 0 THEN 0 ELSE sums[<<x - 1, y>>] + v[<<x - 1, y>>]
    BY DEF RowOf
  <2>1. CASE x = 0
    BY <2>1, LeftGrows
  <2>2. CASE x # 0
    <3>1. x - 1 \in 0 .. w - 1 /\ (x - 1) + 1 = x /\ x - 1 \in 0 .. w
      BY <2>2
    <3>2. sums[<<x - 1, y>>] = Sum(v, Left(w, h, x - 1, y))
      BY <3>1
    <3> HIDE DEF sums
    <3> QED BY <2>2, <3>1, <3>2, LeftGrows
  <2> QED BY <2>1, <2>2
<1>2. RowOf(w, h, v, row)
  <2> HIDE DEF sums
  <2> QED BY <1>1
<1> HIDE DEF row
<1> SUFFICES ASSUME NEW y \in 0 .. h - 1
             PROVE  \A x \in 0 .. w : row[<<x, y>>] = Sum(v, Left(w, h, x, y))
  BY DEF row
<1> DEFINE T == {x \in Nat : x <= w => row[<<x, y>>] = Sum(v, Left(w, h, x, y))}
<1>3. \A x \in 0 .. w : row[<<x, y>>] = IF x = 0 THEN 0 ELSE row[<<x - 1, y>>] + v[<<x - 1, y>>]
  BY <1>2 DEF RowOf
<1>4. 0 \in T
  <2>1. 0 \in 0 .. w
    OBVIOUS
  <2> QED BY <1>3, <2>1, LeftGrows
<1>5. ASSUME NEW x \in T PROVE x + 1 \in T
  <2> SUFFICES ASSUME x + 1 <= w PROVE row[<<x + 1, y>>] = Sum(v, Left(w, h, x + 1, y))
    OBVIOUS
  <2>1. x \in 0 .. w - 1 /\ x + 1 \in 0 .. w /\ (x + 1) - 1 = x /\ x + 1 # 0
    OBVIOUS
  <2>2. row[<<x, y>>] = Sum(v, Left(w, h, x, y))
    BY <2>1
  <2> HIDE DEF T
  <2>3. row[<<x + 1, y>>] = row[<<x, y>>] + v[<<x, y>>]
    BY <1>3, <2>1
  <2> QED BY <2>1, <2>2, <2>3, LeftGrows
<1>6. T = Nat
  <2> HIDE DEF T
  <2>1. T \in SUBSET Nat
    BY DEF T
  <2> QED BY <1>4, <1>5, <2>1, Induction
<1> QED BY <1>6

\* and an entry of the table that of the pixels above and to the left.
LEMMA IntegralIs ==
  ASSUME NEW w \in Nat, NEW h \in Nat, NEW v, \A q \in Img!Pixels(w, h) : v[q] \in Int
  PROVE  \A x \in 0 .. w, y \in 0 .. h : Img!Integral(w, h, v)[<<x, y>>] = Sum(v, Above(w, h, x, y))
<1> DEFINE row == CHOOSE r : RowOf(w, h, v, r)
           table == CHOOSE f : TableOf(w, h, row, f)
           sums == [p \in (0 .. w) \X (0 .. h) |-> Sum(v, Above(w, h, p[1], p[2]))]
<1>1. Img!Integral(w, h, v) = table
  BY IntegralIsATable
<1>2. \A x \in 0 .. w, y \in 0 .. h - 1 : row[<<x, y>>] = Sum(v, Left(w, h, x, y))
  BY RowIs
<1> HIDE DEF row
<1>3. TableOf(w, h, row, sums)
  <2> SUFFICES ASSUME NEW x \in 0 .. w, NEW y \in 0 .. h
               PROVE  Sum(v, Above(w, h, x, y))
                        = IF x = 0 \/ y = 0 THEN 0 ELSE sums[<<x, y - 1>>] + row[<<x, y - 1>>]
    BY DEF TableOf
  <2>1. CASE x = 0 \/ y = 0
    <3>1. Sum(v, Above(w, h, x, 0)) = 0 /\ Sum(v, Above(w, h, 0, y)) = 0
      BY AboveGrows
    <3> HIDE DEF sums
    <3> QED BY <2>1, <3>1
  <2>2. CASE x # 0 /\ y # 0
    <3>1. y - 1 \in 0 .. h - 1 /\ (y - 1) + 1 = y /\ y - 1 \in 0 .. h
      BY <2>2
    <3>2. sums[<<x, y - 1>>] = Sum(v, Above(w, h, x, y - 1))
      BY <3>1
    <3>3. row[<<x, y - 1>>] = Sum(v, Left(w, h, x, y - 1))
      BY <1>2, <3>1
    <3> HIDE DEF sums
    <3> QED BY <2>2, <3>1, <3>2, <3>3, AboveGrows
  <2> QED BY <2>1, <2>2
<1>4. TableOf(w, h, row, table)
  <2> HIDE DEF sums
  <2> QED BY <1>3
<1> HIDE DEF table
<1> SUFFICES ASSUME NEW x \in 0 .. w
             PROVE  \A y \in 0 .. h : table[<<x, y>>] = Sum(v, Above(w, h, x, y))
  BY <1>1
<1> DEFINE T == {y \in Nat : y <= h => table[<<x, y>>] = Sum(v, Above(w, h, x, y))}
<1>5. \A y \in 0 .. h :
        table[<<x, y>>] = IF x = 0 \/ y = 0 THEN 0 ELSE table[<<x, y - 1>>] + row[<<x, y - 1>>]
  BY <1>4 DEF TableOf
<1>6. 0 \in T
  <2>1. 0 \in 0 .. h
    OBVIOUS
  <2> QED BY <1>5, <2>1, AboveGrows
<1>7. ASSUME NEW y \in T PROVE y + 1 \in T
  <2> SUFFICES ASSUME y + 1 <= h PROVE table[<<x, y + 1>>] = Sum(v, Above(w, h, x, y + 1))
    OBVIOUS
  <2>1. y \in 0 .. h - 1 /\ y + 1 \in 0 .. h /\ (y + 1) - 1 = y /\ y + 1 # 0
    OBVIOUS
  <2>2. table[<<x, y>>] = Sum(v, Above(w, h, x, y))
    BY <2>1
  <2> HIDE DEF T
  <2>3. table[<<x, y + 1>>] = IF x = 0 THEN 0 ELSE table[<<x, y>>] + row[<<x, y>>]
    BY <1>5, <2>1
  <2>4. CASE x = 0
    <3>1. Sum(v, Above(w, h, 0, y + 1)) = 0
      BY <2>1, AboveGrows
    <3> QED BY <2>3, <2>4, <3>1
  <2>5. CASE x # 0
    <3>1. row[<<x, y>>] = Sum(v, Left(w, h, x, y))
      BY <1>2, <2>1
    <3>2. Sum(v, Above(w, h, x, y + 1)) = Sum(v, Above(w, h, x, y)) + Sum(v, Left(w, h, x, y))
      BY <2>1, AboveGrows
    <3> QED BY <2>2, <2>3, <2>5, <3>1, <3>2
  <2> QED BY <2>4, <2>5
<1>8. T = Nat
  <2> HIDE DEF T
  <2>1. T \in SUBSET Nat
    BY DEF T
  <2> QED BY <1>6, <1>7, <2>1, Induction
<1> QED BY <1>8

Rectangle(x0, y0, x1, y1) == (x0 .. x1) \X (y0 .. y1)
\* So four entries give the sum of a rectangle.
LEMMA RegionIs ==
  ASSUME NEW w \in Nat, NEW h \in Nat, NEW v, \A q \in Img!Pixels(w, h) : v[q] \in Int,
         NEW x0 \in Nat, NEW x1 \in 0 .. w - 1, NEW y0 \in Nat, NEW y1 \in 0 .. h - 1, x0 <= x1, y0 <= y1
  PROVE  Img!RegionSum(Img!Integral(w, h, v), x0, y0, x1, y1) = Sum(v, Rectangle(x0, y0, x1, y1))
<1> DEFINE A(x, y) == Above(w, h, x, y)
           P == A(x0, y0)
           Q == (x0 .. x1) \X (0 .. y0 - 1)
           R == (0 .. x0 - 1) \X (y0 .. y1)
           C == Rectangle(x0, y0, x1, y1)
           all == Img!Pixels(w, h)
<1>1. /\ A(x1 + 1, y1 + 1) = ((P \cup Q) \cup R) \cup C /\ A(x1 + 1, y0) = P \cup Q /\ A(x0, y1 + 1) = P \cup R
      /\ P \cap Q = {} /\ P \cap R = {} /\ (P \cup Q) \cap R = {} /\ ((P \cup Q) \cup R) \cap C = {}
      /\ P \in SUBSET all /\ Q \in SUBSET all /\ R \in SUBSET all /\ C \in SUBSET all
  BY DEF Above, Img!Pixels, Rectangle
<1>2. /\ Img!Integral(w, h, v)[<<x1 + 1, y1 + 1>>] = Sum(v, A(x1 + 1, y1 + 1))
      /\ Img!Integral(w, h, v)[<<x1 + 1, y0>>] = Sum(v, A(x1 + 1, y0))
      /\ Img!Integral(w, h, v)[<<x0, y1 + 1>>] = Sum(v, A(x0, y1 + 1))
      /\ Img!Integral(w, h, v)[<<x0, y0>>] = Sum(v, P)
  BY IntegralIs
<1> HIDE DEF P, Q, R, C, A
<1>3. \A S \in SUBSET all : IsFiniteSet(S) /\ (\A q \in S : v[q] \in Int) /\ Sum(v, S) \in Int
  BY PartIsFinite
<1> HIDE DEF all
<1>4. \A S, T \in SUBSET all : S \cap T = {} => Sum(v, S \cup T) = Sum(v, S) + Sum(v, T)
  <2> TAKE S, T \in SUBSET all
  <2> HAVE S \cap T = {}
  <2>1. \A q \in S \cup T : v[q] \in Int
    BY <1>3
  <2> QED BY <1>3, <2>1, SumUnion
<1>5. Sum(v, P \cup Q) = Sum(v, P) + Sum(v, Q) /\ Sum(v, P \cup R) = Sum(v, P) + Sum(v, R)
  BY <1>1, <1>4
<1>6. Sum(v, (P \cup Q) \cup R) = Sum(v, P \cup Q) + Sum(v, R)
  BY <1>1, <1>4
<1>7. Sum(v, ((P \cup Q) \cup R) \cup C) = Sum(v, (P \cup Q) \cup R) + Sum(v, C)
  BY <1>1, <1>4
<1>8. Sum(v, P) \in Int /\ Sum(v, Q) \in Int /\ Sum(v, R) \in Int /\ Sum(v, C) \in Int
  BY <1>1, <1>3
<1>9. Img!RegionSum(Img!Integral(w, h, v), x0, y0, x1, y1)
        = Sum(v, A(x1 + 1, y1 + 1)) + Sum(v, P) - Sum(v, A(x1 + 1, y0)) - Sum(v, A(x0, y1 + 1))
  BY <1>2 DEF Img!RegionSum
<1>10. Img!RegionSum(Img!Integral(w, h, v), x0, y0, x1, y1) = Sum(v, C)
  <2> DEFINE sp == Sum(v, P)
             sq == Sum(v, Q)
             sr == Sum(v, R)
             sc == Sum(v, C)
             region == Img!RegionSum(Img!Integral(w, h, v), x0, y0, x1, y1)
  <2>1. Sum(v, A(x1 + 1, y1 + 1)) = ((sp + sq) + sr) + sc
    BY <1>1, <1>5, <1>6, <1>7
  <2>2. Sum(v, A(x1 + 1, y0)) = sp + sq /\ Sum(v, A(x0, y1 + 1)) = sp + sr
    BY <1>1, <1>5
  <2>3. region = (((sp + sq) + sr) + sc) + sp - (sp + sq) - (sp + sr)
    BY <1>9, <2>1, <2>2
  <2>4. sp \in Int /\ sq \in Int /\ sr \in Int /\ sc \in Int
    BY <1>8
  <2> HIDE DEF sp, sq, sr, sc, region
  <2>5. region = sc
    BY <2>3, <2>4
  <2> QED BY <2>5 DEF region, sc
<1> QED BY <1>10 DEF C

\* The number of integers in an interval.
LEMMA IntervalSize ==
  ASSUME NEW a \in Int, NEW b \in Int, a <= b
  PROVE  IsFiniteSet(a .. b) /\ Cardinality(a .. b) = b - a + 1
BY FS_Interval

\* The squared grays can be summed too.
LEMMA SquaresAreNumbers ==
  ASSUME NEW image, IsGray(image)
  PROVE  \A q \in Img!Pixels(image.w, image.h) : Img!Squares(image)[q] \in Int
BY GrayPixels DEF Img!Squares

\* Ink is where Sauvola's formula over every pixel's own neighbourhood puts it:
\* the integral images and the clipped windows change nothing (binarize_sauvola,
\* integral_images, region_sum).
THEOREM SauvolaIsItsDefinition ==
  ASSUME NEW image, IsGray(image), NEW prm, prm.window \in Nat
  PROVE  Img!SauvolaMatchesReference(image, prm)
<1> DEFINE w == image.w
           h == image.h
           r == prm.window \div 2
           near(at) == {q \in DOMAIN image.px : at[1] - q[1] \in -r .. r /\ at[2] - q[2] \in -r .. r}
           sums == Img!Integral(image.w, image.h, image.px)
           squares == Img!Integral(image.w, image.h, Img!Squares(image))
<1>1. w \in Nat \ {0} /\ h \in Nat \ {0} /\ r \in Nat /\ DOMAIN image.px = Img!Pixels(w, h)
  <2>1. r \in Nat
    BY Quotient
  <2> QED BY <2>1 DEF IsGray, IsImage
<1>2. \A q \in Img!Pixels(w, h) : image.px[q] \in Int /\ Img!Squares(image)[q] \in Int
  BY GrayPixels, SquaresAreNumbers
<1> SUFFICES ASSUME NEW at \in DOMAIN image.px
             PROVE  Img!Sauvola(image, prm).px[at]
                      = Img!IsInk(image.px[at], Sum(image.px, near(at)), Sum(Img!Squares(image), near(at)),
                                  Cardinality(near(at)), prm)
  BY SameSize DEF Img!SauvolaMatchesReference, Sum
<1> DEFINE win == Img!Window(image, at[1], at[2], r)
           N == Rectangle(win.x0, win.y0, win.x1, win.y1)
<1>3. at[1] \in 0 .. w - 1 /\ at[2] \in 0 .. h - 1
  BY <1>1 DEF Img!Pixels
<1>4. Img!Sauvola(image, prm).px[at]
        = Img!IsInk(image.px[at],
                    Img!RegionSum(sums, win.x0, win.y0, win.x1, win.y1),
                    Img!RegionSum(squares, win.x0, win.y0, win.x1, win.y1), Img!Count(win), prm)
  BY DEF Img!Sauvola
<1> HIDE DEF r
<1>5. /\ win.x0 \in Nat /\ win.y0 \in Nat /\ win.x1 \in 0 .. w - 1 /\ win.y1 \in 0 .. h - 1
      /\ win.x0 <= win.x1 /\ win.y0 <= win.y1
  BY <1>1, <1>3 DEF Img!Window, Img!Most, Img!Least
<1>6. near(at) = N
  <2>1. \A a \in 0 .. w - 1 : at[1] - a \in -r .. r <=> a \in win.x0 .. win.x1
    BY <1>1, <1>3 DEF Img!Window, Img!Most, Img!Least
  <2>2. \A b \in 0 .. h - 1 : at[2] - b \in -r .. r <=> b \in win.y0 .. win.y1
    BY <1>1, <1>3 DEF Img!Window, Img!Most, Img!Least
  <2> HIDE DEF win, w, h
  <2>3. N \subseteq Img!Pixels(w, h)
    BY <1>1, <1>5 DEF Img!Pixels, Rectangle
  <2> QED BY <1>1, <2>1, <2>2, <2>3 DEF Img!Pixels, Rectangle
<1> HIDE DEF near
<1>7. Img!Count(win) = Cardinality(N)
  <2> DEFINE dx == win.x1 - win.x0 + 1
             dy == win.y1 - win.y0 + 1
             X == win.x0 .. win.x1
             Y == win.y0 .. win.y1
  <2>1. IsFiniteSet(X) /\ IsFiniteSet(Y) /\ Cardinality(X) = dx /\ Cardinality(Y) = dy
    <3> HIDE DEF win
    <3>1. win.x0 \in Int /\ win.x1 \in Int /\ win.y0 \in Int /\ win.y1 \in Int
      BY <1>1, <1>5
    <3> QED BY <1>5, <3>1, IntervalSize
  <2>2. Img!Count(win) = dx * dy
    BY DEF Img!Count
  <2> HIDE DEF X, Y, dx, dy
  <2>3. Cardinality(X \X Y) = Cardinality(X) * Cardinality(Y)
    BY <2>1, FS_Product
  <2> QED BY <2>1, <2>2, <2>3 DEF Rectangle, X, Y
<1> HIDE DEF win
<1>8. \A v : (\A q \in Img!Pixels(w, h) : v[q] \in Int) =>
        Img!RegionSum(Img!Integral(w, h, v), win.x0, win.y0, win.x1, win.y1) = Sum(v, N)
  <2> HIDE DEF w, h
  <2>1. w \in Nat /\ h \in Nat
    BY <1>1
  <2> QED BY <1>5, <2>1, RegionIs
<1>9. /\ Img!RegionSum(sums, win.x0, win.y0, win.x1, win.y1) = Sum(image.px, N)
      /\ Img!RegionSum(squares, win.x0, win.y0, win.x1, win.y1) = Sum(Img!Squares(image), N)
  <2>1. \A q \in Img!Pixels(w, h) : image.px[q] \in Int
    BY <1>2
  <2>2. \A q \in Img!Pixels(w, h) : Img!Squares(image)[q] \in Int
    BY <1>2
  <2> QED BY <1>8, <2>1, <2>2
<1> QED BY <1>4, <1>6, <1>7, <1>9

\* The thresholds are those of their definitions for every gray page, every
\* window and every contrast the settings accept.
THEOREM ThresholdsAreRightCorrect == ProbeSpec => []ThresholdsAreRight
<1>1. ProbeOK => ThresholdsAreRight
  <2> SUFFICES ASSUME ProbeOK PROVE ThresholdsAreRight
    OBVIOUS
  <2>1. ASSUME probe.of = "contrast" PROVE Img!ContrastKeepsOrder(probe.in)
    <3>1. probe.in \in -4 .. 4
      BY <2>1, ThresholdsAssumption DEF ProbeOK
    <3> QED BY <3>1, ContrastIsAStretch
  <2>2. ASSUME probe.of = "otsu" PROVE Img!OtsuIsBest(probe.in)
    <3>1. IsGray(probe.in)
      BY <2>2, ThresholdsAssumption DEF ProbeOK, IsGray
    <3> QED BY <3>1, OtsuThresholdIsBest
  <2>3. ASSUME probe.of = "sauvola" PROVE Img!SauvolaMatchesReference(probe.in[1], probe.in[2])
    <3>1. probe.in[1] \in SauvolaImages /\ probe.in[2] \in SauvolaParams
      BY <2>3 DEF ProbeOK
    <3>2. IsGray(probe.in[1]) /\ probe.in[2].window \in Nat
      BY <3>1, ThresholdsAssumption DEF IsGray
    <3> QED BY <3>2, SauvolaIsItsDefinition
  <2> QED BY <2>1, <2>2, <2>3 DEF ThresholdsAreRight
<1> QED BY <1>1, ProbesAreInputs, PTL

-----------------------------------------------------------------------------
(* Packing.  A byte is the sum of the weights of its black pixels, at most  *)
(* one of each weight, so that each of them can be read back.               *)
IsMask(mask) == IsImage(mask, BOOLEAN)

\* Every pixel of a row has its byte.
LEMMA StrideIs ==
  ASSUME NEW w \in Nat \ {0}
  PROVE  /\ Img!Stride(w) \in Nat \ {0}
         /\ \A x \in 0 .. w - 1 : x \div 8 \in 0 .. Img!Stride(w) - 1
BY DEF Img!Stride

\* Row and byte can be read off the index of a byte.
LEMMA PlaceIs ==
  ASSUME NEW n \in Nat \ {0}, NEW c \in 0 .. n - 1, NEW y \in Nat
  PROVE  (y * n + c) % n = c /\ (y * n + c) \div n = y /\ y * n + c \in Nat
<1> DEFINE k == y * n + c
<1>1. y * n \in Nat /\ k \in Nat /\ n * y = y * n
  OBVIOUS
<1>2. k \div n = y
  <2>1. n * y <= k /\ k < n * y + n
    BY <1>1
  <2> HIDE DEF k
  <2> QED BY <1>1, <2>1, QuotientIs
<1>3. k % n = k - n * (k \div n)
  <2> HIDE DEF k
  <2> QED BY <1>1
<1> QED BY <1>1, <1>2, <1>3

\* The weights of the eight bits of a byte.
LEMMA WeightsAre ==
  ASSUME NEW c \in Nat
  PROVE  /\ Img!BitWeight(8 * c) = 128 /\ Img!BitWeight(8 * c + 1) = 64 /\ Img!BitWeight(8 * c + 2) = 32
         /\ Img!BitWeight(8 * c + 3) = 16 /\ Img!BitWeight(8 * c + 4) = 8 /\ Img!BitWeight(8 * c + 5) = 4
         /\ Img!BitWeight(8 * c + 6) = 2 /\ Img!BitWeight(8 * c + 7) = 1
<1>1. \A j \in 0 .. 7 : (8 * c + j) % 8 = j
  OBVIOUS
<1>2. \A j \in 0 .. 7 : Img!BitWeight(8 * c + j) = <<128, 64, 32, 16, 8, 4, 2, 1>>[j + 1]
  BY <1>1 DEF Img!BitWeight
<1>3. 8 * c + 0 = 8 * c
  OBVIOUS
<1> QED BY <1>2, <1>3

\* The sum over eight numbers in a row.
LEMMA SumOfEight ==
  ASSUME NEW a \in Int, NEW f, \A x \in a .. a + 7 : f[x] \in Int
  PROVE  Sum(f, a .. a + 7) = f[a] + f[a + 1] + f[a + 2] + f[a + 3] + f[a + 4] + f[a + 5] + f[a + 6] + f[a + 7]
<1>1. \A i \in 0 .. 6 : Sum(f, a .. a + i + 1) = Sum(f, a .. a + i) + f[a + i + 1] /\ Sum(f, a .. a + i) \in Int
  <2> TAKE i \in 0 .. 6
  <2> DEFINE S == a .. a + i
             e == a + i + 1
  <2>1. e \notin S /\ S \cup {e} = a .. a + i + 1 /\ f[e] \in Int /\ \A x \in S : f[x] \in Int
    OBVIOUS
  <2>2. IsFiniteSet(S)
    BY FS_Interval
  <2> HIDE DEF S, e
  <2>3. Sum(f, S) \in Int
    BY <2>1, <2>2, SumType
  <2>4. Sum(f, S \cup {e}) = f[e] + Sum(f, S)
    BY <2>1, <2>2, SumInsert
  <2>5. f[e] + Sum(f, S) = Sum(f, S) + f[e]
    BY <2>1, <2>3
  <2> QED BY <2>1, <2>3, <2>4, <2>5 DEF S, e
<1>2. Sum(f, a .. a) = f[a]
  <2>1. a .. a = {} \cup {a} /\ f[a] \in Int
    OBVIOUS
  <2>2. Sum(f, {} \cup {a}) = f[a] + Sum(f, {})
    BY <2>1, SumInsert, FS_EmptySet
  <2> QED BY <2>1, <2>2, SumEmpty
<1> DEFINE s(i) == Sum(f, a .. a + i)
<1>3. s(0) = f[a] /\ s(1) = s(0) + f[a + 1] /\ s(2) = s(1) + f[a + 2] /\ s(3) = s(2) + f[a + 3]
      /\ s(4) = s(3) + f[a + 4] /\ s(5) = s(4) + f[a + 5] /\ s(6) = s(5) + f[a + 6] /\ s(7) = s(6) + f[a + 7]
  <2>1. a + 0 = a /\ a + 0 + 1 = a + 1 /\ a + 1 + 1 = a + 2 /\ a + 2 + 1 = a + 3 /\ a + 3 + 1 = a + 4
        /\ a + 4 + 1 = a + 5 /\ a + 5 + 1 = a + 6 /\ a + 6 + 1 = a + 7
    OBVIOUS
  <2> QED BY <1>1, <1>2, <2>1
<1> QED BY <1>3

\* Adding what counts nothing.
LEMMA SumZero ==
  ASSUME NEW S, IsFiniteSet(S), NEW f, \A x \in S : f[x] = 0
  PROVE  Sum(f, S) = 0
<1>1. Sum(f, S) = 0 * Cardinality(S)
  BY SumConstant
<1> QED BY <1>1, FS_CardinalityType

\* A byte holds exactly the bits that were set in it.
LEMMA ByteIs ==
  ASSUME NEW c \in Nat, NEW B \in SUBSET (8 * c .. 8 * c + 7), NEW v,
         \A x \in B : v[x] = Img!BitWeight(x)
  PROVE  \A x \in 8 * c .. 8 * c + 7 : (Sum(v, B) \div Img!BitWeight(x)) % 2 = 1 <=> x \in B
<1> DEFINE a == 8 * c
           Byte == a .. a + 7
           bit(x) == IF x \in B THEN 1 ELSE 0
           g == [x \in Byte |-> IF x \in B THEN Img!BitWeight(x) ELSE 0]
<1>1. a \in Int /\ IsFiniteSet(Byte) /\ IsFiniteSet(B) /\ IsFiniteSet(Byte \ B)
  <2>1. a \in Int
    OBVIOUS
  <2>2. IsFiniteSet(Byte)
    BY <2>1, FS_Interval
  <2> QED BY <2>1, <2>2, FS_Subset
<1>2. \A x \in Byte : x = a \/ x = a + 1 \/ x = a + 2 \/ x = a + 3 \/ x = a + 4 \/ x = a + 5 \/ x = a + 6 \/ x = a + 7
  OBVIOUS
<1>3. \A x \in Byte : Img!BitWeight(x) \in Int
  BY <1>2, WeightsAre
<1>4. Sum(v, B) = Sum(g, Byte)
  <2>1. \A x \in B : v[x] \in Int /\ v[x] = g[x]
    BY <1>3
  <2>2. Sum(v, B) = Sum(g, B)
    BY <1>1, <2>1, SumSame
  <2>3. \A x \in Byte \ B : g[x] = 0
    OBVIOUS
  <2>4. \A x \in B \cup (Byte \ B) : g[x] \in Int
    BY <1>3
  <2>5. B \cup (Byte \ B) = Byte /\ B \cap (Byte \ B) = {} /\ \A x \in B : g[x] \in Int
    BY <2>4
  <2> HIDE DEF Byte, g
  <2>6. Sum(g, B \cup (Byte \ B)) = Sum(g, B) + Sum(g, Byte \ B)
    BY <1>1, <2>4, <2>5, SumUnion
  <2>7. Sum(g, Byte \ B) = 0 /\ Sum(g, B) \in Int
    BY <1>1, <2>3, <2>5, SumZero, SumType
  <2> DEFINE p == Sum(g, B)
  <2>8. p \in Int /\ Sum(g, Byte) = p + 0
    BY <2>5, <2>6, <2>7
  <2> HIDE DEF p
  <2>9. Sum(g, Byte) = p
    BY <2>8
  <2> QED BY <2>2, <2>9 DEF p
<1>5. Sum(g, Byte) = g[a] + g[a + 1] + g[a + 2] + g[a + 3] + g[a + 4] + g[a + 5] + g[a + 6] + g[a + 7]
  <2>1. \A x \in Byte : g[x] \in Int
    BY <1>3
  <2> HIDE DEF g
  <2> QED BY <1>1, <2>1, SumOfEight
<1>6. /\ g[a] = 128 * bit(a) /\ g[a + 1] = 64 * bit(a + 1) /\ g[a + 2] = 32 * bit(a + 2)
      /\ g[a + 3] = 16 * bit(a + 3) /\ g[a + 4] = 8 * bit(a + 4) /\ g[a + 5] = 4 * bit(a + 5)
      /\ g[a + 6] = 2 * bit(a + 6) /\ g[a + 7] = bit(a + 7)
  BY WeightsAre
<1>7. \A x : bit(x) \in {0, 1} /\ (bit(x) = 1 <=> x \in B)
  OBVIOUS
<1> DEFINE n == Sum(v, B)
<1>8. n = 128 * bit(a) + 64 * bit(a + 1) + 32 * bit(a + 2) + 16 * bit(a + 3)
            + 8 * bit(a + 4) + 4 * bit(a + 5) + 2 * bit(a + 6) + bit(a + 7)
  <2> HIDE DEF g, bit
  <2> QED BY <1>4, <1>5, <1>6
<1> HIDE DEF bit, n
<1>9. /\ (n \div 128) % 2 = bit(a) /\ (n \div 64) % 2 = bit(a + 1) /\ (n \div 32) % 2 = bit(a + 2)
      /\ (n \div 16) % 2 = bit(a + 3) /\ (n \div 8) % 2 = bit(a + 4) /\ (n \div 4) % 2 = bit(a + 5)
      /\ (n \div 2) % 2 = bit(a + 6) /\ (n \div 1) % 2 = bit(a + 7)
  <2>1. /\ bit(a) \in {0, 1} /\ bit(a + 1) \in {0, 1} /\ bit(a + 2) \in {0, 1} /\ bit(a + 3) \in {0, 1}
        /\ bit(a + 4) \in {0, 1} /\ bit(a + 5) \in {0, 1} /\ bit(a + 6) \in {0, 1} /\ bit(a + 7) \in {0, 1}
    BY <1>7
  <2> DEFINE b0 == bit(a)  b1 == bit(a + 1)  b2 == bit(a + 2)  b3 == bit(a + 3)
             b4 == bit(a + 4)  b5 == bit(a + 5)  b6 == bit(a + 6)  b7 == bit(a + 7)
  <2>2. /\ b0 \in {0, 1} /\ b1 \in {0, 1} /\ b2 \in {0, 1} /\ b3 \in {0, 1}
        /\ b4 \in {0, 1} /\ b5 \in {0, 1} /\ b6 \in {0, 1} /\ b7 \in {0, 1}
        /\ n = 128 * b0 + 64 * b1 + 32 * b2 + 16 * b3 + 8 * b4 + 4 * b5 + 2 * b6 + b7
    BY <1>8, <2>1
  <2> HIDE DEF b0, b1, b2, b3, b4, b5, b6, b7
  <2>3. n \in 0 .. 255
    BY <2>2
  <2>4. /\ n \div 128 = b0 /\ n \div 64 = 2 * b0 + b1 /\ n \div 32 = 4 * b0 + 2 * b1 + b2
        /\ n \div 16 = 8 * b0 + 4 * b1 + 2 * b2 + b3 /\ n \div 8 = 16 * b0 + 8 * b1 + 4 * b2 + 2 * b3 + b4
    BY <2>2, <2>3
  <2>5. /\ n \div 4 = 32 * b0 + 16 * b1 + 8 * b2 + 4 * b3 + 2 * b4 + b5
        /\ n \div 2 = 64 * b0 + 32 * b1 + 16 * b2 + 8 * b3 + 4 * b4 + 2 * b5 + b6
        /\ n \div 1 = n
    BY <2>2, <2>3
  <2>6. /\ (n \div 128) % 2 = b0 /\ (n \div 64) % 2 = b1 /\ (n \div 32) % 2 = b2 /\ (n \div 16) % 2 = b3
        /\ (n \div 8) % 2 = b4 /\ (n \div 4) % 2 = b5 /\ (n \div 2) % 2 = b6 /\ (n \div 1) % 2 = b7
    BY <2>2, <2>4, <2>5
  <2> QED BY <2>6 DEF b0, b1, b2, b3, b4, b5, b6, b7
<1>10. \A x \in Byte : (n \div Img!BitWeight(x)) % 2 = bit(x)
  BY <1>2, <1>9, WeightsAre
<1> QED BY <1>7, <1>10 DEF n

\* A packed mask gives back every pixel,
LEMMA PackKeepsPixels ==
  ASSUME NEW mask, IsMask(mask)
  PROVE  /\ Img!Pack(mask).w = mask.w /\ Img!Pack(mask).h = mask.h
         /\ \A x \in 0 .. mask.w - 1, y \in 0 .. mask.h - 1 : Img!Bit(Img!Pack(mask), x, y) = mask.px[<<x, y>>]
<1> DEFINE w == mask.w
           h == mask.h
           n == Img!Stride(w)
           black(k) == {x \in 0 .. w - 1 : x \div 8 = k % n /\ mask.px[<<x, k \div n>>]}
           weights == [x \in 0 .. w - 1 |-> Img!BitWeight(x)]
           data == [k \in 1 .. n * h |-> Sum(weights, black(k - 1))]
<1>1. w \in Nat \ {0} /\ h \in Nat \ {0} /\ mask.px \in [Img!Pixels(w, h) -> BOOLEAN]
  BY DEF IsMask, IsImage
<1>2. Img!Pack(mask) = [w |-> w, h |-> h, stride |-> n, data |-> data]
  BY Zenon DEF Img!Pack, Sum
<1> SUFFICES ASSUME NEW x \in 0 .. w - 1, NEW y \in 0 .. h - 1
             PROVE  Img!Bit(Img!Pack(mask), x, y) = mask.px[<<x, y>>]
  BY <1>2
<1> DEFINE c == x \div 8
           k == y * n + c
           B == black(k)
<1> HIDE DEF n
<1>3. n \in Nat \ {0} /\ \A z \in 0 .. w - 1 : z \div 8 \in 0 .. n - 1
  BY <1>1, StrideIs DEF n
<1>4. c \in 0 .. n - 1 /\ k % n = c /\ k \div n = y /\ k \in Nat
  <2>1. c \in 0 .. n - 1 /\ y \in Nat
    BY <1>3
  <2> HIDE DEF c
  <2> QED BY <1>3, <2>1, PlaceIs
<1>5. k + 1 \in 1 .. n * h
  <2>1. y + 1 <= h /\ y \in Nat /\ n \in Nat /\ h \in Nat /\ y + 1 \in Nat
    BY <1>1, <1>3
  <2>2. n * (y + 1) <= n * h
    BY <2>1, Product
  <2>3. n * (y + 1) = y * n + n
    BY <2>1
  <2>4. n * (y + 1) \in Int /\ n * h \in Int
    BY <2>1
  <2>5. y * n \in Nat
    BY <2>1
  <2> DEFINE p == y * n
             q == n * h
             m == n * (y + 1)
  <2>6. m <= q /\ m = p + n /\ p \in Nat /\ q \in Int /\ m \in Int
    BY <2>2, <2>3, <2>4, <2>5
  <2> HIDE DEF p, q, m
  <2>7. (p + c) + 1 \in 1 .. q
    BY <1>3, <1>4, <2>6
  <2> QED BY <2>7 DEF p, q
<1>6. data[k + 1] = Sum(weights, B)
  <2>1. (k + 1) - 1 = k
    BY <1>4
  <2> HIDE DEF k, black, weights
  <2> QED BY <1>5, <2>1
<1>7. B = {z \in 0 .. w - 1 : z \div 8 = c /\ mask.px[<<z, y>>]}
  BY <1>4
<1> HIDE DEF k, black, data
<1>8. c \in Nat /\ x \in 8 * c .. 8 * c + 7
  OBVIOUS
<1>9. B \in SUBSET (8 * c .. 8 * c + 7) /\ \A z \in B : z \in 0 .. w - 1 /\ weights[z] = Img!BitWeight(z)
  <2>1. \A z \in 0 .. w - 1 : z \div 8 = c => z \in 8 * c .. 8 * c + 7
    OBVIOUS
  <2> QED BY <1>7, <2>1
<1>10. (Sum(weights, B) \div Img!BitWeight(x)) % 2 = 1 <=> x \in B
  <2> HIDE DEF weights, B, c
  <2> QED BY <1>8, <1>9, ByteIs
<1>11. x \in B <=> mask.px[<<x, y>>] = TRUE
  BY <1>7, <1>1 DEF Img!Pixels
<1>12. Img!Bit(Img!Pack(mask), x, y) <=> (data[k + 1] \div Img!BitWeight(x)) % 2 = 1
  BY <1>2 DEF Img!Bit, k
<1>13. mask.px[<<x, y>>] \in BOOLEAN
  BY <1>1 DEF Img!Pixels
<1> QED BY <1>6, <1>10, <1>11, <1>12, <1>13 DEF Img!Bit

\* and so the mask.
LEMMA UnpackRestores == ASSUME NEW mask, IsMask(mask) PROVE Img!Unpack(Img!Pack(mask)) = mask
<1> DEFINE w == mask.w
           h == mask.h
           packed == Img!Pack(mask)
           px == [at \in Img!Pixels(w, h) |-> Img!Bit(packed, at[1], at[2])]
<1>1. /\ mask.px \in [Img!Pixels(w, h) -> BOOLEAN] /\ mask = Img!Image(w, h, mask.px)
      /\ packed.w = w /\ packed.h = h
      /\ \A x \in 0 .. w - 1, y \in 0 .. h - 1 : Img!Bit(packed, x, y) = mask.px[<<x, y>>]
  BY PackKeepsPixels DEF IsMask, IsImage
<1>2. Img!Unpack(packed) = Img!Image(w, h, px)
  BY <1>1 DEF Img!Unpack
<1> HIDE DEF packed
<1>3. px = mask.px
  BY <1>1 DEF Img!Pixels
<1> QED BY <1>1, <1>2, <1>3 DEF packed

\* Packing a mask, encoding it and back lose and invent no pixel, whatever the
\* width (from_mask, to_mask, encode_g4, decode_g4).
THEOREM PackingLosesNothing == ASSUME NEW mask, IsMask(mask) PROVE Img!PackingIsLossless(mask)
<1> DEFINE w == mask.w
           h == mask.h
           packed == Img!Pack(mask)
           rows == Img!Encode(packed)
           used == SubSeq(rows, 1, Img!Least(Len(rows), h))
           px == [at \in Img!Pixels(w, h) |->
                    /\ at[2] < Len(used) /\ at[1] < Len(used[at[2] + 1])
                    /\ used[at[2] + 1][at[1] + 1]]
<1>1. /\ w \in Nat \ {0} /\ h \in Nat \ {0}
      /\ mask.px \in [Img!Pixels(w, h) -> BOOLEAN] /\ mask = Img!Image(w, h, mask.px)
      /\ packed.w = w /\ packed.h = h
      /\ \A x \in 0 .. w - 1, y \in 0 .. h - 1 : Img!Bit(packed, x, y) = mask.px[<<x, y>>]
  BY PackKeepsPixels DEF IsMask, IsImage
<1> HIDE DEF packed
<1>2. rows = [y \in 1 .. h |-> [x \in 1 .. w |-> Img!Bit(packed, x - 1, y - 1)]]
  BY <1>1 DEF Img!Encode
<1>3. rows = [y \in 1 .. h |-> [x \in 1 .. w |-> mask.px[<<x - 1, y - 1>>]]]
  BY <1>1, <1>2
<1> HIDE DEF rows
<1>4. Len(rows) = h /\ rows \in Seq([1 .. w -> BOOLEAN])
  <2>1. \A y \in 1 .. h, x \in 1 .. w : mask.px[<<x - 1, y - 1>>] \in BOOLEAN
    BY <1>1 DEF Img!Pixels
  <2>2. rows \in [1 .. h -> [1 .. w -> BOOLEAN]]
    BY <1>3, <2>1
  <2> DEFINE Row == [1 .. w -> BOOLEAN]
  <2>3. rows \in [1 .. h -> Row] /\ h \in Nat
    BY <1>1, <2>2
  <2> HIDE DEF Row
  <2>4. Len(rows) = h
    BY <2>3
  <2>5. rows \in Seq(Row)
    BY <2>3
  <2> QED BY <2>4, <2>5 DEF Row
<1>5. used = rows
  <2>1. Img!Least(Len(rows), h) = h
    BY <1>1, <1>4 DEF Img!Least
  <2> QED BY <1>1, <1>4, <2>1
<1> HIDE DEF used
<1>6. px = mask.px
  <2> SUFFICES ASSUME NEW at \in Img!Pixels(w, h) PROVE px[at] = mask.px[at]
    BY <1>1
  <2> DEFINE x == at[1]
             y == at[2]
  <2>9. x \in 0 .. w - 1 /\ y \in 0 .. h - 1 /\ at = <<x, y>>
    BY DEF Img!Pixels
  <2> HIDE DEF x, y
  <2>1. y + 1 \in 1 .. h /\ x + 1 \in 1 .. w /\ (y + 1) - 1 = y /\ (x + 1) - 1 = x
    BY <1>1, <2>9
  <2>2. used[y + 1] = [z \in 1 .. w |-> mask.px[<<z - 1, y>>]]
    BY <1>3, <1>5, <2>1
  <2>3. used[y + 1][x + 1] = mask.px[<<x, y>>] /\ Len(used[y + 1]) = w
    BY <1>1, <2>1, <2>2
  <2>4. y < Len(used) /\ x < Len(used[y + 1])
    BY <1>1, <1>4, <1>5, <2>3, <2>9
  <2>5. <<x, y>> \in Img!Pixels(w, h)
    BY <2>9
  <2>6. mask.px[<<x, y>>] \in BOOLEAN
    BY <1>1, <2>5
  <2>7. px[<<x, y>>] = (/\ y < Len(used) /\ x < Len(used[y + 1]) /\ used[y + 1][x + 1])
    BY <2>5
  <2> HIDE DEF px
  <2> QED BY <2>3, <2>4, <2>6, <2>7, <2>9
<1>7. \A k \in DOMAIN used : Len(used[k]) = w
  BY <1>1, <1>3, <1>4, <1>5
<1>8. Img!Decode(rows, w, h) = Img!Pack(Img!Image(w, h, px))
  <2>1. ~ \E k \in DOMAIN used : Len(used[k]) > w
    BY <1>1, <1>7
  <2> QED BY <2>1, Zenon DEF Img!Decode, used
<1> HIDE DEF px
<1>9. Img!Decode(rows, w, h) = packed
  BY <1>1, <1>6, <1>8 DEF packed
<1> QED BY <1>9, UnpackRestores DEF Img!PackingIsLossless, rows, packed

-----------------------------------------------------------------------------
(* Despeckling.  A component is the least closed set around a pixel; the    *)
(* flood fill finds it and the scan visits every one.                       *)
LEMMA InkIs ==
  ASSUME NEW mask, IsMask(mask)
  PROVE  /\ IsFiniteSet(Img!Ink(mask)) /\ Img!Ink(mask) \subseteq Img!Pixels(mask.w, mask.h)
         /\ DOMAIN mask.px = Img!Pixels(mask.w, mask.h)
         /\ \A at \in DOMAIN mask.px : at \in Int \X Int /\ mask.px[at] \in BOOLEAN
         /\ mask.w \in Nat \ {0} /\ mask.h \in Nat \ {0}
<1>1. mask.w \in Nat \ {0} /\ mask.h \in Nat \ {0} /\ mask.px \in [Img!Pixels(mask.w, mask.h) -> BOOLEAN]
  BY DEF IsMask, IsImage
<1>2. Img!Ink(mask) \subseteq Img!Pixels(mask.w, mask.h)
  BY <1>1 DEF Img!Ink
<1>3. IsFiniteSet(Img!Ink(mask))
  BY <1>1, <1>2, PixelsAreFinite, FS_Subset
<1>4. \A at \in Img!Pixels(mask.w, mask.h) : at \in Int \X Int
  BY DEF Img!Pixels
<1> QED BY <1>1, <1>2, <1>3, <1>4

\* The four neighbours of the flood fill are those that touch.
LEMMA NeighboursTouch ==
  ASSUME NEW q \in Int \X Int, NEW r \in Int \X Int
  PROVE  /\ r \in Img!Neighbours(q) <=> Img!Touches(q, r)
         /\ Img!Touches(q, r) <=> Img!Touches(r, q)
<1> DEFINE a == q[1]  b == q[2]  c == r[1]  d == r[2]
<1>1. a \in Int /\ b \in Int /\ c \in Int /\ d \in Int /\ q = <<a, b>> /\ r = <<c, d>>
  OBVIOUS
<1>2. /\ <<c, d>> = <<a - 1, b>> <=> c = a - 1 /\ d = b
      /\ <<c, d>> = <<a + 1, b>> <=> c = a + 1 /\ d = b
      /\ <<c, d>> = <<a, b - 1>> <=> c = a /\ d = b - 1
      /\ <<c, d>> = <<a, b + 1>> <=> c = a /\ d = b + 1
  OBVIOUS
<1>3. r \in Img!Neighbours(q) <=>
        <<c, d>> = <<a - 1, b>> \/ <<c, d>> = <<a + 1, b>> \/ <<c, d>> = <<a, b - 1>> \/ <<c, d>> = <<a, b + 1>>
  BY <1>1 DEF Img!Neighbours
<1>4. Img!Touches(q, r) <=> (a = c /\ b - d \in {-1, 1}) \/ (b = d /\ a - c \in {-1, 1})
  BY DEF Img!Touches
<1>5. Img!Touches(r, q) <=> (c = a /\ d - b \in {-1, 1}) \/ (d = b /\ c - a \in {-1, 1})
  BY DEF Img!Touches
<1> HIDE DEF a, b, c, d
<1> QED BY <1>1, <1>2, <1>3, <1>4, <1>5

\* Touching is symmetric.
LEMMA TouchesBack ==
  ASSUME NEW mask, IsMask(mask), NEW q \in Img!Ink(mask), NEW r \in Img!Ink(mask)
  PROVE  Img!Touches(q, r) <=> Img!Touches(r, q)
<1>1. q \in Int \X Int /\ r \in Int \X Int
  BY InkIs
<1> QED BY <1>1, NeighboursTouch

Part(mask, at) ==
  {q \in Img!Ink(mask) : \A S \in SUBSET Img!Ink(mask) : at \in S /\ Img!Closed(mask, S) => q \in S}
\* The component of a pixel is the least closed set that has it.
LEMMA ComponentIs ==
  ASSUME NEW mask, IsMask(mask), NEW at \in Img!Ink(mask)
  PROVE  LET C == Img!Component(mask, at)
         IN  /\ C = Part(mask, at) /\ C \subseteq Img!Ink(mask) /\ at \in C /\ Img!Closed(mask, C)
             /\ \A S \in SUBSET Img!Ink(mask) : at \in S /\ Img!Closed(mask, S) => C \subseteq S
<1> DEFINE I == Img!Ink(mask)
           P == Part(mask, at)
           Least(S) == at \in S /\ Img!Closed(mask, S) /\ \A T \in SUBSET S : at \in T /\ Img!Closed(mask, T) => T = S
<1>1. P \in SUBSET I /\ at \in P /\ \A S \in SUBSET I : at \in S /\ Img!Closed(mask, S) => P \subseteq S
  BY DEF Part
<1>2. Img!Closed(mask, P)
  BY DEF Part, Img!Closed
<1> HIDE DEF P
<1>3. Least(P)
  <2> SUFFICES ASSUME NEW T \in SUBSET P, at \in T, Img!Closed(mask, T) PROVE T = P
    BY <1>1, <1>2
  <2>1. T \in SUBSET I
    BY <1>1
  <2> QED BY <1>1, <2>1
<1>4. \A S \in SUBSET I : Least(S) => S = P
  <2> TAKE S \in SUBSET I
  <2> HAVE Least(S)
  <2>1. P \in SUBSET S
    BY <1>1
  <2> QED BY <1>1, <1>2, <2>1
<1>5. Img!Component(mask, at) = CHOOSE S \in SUBSET I : Least(S)
  BY Zenon DEF Img!Component
<1>6. Img!Component(mask, at) = P
  <2> HIDE DEF Least, I
  <2> QED BY <1>1, <1>3, <1>4, <1>5
<1> QED BY <1>1, <1>2, <1>6 DEF P

\* All pixels of a component have the same one.
LEMMA ComponentsAgree ==
  ASSUME NEW mask, IsMask(mask), NEW at \in Img!Ink(mask), NEW q \in Img!Component(mask, at)
  PROVE  q \in Img!Ink(mask) /\ Img!Component(mask, q) = Img!Component(mask, at)
<1> DEFINE I == Img!Ink(mask)
           C == Img!Component(mask, at)
           E == Img!Component(mask, q)
<1>1. /\ C \subseteq I /\ at \in C /\ Img!Closed(mask, C)
      /\ \A S \in SUBSET I : at \in S /\ Img!Closed(mask, S) => C \subseteq S
  BY ComponentIs
<1>2. q \in I /\ q \in C
  BY <1>1
<1>3. /\ E \subseteq I /\ q \in E /\ Img!Closed(mask, E)
      /\ \A S \in SUBSET I : q \in S /\ Img!Closed(mask, S) => E \subseteq S
  BY <1>2, ComponentIs
<1> HIDE DEF C, E
<1>4. E \subseteq C
  BY <1>1, <1>2, <1>3
<1>5. at \in E
  <2> SUFFICES ASSUME at \notin E PROVE FALSE
    OBVIOUS
  <2>1. Img!Closed(mask, C \ E)
    <3> SUFFICES ASSUME NEW r \in C \ E, NEW t \in I, Img!Touches(r, t), t \in E PROVE FALSE
      BY <1>1 DEF Img!Closed
    <3>1. r \in I /\ Img!Touches(t, r)
      BY <1>1, TouchesBack
    <3> QED BY <1>3, <3>1 DEF Img!Closed
  <2>2. C \ E \in SUBSET I /\ at \in C \ E
    BY <1>1
  <2>3. C \subseteq C \ E
    BY <1>1, <2>1, <2>2
  <2> QED BY <1>2, <1>3, <2>3
<1>6. C \subseteq E
  BY <1>1, <1>3, <1>5
<1> QED BY <1>2, <1>4, <1>6 DEF C, E

-----------------------------------------------------------------------------
Fills(mask) == (SUBSET Img!Ink(mask)) \X (SUBSET Img!Ink(mask))
New(mask, p) == (Img!Neighbours(AnyOf(p[2])) \cap Img!Ink(mask)) \ p[1]
Push(mask, p) == <<p[1] \cup New(mask, p), (p[2] \ {AnyOf(p[2])}) \cup New(mask, p)>>
FillOf(mask, fill) == fill = [p \in Fills(mask) |-> IF p[2] = {} THEN p[1] ELSE fill[Push(mask, p)]]
ToFill(mask) == [p \in Fills(mask) |-> 2 * Cardinality(Img!Ink(mask) \ p[1]) + Cardinality(p[2])]

\* A flood fill is the recursion on what is visited and what is stacked,
LEMMA FillIsOne ==
  ASSUME NEW mask, NEW visited, NEW stack
  PROVE  Img!Fill(mask, visited, stack) = (CHOOSE fill : FillOf(mask, fill))[<<visited, stack>>]
BY Zenon DEF Img!Fill, FillOf, Fills, Push, New, AnyOf

\* every step of which leaves less to do,
LEMMA FillsLess ==
  ASSUME NEW mask, IsMask(mask)
  PROVE  /\ ToFill(mask) \in [Fills(mask) -> Nat]
         /\ \A p \in Fills(mask) :
              p[2] # {} => Push(mask, p) \in Fills(mask) /\ ToFill(mask)[Push(mask, p)] < ToFill(mask)[p]
<1> DEFINE I == Img!Ink(mask)
<1>1. \A S \in SUBSET I : IsFiniteSet(S) /\ Cardinality(S) \in Nat
  BY InkIs, FS_Subset, FS_CardinalityType
<1>2. ASSUME NEW p \in Fills(mask) PROVE 2 * Cardinality(I \ p[1]) + Cardinality(p[2]) \in Nat
  <2>1. I \ p[1] \in SUBSET I /\ p[2] \in SUBSET I
    BY DEF Fills
  <2>2. Cardinality(I \ p[1]) \in Nat /\ Cardinality(p[2]) \in Nat
    BY <1>1, <2>1
  <2> QED BY <2>2
<1>3. ASSUME NEW p \in Fills(mask), p[2] # {}
      PROVE  Push(mask, p) \in Fills(mask) /\ ToFill(mask)[Push(mask, p)] < ToFill(mask)[p]
  <2> DEFINE N == New(mask, p)
             top == AnyOf(p[2])
             A == I \ p[1]
             B == I \ (p[1] \cup N)
             S == p[2]
             T == S \ {top}
  <2>1. p[1] \in SUBSET I /\ S \in SUBSET I /\ top \in S
    BY <1>3 DEF Fills, AnyOf
  <2>2. N \in SUBSET A /\ A \in SUBSET I /\ B \in SUBSET I /\ T \in SUBSET I /\ N \in SUBSET I /\ T \cup N \in SUBSET I
    BY <2>1 DEF New
  <2>3. Push(mask, p) = <<p[1] \cup N, T \cup N>> /\ Push(mask, p) \in Fills(mask)
    BY <2>1, <2>2 DEF Push, Fills
  <2>4. A = B \cup N /\ B \cap N = {}
    BY <2>2
  <2> HIDE DEF N, T, A, B, top
  <2>5. Cardinality(A) = Cardinality(B) + Cardinality(N)
    <3>1. Cardinality(B \cup N) = Cardinality(B) + Cardinality(N) - Cardinality(B \cap N)
      BY <1>1, <2>2, FS_Union
    <3>2. Cardinality(B \cap N) = 0 /\ Cardinality(B) \in Nat /\ Cardinality(N) \in Nat
      BY <1>1, <2>2, <2>4, FS_EmptySet
    <3> QED BY <2>4, <3>1, <3>2
  <2>6. Cardinality(T) = Cardinality(S) - 1
    BY <1>1, <2>1, FS_RemoveElement DEF T
  <2>7. Cardinality(T \cup N) <= Cardinality(T) + Cardinality(N)
    <3>1. Cardinality(T \cup N) = Cardinality(T) + Cardinality(N) - Cardinality(T \cap N)
      BY <1>1, <2>2, FS_Union
    <3>2. T \cap N \in SUBSET I
      BY <2>2
    <3>3. Cardinality(T \cap N) \in Nat /\ Cardinality(T) \in Nat /\ Cardinality(N) \in Nat
      BY <1>1, <2>2, <3>2
    <3> QED BY <3>1, <3>3
  <2>8. /\ Cardinality(A) \in Nat /\ Cardinality(B) \in Nat /\ Cardinality(S) \in Nat
        /\ Cardinality(T) \in Nat /\ Cardinality(N) \in Nat /\ Cardinality(T \cup N) \in Nat
    BY <1>1, <2>1, <2>2
  <2>9. 2 * Cardinality(B) + Cardinality(T \cup N) < 2 * Cardinality(A) + Cardinality(S)
    BY <2>5, <2>6, <2>7, <2>8
  <2>10. /\ ToFill(mask)[Push(mask, p)] = 2 * Cardinality(B) + Cardinality(T \cup N)
         /\ ToFill(mask)[p] = 2 * Cardinality(A) + Cardinality(S)
    <3>1. \A x \in Fills(mask) : ToFill(mask)[x] = 2 * Cardinality(I \ x[1]) + Cardinality(x[2])
      BY DEF ToFill
    <3>2. Push(mask, p)[1] = p[1] \cup N /\ Push(mask, p)[2] = T \cup N
      BY <2>3
    <3> QED BY <2>3, <3>1, <3>2 DEF A, B
  <2> QED BY <2>3, <2>9, <2>10
<1> QED BY <1>2, <1>3 DEF ToFill

\* so that it has a result.
LEMMA FillExists == ASSUME NEW mask, IsMask(mask) PROVE \E fill : FillOf(mask, fill)
<1> DEFINE D == Fills(mask)
           V == SUBSET Img!Ink(mask)
           B == {p \in D : p[2] = {}}
           m == ToFill(mask)
           b == [p \in B |-> p[1]]
           next == [p \in D \ B |-> Push(mask, p)]
           step == [x \in (D \ B) \X V |-> x[2]]
<1>1. m \in [D -> Nat] /\ next \in [D \ B -> D] /\ \A p \in D \ B : m[next[p]] < m[p]
  BY FillsLess
<1>2. B \subseteq D /\ b \in [B -> V] /\ step \in [(D \ B) \X V -> V]
  BY DEF Fills
<1>3. Recursive(D, V, m, B, b, next, step)
  <2> HIDE DEF D, V, m, B, b, next, step
  <2> QED BY <1>1, <1>2 DEF Recursive
<1>4. PICK fill \in [D -> V] : Solves(fill, D, B, b, next, step)
  <2> HIDE DEF D, V, m, B, b, next, step
  <2> QED BY <1>3, Recursion
<1>5. \A p \in D : fill[p] = IF p[2] = {} THEN p[1] ELSE fill[Push(mask, p)]
  <2> TAKE p \in D
  <2>1. CASE p[2] = {}
    BY <1>4, <2>1 DEF Solves
  <2>2. CASE p[2] # {}
    <3>1. p \in D \ B /\ next[p] \in D
      BY <1>1, <2>2
    <3>2. fill[p] = step[<<p, fill[next[p]]>>]
      BY <1>4, <3>1 DEF Solves
    <3>3. fill[next[p]] \in V
      BY <1>4, <3>1
    <3> QED BY <2>2, <3>1, <3>2, <3>3
  <2> QED BY <2>1, <2>2
<1> QED BY <1>5 DEF FillOf

Frontier(mask, p) ==
  /\ p[2] \subseteq p[1]
  /\ \A q \in p[1] \ p[2], r \in Img!Ink(mask) : Img!Touches(q, r) => r \in p[1]
Filled(mask, p, R) ==
  /\ R \subseteq Img!Ink(mask) /\ Img!Closed(mask, R) /\ p[1] \subseteq R
  /\ \A S \in SUBSET Img!Ink(mask) : Img!Closed(mask, S) /\ p[1] \subseteq S => R \subseteq S

\* What is visited in the end is closed, and no more than closed sets have.
LEMMA FillIsClosed ==
  ASSUME NEW mask, IsMask(mask), NEW fill, FillOf(mask, fill)
  PROVE  \A p \in Fills(mask) : Frontier(mask, p) => Filled(mask, p, fill[p])
<1> DEFINE I == Img!Ink(mask)
           failing == {p \in Fills(mask) : Frontier(mask, p) /\ ~Filled(mask, p, fill[p])}
           T == {ToFill(mask)[p] : p \in failing}
<1> SUFFICES ASSUME failing # {} PROVE FALSE
  OBVIOUS
<1>1. T \in SUBSET Nat /\ T # {}
  BY FillsLess
<1>2. PICK n \in T : \A k \in T : n <= k
  <2> HIDE DEF T
  <2> QED BY <1>1, LeastNatural
<1>3. PICK p \in failing : n = ToFill(mask)[p]
  BY <1>2
<1>4. p \in Fills(mask) /\ Frontier(mask, p) /\ p[1] \in SUBSET I /\ p[2] \in SUBSET I
  BY <1>3 DEF Fills
<1>5. p[2] # {}
  <2> SUFFICES ASSUME p[2] = {} PROVE Filled(mask, p, fill[p])
    BY <1>3
  <2>1. fill[p] = p[1]
    BY <1>4 DEF FillOf
  <2> QED BY <1>4, <2>1 DEF Filled, Frontier, Img!Closed
<1> DEFINE next == Push(mask, p)
           N == New(mask, p)
           top == AnyOf(p[2])
<1>6. next \in Fills(mask) /\ ToFill(mask)[next] < n /\ fill[p] = fill[next] /\ n \in Nat /\ ToFill(mask)[next] \in Nat
  BY <1>3, <1>4, <1>5, FillsLess DEF FillOf
<1>7. next \notin failing
  <2> HIDE DEF failing, next
  <2> QED BY <1>2, <1>6
<1>8. top \in p[2] /\ top \in I /\ N = {r \in I : Img!Touches(top, r) /\ r \notin p[1]}
  <2>1. top \in p[2] /\ top \in I
    BY <1>4, <1>5 DEF AnyOf
  <2>2. \A r \in I : r \in Img!Neighbours(top) <=> Img!Touches(top, r)
    BY <2>1, InkIs, NeighboursTouch
  <2> HIDE DEF top
  <2> QED BY <2>1, <2>2 DEF New, top
<1>9. next[1] = p[1] \cup N /\ next[2] = (p[2] \ {top}) \cup N
  BY DEF Push
<1> HIDE DEF next, N, top
<1>10. Frontier(mask, next)
  BY <1>4, <1>8, <1>9 DEF Frontier
<1>11. Filled(mask, next, fill[next])
  BY <1>6, <1>7, <1>10
<1>12. Filled(mask, p, fill[p])
  <2>1. \A S \in SUBSET I : Img!Closed(mask, S) /\ p[1] \subseteq S => next[1] \subseteq S
    <3> TAKE S \in SUBSET I
    <3> HAVE Img!Closed(mask, S) /\ p[1] \subseteq S
    <3>1. top \in S
      BY <1>4, <1>8 DEF Frontier
    <3> QED BY <1>8, <1>9, <3>1 DEF Img!Closed
  <2> QED BY <1>6, <1>9, <1>11, <2>1 DEF Filled
<1> QED BY <1>3, <1>12

-----------------------------------------------------------------------------
PixelOf(mask, k) == <<(k - 1) % mask.w, (k - 1) \div mask.w>>
ScanStep(mask, limit, k, s) ==
  LET at == PixelOf(mask, k)
      all == Img!Fill(mask, s.visited \cup {at}, {at})
      component == all \ s.visited
  IN  IF at \in s.visited \/ at \notin Img!Ink(mask) THEN s
      ELSE [visited |-> all,
            out |-> IF Img!Cardinality(component) <= limit THEN s.out \ component ELSE s.out]
ScanOf(mask, limit, scan) ==
  scan = [k \in 0 .. mask.w * mask.h |->
            IF k = 0 THEN [visited |-> {}, out |-> Img!Ink(mask)] ELSE ScanStep(mask, limit, k, scan[k - 1])]

\* remove_small_components is the scan, read at the last pixel.
LEMMA RemoveSmallIsAScan ==
  ASSUME NEW mask, NEW limit
  PROVE  Img!RemoveSmall(mask, limit)
           = [mask EXCEPT !.px = [at \in DOMAIN mask.px |->
                at \in (CHOOSE scan : ScanOf(mask, limit, scan))[mask.w * mask.h].out]]
BY Zenon DEF Img!RemoveSmall, ScanOf, ScanStep, PixelOf

\* What the scan has seen after k pixels: the components of those that are ink.
Seen(mask, k) ==
  {q \in Img!Ink(mask) : \E j \in 1 .. k : /\ PixelOf(mask, j) \in Img!Ink(mask)
                                           /\ q \in Img!Component(mask, PixelOf(mask, j))}
Small(mask, limit, q) == Cardinality(Img!Component(mask, q)) <= limit
KeptInk(mask, limit, k) == {q \in Img!Ink(mask) : ~(q \in Seen(mask, k) /\ Small(mask, limit, q))}
Scanned(mask, limit, k) == [visited |-> Seen(mask, k), out |-> KeptInk(mask, limit, k)]

\* A fill from a new pixel visits its component.
LEMMA FillIs ==
  ASSUME NEW mask, IsMask(mask), NEW V \in SUBSET Img!Ink(mask), Img!Closed(mask, V),
         NEW at \in Img!Ink(mask)
  PROVE  Img!Fill(mask, V \cup {at}, {at}) = V \cup Img!Component(mask, at)
<1> DEFINE fill == CHOOSE f : FillOf(mask, f)
           p == <<V \cup {at}, {at}>>
           R == fill[p]
           C == Img!Component(mask, at)
           I == Img!Ink(mask)
<1>1. FillOf(mask, fill)
  BY FillExists
<1>2. p \in Fills(mask) /\ Frontier(mask, p)
  BY DEF Fills, Frontier, Img!Closed
<1> HIDE DEF fill
<1>3. Filled(mask, p, R)
  BY <1>1, <1>2, FillIsClosed
<1>4. /\ C \subseteq I /\ at \in C /\ Img!Closed(mask, C)
      /\ \A S \in SUBSET I : at \in S /\ Img!Closed(mask, S) => C \subseteq S
  BY ComponentIs
<1> HIDE DEF C, R
<1>5. R \subseteq I /\ Img!Closed(mask, R) /\ V \cup {at} \subseteq R
      /\ \A S \in SUBSET I : Img!Closed(mask, S) /\ V \cup {at} \subseteq S => R \subseteq S
  BY <1>3 DEF Filled
<1>6. Img!Closed(mask, V \cup C)
  BY <1>4 DEF Img!Closed
<1>7. R \subseteq V \cup C
  BY <1>4, <1>5, <1>6
<1>8. C \subseteq R
  BY <1>4, <1>5
<1>9. Img!Fill(mask, V \cup {at}, {at}) = R
  BY FillIsOne DEF R, fill
<1> QED BY <1>5, <1>7, <1>8, <1>9 DEF C

\* One pixel of the scan settles the component it belongs to,
LEMMA ScanAdvances ==
  ASSUME NEW mask, IsMask(mask), NEW limit \in Nat, NEW k \in Nat \ {0}
  PROVE  ScanStep(mask, limit, k, Scanned(mask, limit, k - 1)) = Scanned(mask, limit, k)
<1> DEFINE I == Img!Ink(mask)
           at == PixelOf(mask, k)
           V == Seen(mask, k - 1)
           C == Img!Component(mask, at)
           s == Scanned(mask, limit, k - 1)
           all == Img!Fill(mask, V \cup {at}, {at})
<1>1. \A q \in I : /\ q \in Img!Component(mask, q) /\ Img!Component(mask, q) \subseteq I
                   /\ Img!Closed(mask, Img!Component(mask, q))
                   /\ \A r \in Img!Component(mask, q) : Img!Component(mask, r) = Img!Component(mask, q)
  BY ComponentIs, ComponentsAgree
<1>2. 1 .. k = (1 .. k - 1) \cup {k} /\ 0 .. k - 1 \subseteq Int
  OBVIOUS
<1>3. V \in SUBSET I /\ Img!Closed(mask, V) /\ \A q \in V : Img!Component(mask, q) \subseteq V
  <2>1. V \in SUBSET I
    BY DEF Seen
  <2>2. \A q \in V : Img!Component(mask, q) \subseteq V
    <3> SUFFICES ASSUME NEW q \in V, NEW r \in Img!Component(mask, q) PROVE r \in V
      OBVIOUS
    <3>1. PICK j \in 1 .. k - 1 : PixelOf(mask, j) \in I /\ q \in Img!Component(mask, PixelOf(mask, j))
      BY DEF Seen
    <3>2. Img!Component(mask, q) = Img!Component(mask, PixelOf(mask, j)) /\ r \in I
      BY <1>1, <2>1, <3>1
    <3> QED BY <3>1, <3>2 DEF Seen
  <2>3. Img!Closed(mask, V)
    <3> SUFFICES ASSUME NEW q \in V, NEW r \in I, Img!Touches(q, r) PROVE r \in V
      BY DEF Img!Closed
    <3>1. r \in Img!Component(mask, q)
      BY <1>1, <2>1 DEF Img!Closed
    <3> QED BY <2>2, <3>1
  <2> QED BY <2>1, <2>2, <2>3
<1>4. s.visited = V /\ s.out = KeptInk(mask, limit, k - 1) /\ s = [visited |-> V, out |-> KeptInk(mask, limit, k - 1)]
  BY DEF Scanned
<1> HIDE DEF s
<1>5. CASE at \in V \/ at \notin I
  <2>1. Seen(mask, k) = V
    <3>1. ASSUME NEW q \in I
          PROVE  q \in Seen(mask, k) <=> q \in V \/ (at \in I /\ q \in C)
      BY <1>2 DEF Seen
    <3>2. at \in I /\ at \in V => C \subseteq V
      BY <1>3
    <3>3. Seen(mask, k) \subseteq I
      BY DEF Seen
    <3> HIDE DEF V, C, at
    <3> QED BY <1>3, <1>5, <3>1, <3>2, <3>3
  <2>2. KeptInk(mask, limit, k) = KeptInk(mask, limit, k - 1)
    BY <2>1 DEF KeptInk
  <2>3. ScanStep(mask, limit, k, s) = s
    BY <1>4, <1>5 DEF ScanStep
  <2> QED BY <1>4, <2>1, <2>2, <2>3 DEF Scanned, s
<1>6. CASE at \notin V /\ at \in I
  <2>1. Seen(mask, k) = V \cup C
    <3>1. ASSUME NEW q \in I
          PROVE  q \in Seen(mask, k) <=> q \in V \/ (at \in I /\ q \in C)
      BY <1>2 DEF Seen
    <3>2. C \subseteq I
      BY <1>1, <1>6
    <3>3. Seen(mask, k) \subseteq I
      BY DEF Seen
    <3> HIDE DEF V, C, at
    <3> QED BY <1>3, <1>6, <3>1, <3>2, <3>3
  <2>2. all = V \cup C
    BY <1>3, <1>6, FillIs
  <2>3. V \cap C = {}
    <3> SUFFICES ASSUME NEW q \in V, q \in C PROVE FALSE
      OBVIOUS
    <3>1. Img!Component(mask, q) = C /\ at \in C
      BY <1>1, <1>6
    <3> HIDE DEF V, C, at
    <3> QED BY <1>3, <1>6, <3>1
  <2>4. all \ V = C
    BY <2>2, <2>3
  <2>5. \A q \in C : q \in I /\ Img!Component(mask, q) = C
    BY <1>1, <1>6
  <2>6. ScanStep(mask, limit, k, s)
          = [visited |-> V \cup C,
             out |-> IF Cardinality(C) <= limit THEN KeptInk(mask, limit, k - 1) \ C ELSE KeptInk(mask, limit, k - 1)]
    <3>1. Img!Cardinality(C) = Cardinality(C)
      BY SameSize
    <3> HIDE DEF V, C
    <3> QED BY <1>4, <1>6, <2>2, <2>4, <3>1 DEF ScanStep
  <2> HIDE DEF all, C
  <2>7. KeptInk(mask, limit, k) = IF Cardinality(C) <= limit THEN KeptInk(mask, limit, k - 1) \ C ELSE KeptInk(mask, limit, k - 1)
    <3>1. \A q \in I : q \in KeptInk(mask, limit, k) <=> ~((q \in V \/ q \in C) /\ Small(mask, limit, q))
      BY <2>1 DEF KeptInk
    <3>2. \A q \in I : q \in KeptInk(mask, limit, k - 1) <=> ~(q \in V /\ Small(mask, limit, q))
      BY DEF KeptInk
    <3>3. \A q \in C : q \in I /\ q \notin V /\ (Small(mask, limit, q) <=> Cardinality(C) <= limit)
      BY <2>3, <2>5 DEF Small
    <3>4. KeptInk(mask, limit, k) \subseteq I /\ KeptInk(mask, limit, k - 1) \subseteq I
      BY DEF KeptInk
    <3> HIDE DEF V, I
    <3>5. CASE Cardinality(C) <= limit
      BY <3>1, <3>2, <3>3, <3>4, <3>5
    <3>6. CASE ~(Cardinality(C) <= limit)
      BY <3>1, <3>2, <3>3, <3>4, <3>6
    <3> QED BY <3>5, <3>6
  <2> QED BY <2>1, <2>6, <2>7 DEF Scanned, s
<1> QED BY <1>5, <1>6

\* so the scan has settled the components of all pixels it has passed,
LEMMA ScanIs ==
  ASSUME NEW mask, IsMask(mask), NEW limit \in Nat
  PROVE  (CHOOSE scan : ScanOf(mask, limit, scan))[mask.w * mask.h] = Scanned(mask, limit, mask.w * mask.h)
<1> DEFINE n == mask.w * mask.h
           scan == CHOOSE f : ScanOf(mask, limit, f)
           sure == [k \in 0 .. n |-> Scanned(mask, limit, k)]
<1>1. n \in Nat
  <2>1. mask.w \in Nat /\ mask.h \in Nat
    BY InkIs
  <2> QED BY <2>1
<1>2. Scanned(mask, limit, 0) = [visited |-> {}, out |-> Img!Ink(mask)]
  <2>1. Seen(mask, 0) = {}
    BY DEF Seen
  <2>2. KeptInk(mask, limit, 0) = Img!Ink(mask)
    BY <2>1 DEF KeptInk
  <2> QED BY <2>1, <2>2 DEF Scanned
<1> HIDE DEF n
<1>3. ScanOf(mask, limit, sure)
  <2> SUFFICES ASSUME NEW k \in 0 .. n, k # 0
               PROVE  Scanned(mask, limit, k) = ScanStep(mask, limit, k, sure[k - 1])
    BY <1>2 DEF ScanOf, n
  <2>1. k \in Nat \ {0} /\ k - 1 \in 0 .. n
    BY <1>1
  <2>2. sure[k - 1] = Scanned(mask, limit, k - 1)
    BY <2>1
  <2> QED BY <2>1, <2>2, ScanAdvances
<1>4. ScanOf(mask, limit, scan)
  <2> HIDE DEF sure
  <2> QED BY <1>3
<1> HIDE DEF scan
<1> DEFINE T == {k \in Nat : k <= n => scan[k] = Scanned(mask, limit, k)}
<1>5. \A k \in 0 .. n : scan[k] = IF k = 0 THEN [visited |-> {}, out |-> Img!Ink(mask)]
                                 ELSE ScanStep(mask, limit, k, scan[k - 1])
  BY <1>4 DEF ScanOf, n
<1>6. 0 \in T
  <2>1. 0 \in 0 .. n
    BY <1>1
  <2> QED BY <1>2, <1>5, <2>1
<1>7. ASSUME NEW k \in T PROVE k + 1 \in T
  <2> SUFFICES ASSUME k + 1 <= n PROVE scan[k + 1] = Scanned(mask, limit, k + 1)
    OBVIOUS
  <2>1. k + 1 \in 0 .. n /\ (k + 1) - 1 = k /\ k + 1 \in Nat \ {0} /\ k <= n
    BY <1>1
  <2>2. scan[k] = Scanned(mask, limit, k)
    BY <2>1
  <2> HIDE DEF T
  <2>3. scan[k + 1] = ScanStep(mask, limit, k + 1, scan[k])
    BY <1>5, <2>1
  <2>4. ScanStep(mask, limit, k + 1, Scanned(mask, limit, k)) = Scanned(mask, limit, k + 1)
    BY <2>1, ScanAdvances
  <2> QED BY <2>2, <2>3, <2>4
<1>8. T = Nat
  <2> HIDE DEF T
  <2>1. T \in SUBSET Nat
    BY DEF T
  <2> QED BY <1>6, <1>7, <2>1, Induction
<1>9. scan[n] = Scanned(mask, limit, n)
  BY <1>1, <1>8
<1> QED BY <1>9 DEF n, scan

\* in the end of all.
LEMMA AllIsSeen ==
  ASSUME NEW mask, IsMask(mask)
  PROVE  Seen(mask, mask.w * mask.h) = Img!Ink(mask)
<1> SUFFICES ASSUME NEW q \in Img!Ink(mask)
             PROVE  \E j \in 1 .. mask.w * mask.h : PixelOf(mask, j) = q
  BY ComponentIs DEF Seen
<1> DEFINE w == mask.w
           h == mask.h
           x == q[1]
           y == q[2]
           p == y * w
           m == w * h
           k == p + x
<1>1. w \in Nat \ {0} /\ h \in Nat \ {0} /\ x \in 0 .. w - 1 /\ y \in 0 .. h - 1 /\ q = <<x, y>>
  BY InkIs DEF Img!Pixels
<1> HIDE DEF x, y, w, h
<1>2. y \in Nat /\ y + 1 \in Nat /\ y + 1 <= h
  BY <1>1
<1>3. k % w = x /\ k \div w = y /\ k \in Nat
  BY <1>1, <1>2, PlaceIs
<1>4. k + 1 \in 1 .. m
  <2>1. w * (y + 1) <= m
    BY <1>1, <1>2, Product
  <2>2. w * (y + 1) = p + w /\ m \in Nat /\ p \in Nat
    BY <1>1, <1>2
  <2> HIDE DEF p, m
  <2> QED BY <1>1, <2>1, <2>2
<1>5. (k + 1) - 1 = k
  BY <1>3
<1>6. PixelOf(mask, k + 1) = q
  <2> HIDE DEF k
  <2> QED BY <1>1, <1>3, <1>5 DEF PixelOf, w
<1> QED BY <1>4, <1>6 DEF m, w, h

\* Despeckling removes exactly the components at or below the limit and leaves
\* every other pixel as it was (remove_small_components).
THEOREM DespeckleIsExact ==
  ASSUME NEW mask, IsMask(mask), NEW limit \in Nat
  PROVE  Img!DespeckleRemovesSmallComponents(mask, limit)
<1> DEFINE n == mask.w * mask.h
<1>1. Img!RemoveSmall(mask, limit)
        = [mask EXCEPT !.px = [at \in DOMAIN mask.px |-> at \in KeptInk(mask, limit, n)]]
  <2> DEFINE out == (CHOOSE scan : ScanOf(mask, limit, scan))[mask.w * mask.h].out
  <2>1. out = KeptInk(mask, limit, n)
    <3>1. (CHOOSE scan : ScanOf(mask, limit, scan))[mask.w * mask.h] = Scanned(mask, limit, n)
      BY ScanIs
    <3> QED BY <3>1 DEF Scanned
  <2>2. Img!RemoveSmall(mask, limit) = [mask EXCEPT !.px = [at \in DOMAIN mask.px |-> at \in out]]
    BY RemoveSmallIsAScan
  <2> HIDE DEF out, n
  <2> QED BY <2>1, <2>2
<1>2. Seen(mask, n) = Img!Ink(mask)
  BY AllIsSeen
<1> HIDE DEF n
<1> SUFFICES ASSUME NEW at \in DOMAIN mask.px
             PROVE  Img!RemoveSmall(mask, limit).px[at]
                      <=> mask.px[at] /\ Cardinality(Img!Component(mask, at)) > limit
  BY SameSize DEF Img!DespeckleRemovesSmallComponents
<1>3. Img!RemoveSmall(mask, limit).px[at] <=> at \in KeptInk(mask, limit, n)
  <2>1. mask = Img!Image(mask.w, mask.h, mask.px)
    BY DEF IsMask, IsImage
  <2> QED BY <1>1, <2>1 DEF Img!Image
<1>4. at \in KeptInk(mask, limit, n) <=> at \in Img!Ink(mask) /\ ~Small(mask, limit, at)
  BY <1>2 DEF KeptInk
<1>5. at \in Img!Ink(mask) <=> mask.px[at]
  BY DEF Img!Ink
<1>6. at \in Img!Ink(mask) => Cardinality(Img!Component(mask, at)) \in Nat
  <2> SUFFICES ASSUME at \in Img!Ink(mask) PROVE Cardinality(Img!Component(mask, at)) \in Nat
    OBVIOUS
  <2>1. Img!Component(mask, at) \subseteq Img!Ink(mask)
    BY ComponentIs
  <2> QED BY <2>1, InkIs, FS_Subset, FS_CardinalityType
<1> DEFINE c == Cardinality(Img!Component(mask, at))
<1>7. Small(mask, limit, at) <=> c <= limit
  BY DEF Small
<1> HIDE DEF c
<1>8. at \in Img!Ink(mask) => (~(c <= limit) <=> c > limit)
  BY <1>6 DEF c
<1> QED BY <1>3, <1>4, <1>5, <1>7, <1>8 DEF c

\* A despeckled mask is a mask.
LEMMA DespeckledIsAMask ==
  ASSUME NEW mask, IsMask(mask), NEW limit \in Nat
  PROVE  IsMask(Img!RemoveSmall(mask, limit))
<1> DEFINE out == (CHOOSE scan : ScanOf(mask, limit, scan))[mask.w * mask.h].out
           px == [at \in DOMAIN mask.px |-> at \in out]
<1>1. Img!RemoveSmall(mask, limit) = [mask EXCEPT !.px = px]
  BY RemoveSmallIsAScan
<1> HIDE DEF out
<1>2. /\ mask = Img!Image(mask.w, mask.h, mask.px) /\ DOMAIN mask.px = Img!Pixels(mask.w, mask.h)
      /\ mask.w \in Nat \ {0} /\ mask.h \in Nat \ {0}
  BY DEF IsMask, IsImage
<1>3. px \in [Img!Pixels(mask.w, mask.h) -> BOOLEAN]
  BY <1>2
<1> HIDE DEF px
<1>4. Img!RemoveSmall(mask, limit) = Img!Image(mask.w, mask.h, px)
  BY <1>1, <1>2 DEF Img!Image
<1> QED BY <1>2, <1>3, <1>4 DEF IsMask, IsImage, Img!Image

\* A component that is kept is still one.
LEMMA KeptComponents ==
  ASSUME NEW mask, IsMask(mask), NEW limit \in Nat, NEW at \in Img!Ink(Img!RemoveSmall(mask, limit))
  PROVE  /\ Img!Component(Img!RemoveSmall(mask, limit), at) = Img!Component(mask, at)
         /\ Cardinality(Img!Component(mask, at)) > limit
<1> DEFINE clean == Img!RemoveSmall(mask, limit)
           I == Img!Ink(mask)
           J == Img!Ink(clean)
           C == Img!Component(mask, at)
           E == Img!Component(clean, at)
<1>1. IsMask(clean)
  BY DespeckledIsAMask
<1>2. DOMAIN clean.px = DOMAIN mask.px
  <2>1. mask = Img!Image(mask.w, mask.h, mask.px)
    BY DEF IsMask, IsImage
  <2> QED BY <2>1, RemoveSmallIsAScan DEF Img!Image
<1>3. \A q : q \in J <=> q \in I /\ Cardinality(Img!Component(mask, q)) > limit
  <2>1. \A q \in DOMAIN mask.px : clean.px[q] <=> mask.px[q] /\ Cardinality(Img!Component(mask, q)) > limit
    BY DespeckleIsExact, SameSize DEF Img!DespeckleRemovesSmallComponents
  <2> HIDE DEF clean
  <2> QED BY <1>2, <2>1 DEF Img!Ink
<1>4. at \in I /\ at \in J
  BY <1>3
<1>5. /\ C \subseteq I /\ at \in C /\ Img!Closed(mask, C)
      /\ \A S \in SUBSET I : at \in S /\ Img!Closed(mask, S) => C \subseteq S
  BY <1>4, ComponentIs
<1> HIDE DEF clean
<1>6. /\ E \subseteq J /\ at \in E /\ Img!Closed(clean, E)
      /\ \A S \in SUBSET J : at \in S /\ Img!Closed(clean, S) => E \subseteq S
  BY <1>1, <1>4, ComponentIs
<1>7. C \subseteq J
  BY <1>3, <1>4, <1>5, ComponentsAgree
<1>8. Img!Closed(clean, C)
  BY <1>3, <1>5 DEF Img!Closed
<1>9. Img!Closed(mask, E)
  <2> SUFFICES ASSUME NEW q \in E, NEW r \in I, Img!Touches(q, r) PROVE r \in E
    BY DEF Img!Closed
  <2>1. q \in J /\ q \in I
    BY <1>3, <1>6
  <2>2. q \in Img!Component(mask, q) /\ Img!Closed(mask, Img!Component(mask, q))
    BY <2>1, ComponentIs
  <2>3. r \in Img!Component(mask, q)
    BY <2>2 DEF Img!Closed
  <2>4. Img!Component(mask, r) = Img!Component(mask, q)
    BY <2>1, <2>3, ComponentsAgree
  <2>5. r \in J
    BY <1>3, <2>1, <2>4
  <2> HIDE DEF E
  <2> QED BY <1>6, <2>5 DEF Img!Closed
<1> HIDE DEF C, E
<1>10. C = E
  <2>1. E \subseteq C
    BY <1>5, <1>6, <1>7, <1>8
  <2>2. E \in SUBSET I
    BY <1>3, <1>6
  <2> QED BY <1>5, <1>6, <1>9, <2>1, <2>2
<1> QED BY <1>3, <1>4, <1>10 DEF C, E, clean

-----------------------------------------------------------------------------
(* The stages of a page, from a gray image to a packed one.                 *)
Shaped(image, of) == image.w = of.w /\ image.h = of.h /\ DOMAIN image.px = DOMAIN of.px /\ image = Img!Image(image.w, image.h, image.px)
\* The stages before the threshold keep the shape of the image.
LEMMA StagesKeepShape ==
  ASSUME NEW image, Shaped(image, image), NEW s
  PROVE  Shaped(Img!ApplyPreprocessing(Img!AdjustContrast(image, s.contrast), s), image)
<1>1. \A i, px : Shaped(i, image) /\ DOMAIN px = DOMAIN i.px => Shaped([i EXCEPT !.px = px], image)
  BY DEF Shaped, Img!Image
<1>2. \A i, q : Shaped(i, image) => Shaped(Img!AdjustContrast(i, q), image)
  BY <1>1 DEF Img!AdjustContrast
<1>3. \A i, r : Shaped(i, image) => Shaped(Img!NormalizeBackground(i, r), image)
  BY <1>1 DEF Img!NormalizeBackground
<1>4. \A i : Shaped(i, image) => Shaped(Img!Denoise(i), image)
  BY <1>1 DEF Img!Denoise
<1> QED BY <1>2, <1>3, <1>4 DEF Img!ApplyPreprocessing

Methods == {"otsu", "manual", "sauvola"}
\* Every method makes a mask.
LEMMA BinarizeMakesAMask ==
  ASSUME NEW image, IsGray(image), NEW i, Shaped(i, image), NEW s, s.method \in Methods
  PROVE  IsMask(Img!Binarize(i, s))
<1>1. /\ image.w \in Nat \ {0} /\ image.h \in Nat \ {0} /\ DOMAIN image.px = Img!Pixels(image.w, image.h)
  BY DEF IsGray, IsImage
<1>2. \A px : px \in [DOMAIN i.px -> BOOLEAN] => IsMask([i EXCEPT !.px = px])
  BY <1>1 DEF Shaped, IsMask, IsImage, Img!Image
<1>3. \A t : IsMask(Img!Manual(i, t))
  <2> TAKE t
  <2> DEFINE px == [at \in DOMAIN i.px |-> i.px[at] <= t]
  <2>1. px \in [DOMAIN i.px -> BOOLEAN]
    OBVIOUS
  <2> QED BY <1>2, <2>1 DEF Img!Manual
<1>4. IsMask(Img!Sauvola(i, s.prm))
  <2> DEFINE px == Img!Sauvola(i, s.prm).px
  <2>1. Img!Sauvola(i, s.prm) = [i EXCEPT !.px = px] /\ px \in [DOMAIN i.px -> BOOLEAN]
    BY DEF Img!Sauvola, Img!IsInk, Shaped, Img!Image
  <2> QED BY <1>2, <2>1
<1> QED BY <1>3, <1>4 DEF Methods, Img!Binarize, Img!Otsu

-----------------------------------------------------------------------------
LimitOf(s) == IF s.limit # 0 THEN s.limit ELSE IF s.despeckle = "strong" THEN 12 ELSE 4

\* With cleanup on, no mark at or below the limit is in the packed page,
\* whatever the page and the other settings are (process_rendered_page).
THEOREM NoSpecklesArePacked ==
  ASSUME NEW image, IsGray(image), NEW s, IsSettings(s)
  PROVE  Img!NoSpeckleIsPacked(image, s)
<1> SUFFICES ASSUME Img!ValidSettings(s), s.despeckle # "off",
                    NEW at \in DOMAIN Img!Unpack(Img!ProcessPage(image, s)).px,
                    Img!Unpack(Img!ProcessPage(image, s)).px[at]
             PROVE  Cardinality(Img!Component(Img!Unpack(Img!ProcessPage(image, s)), at)) > LimitOf(s)
  BY SameSize, Zenon DEF Img!NoSpeckleIsPacked, LimitOf
<1> DEFINE gray == Img!ApplyPreprocessing(Img!AdjustContrast(image, s.contrast), s)
           mask == Img!Binarize(gray, s)
           clean == Img!Despeckle(mask, s.despeckle, s.limit)
<1>1. Shaped(gray, image)
  <2>1. Shaped(image, image)
    BY DEF Shaped, IsGray, IsImage
  <2> QED BY <2>1, StagesKeepShape
<1>2. IsMask(mask)
  <2>1. s.method \in Methods
    BY DEF IsSettings, Methods
  <2> HIDE DEF gray
  <2> QED BY <1>1, <2>1, BinarizeMakesAMask
<1> HIDE DEF mask
<1>3. LimitOf(s) \in Nat /\ clean = Img!RemoveSmall(mask, LimitOf(s))
  BY DEF Img!Despeckle, LimitOf, IsSettings
<1>4. Img!ProcessPage(image, s) = Img!Pack(clean)
  BY DEF Img!ProcessPage, mask
<1>5. IsMask(clean)
  BY <1>2, <1>3, DespeckledIsAMask
<1>6. Img!Unpack(Img!ProcessPage(image, s)) = clean
  BY <1>4, <1>5, UnpackRestores
<1> HIDE DEF clean
<1>7. at \in Img!Ink(clean)
  BY <1>6 DEF Img!Ink
<1>8. Img!Component(clean, at) = Img!Component(mask, at) /\ Cardinality(Img!Component(mask, at)) > LimitOf(s)
  BY <1>2, <1>3, <1>7, KeptComponents
<1> QED BY <1>6, <1>8

\* Two settings with one fingerprint make one page, so that an estimate may be
\* kept for a conversion under the fingerprint (settings_fingerprint).
THEOREM FingerprintsDecidePages ==
  ASSUME NEW image, NEW s, NEW t, IsSettings(s), IsSettings(t)
  PROVE  Img!FingerprintDecidesPage(image, s, t)
<1> SUFFICES ASSUME Img!Fingerprint(s) = Img!Fingerprint(t)
             PROVE  Img!ProcessPage(image, s) = Img!ProcessPage(image, t)
  BY DEF Img!FingerprintDecidesPage
<1> DEFINE method(u) == CASE u.method = "otsu" -> <<"otsu">>
                          [] u.method = "manual" -> <<"manual", u.threshold>>
                          [] u.method = "sauvola" -> <<"sauvola", u.prm>>
<1>1. \A u : Img!Fingerprint(u) = <<u.dpi, method(u), u.contrast, u.denoise, u.normalize, u.radius,
                                    u.despeckle, u.limit>>
  BY Zenon DEF Img!Fingerprint
<1> HIDE DEF method
<1>2. /\ s.dpi = t.dpi /\ method(s) = method(t) /\ s.contrast = t.contrast /\ s.denoise = t.denoise
      /\ s.normalize = t.normalize /\ s.radius = t.radius /\ s.despeckle = t.despeckle /\ s.limit = t.limit
  BY <1>1
<1>3. ASSUME NEW u, IsSettings(u)
      PROVE  /\ method(u)[1] = u.method
             /\ u.method = "manual" => method(u)[2] = u.threshold
             /\ u.method = "sauvola" => method(u)[2] = u.prm
  BY <1>3 DEF IsSettings, method
<1>4. /\ s.method = t.method /\ (s.method = "manual" => s.threshold = t.threshold)
      /\ (s.method = "sauvola" => s.prm = t.prm)
  BY <1>2, <1>3
<1>5. Img!ValidSettings(s) <=> Img!ValidSettings(t)
  BY <1>2, <1>4 DEF Img!ValidSettings
<1>6. \A i : Img!ApplyPreprocessing(i, s) = Img!ApplyPreprocessing(i, t)
  BY <1>2 DEF Img!ApplyPreprocessing
<1>7. \A i : Img!Binarize(i, s) = Img!Binarize(i, t)
  BY <1>4 DEF Img!Binarize, IsSettings
<1> QED BY <1>2, <1>5, <1>6, <1>7 DEF Img!ProcessPage

\* The packed page is the mask, the mask has no small marks, and a fingerprint
\* stands for one page, for every mask, page and settings the code accepts.
THEOREM PackedPageIsCleanCorrect == ProbeSpec => []PackedPageIsClean
<1>1. ProbeOK => PackedPageIsClean
  <2> SUFFICES ASSUME ProbeOK PROVE PackedPageIsClean
    OBVIOUS
  <2>1. ASSUME probe.of = "despeckle"
        PROVE  Img!DespeckleRemovesSmallComponents(probe.in[1], probe.in[2])
    <3>1. IsMask(probe.in[1]) /\ probe.in[2] \in Nat
      BY <2>1, MasksAssumption DEF ProbeOK, IsMask
    <3> QED BY <3>1, DespeckleIsExact
  <2>2. ASSUME probe.of = "packing" PROVE Img!PackingIsLossless(probe.in)
    <3>1. IsMask(probe.in)
      BY <2>2, MasksAssumption DEF ProbeOK, IsMask
    <3> QED BY <3>1, PackingLosesNothing
  <2>3. ASSUME probe.of = "process" PROVE Img!NoSpeckleIsPacked(probe.in[1], probe.in[2])
    <3>1. IsGray(probe.in[1]) /\ IsSettings(probe.in[2])
      BY <2>3, MasksAssumption DEF ProbeOK, IsGray
    <3> QED BY <3>1, NoSpecklesArePacked
  <2>4. ASSUME probe.of = "fingerprint"
        PROVE  Img!FingerprintDecidesPage(probe.in[2], probe.in[1][1], probe.in[1][2])
    <3>1. IsSettings(probe.in[1][1]) /\ IsSettings(probe.in[1][2])
      BY <2>4, MasksAssumption DEF ProbeOK
    <3> QED BY <3>1, FingerprintsDecidePages
  <2> QED BY <2>1, <2>2, <2>3, <2>4 DEF PackedPageIsClean
<1> QED BY <1>1, ProbesAreInputs, PTL

-----------------------------------------------------------------------------
(* Selections of got.                                                     *)
\* A finite set of numbers as the sequence that rises through it.
LEMMA SortedIs ==
  ASSUME NEW S \in SUBSET Int, IsFiniteSet(S)
  PROVE  LET s == Math!Sorted(S)
         IN  /\ DOMAIN s = 1 .. Cardinality(S) /\ \A k \in DOMAIN s : s[k] \in S
             /\ \A j, k \in DOMAIN s : j < k => s[j] < s[k]
             /\ Math!Range(s) = S
<1> DEFINE n == Cardinality(S)
           below(p) == {q \in S : q < p}
           rank(p) == Cardinality(below(p))
           s == Math!Sorted(S)
           f == [p \in S |-> rank(p)]
<1>1. n \in Nat /\ \A T \in SUBSET S : IsFiniteSet(T) /\ Cardinality(T) \in Nat
  BY FS_Subset, FS_CardinalityType
<1>2. ASSUME NEW p \in S, NEW q \in S, p < q PROVE rank(p) < rank(q)
  <2> DEFINE A == below(p)
             B == below(q)
  <2>1. A \subseteq B /\ p \in B /\ p \notin A /\ B \in SUBSET S
    <3>1. p \in Int /\ q \in Int /\ \A x \in S : x \in Int
      OBVIOUS
    <3>2. \A x \in S : x < p => x < q
      BY <1>2, <3>1
    <3>3. ~(p < p)
      BY <3>1
    <3> QED BY <1>2, <3>2, <3>3
  <2> HIDE DEF A, B
  <2>2. IsFiniteSet(B)
    BY <1>1, <2>1
  <2>3. Cardinality(A) < Cardinality(B)
    <3>1. A # B
      BY <2>1
    <3>2. Cardinality(A) <= Cardinality(B) /\ (Cardinality(A) = Cardinality(B) => A = B)
      BY <2>1, <2>2, FS_Subset
    <3>3. Cardinality(A) \in Nat /\ Cardinality(B) \in Nat
      BY <1>1, <2>1
    <3> QED BY <3>1, <3>2, <3>3
  <2> QED BY <2>3 DEF A, B
<1>3. ASSUME NEW p \in S PROVE rank(p) \in 0 .. n - 1
  <2> DEFINE A == below(p)
  <2>1. A \subseteq S /\ p \notin A
    OBVIOUS
  <2> HIDE DEF A
  <2>2. A # S
    BY <2>1
  <2>3. Cardinality(A) <= n /\ (Cardinality(A) = n => A = S) /\ Cardinality(A) \in Nat
    BY <1>1, <2>1, FS_Subset
  <2> QED BY <1>1, <2>2, <2>3 DEF A
<1>4. \A p, q \in S : rank(p) = rank(q) => p = q
  <2> TAKE p, q \in S
  <2> HAVE rank(p) = rank(q)
  <2>1. rank(p) \in Int /\ rank(q) \in Int /\ p \in Int /\ q \in Int
    BY <1>3
  <2>2. ~(p < q) /\ ~(q < p)
    BY <1>2, <2>1
  <2> QED BY <2>1, <2>2
<1>5. f \in Injection(S, 0 .. n - 1)
  BY <1>3, <1>4 DEF Injection, IsInjective
<1> HIDE DEF rank
<1>6. f \in Surjection(S, 0 .. n - 1)
  <2>1. IsFiniteSet(0 .. n - 1) /\ Cardinality(0 .. n - 1) = n
    <3> HIDE DEF n
    <3>1. CASE n = 0
      <4>1. 0 .. n - 1 = {}
        BY <3>1
      <4> QED BY <3>1, <4>1, FS_EmptySet
    <3>2. CASE n # 0
      <4>1. 0 \in Int /\ n - 1 \in Int /\ 0 <= n - 1 /\ (n - 1) - 0 + 1 = n
        BY <1>1, <3>2
      <4> QED BY <4>1, IntervalSize
    <3> QED BY <3>1, <3>2
  <2> HIDE DEF f
  <2> QED BY <1>5, <2>1, FS_Injection
<1>7. \A k \in 0 .. n - 1 : \E p \in S : rank(p) = k
  BY <1>6 DEF Surjection
<1>8. s = [k \in 1 .. n |-> CHOOSE p \in S : rank(p) = k - 1]
  <2>1. Math!Cardinality(S) = n
    BY SameCardinality
  <2>2. \A p : Math!Cardinality({q \in S : q < p}) = rank(p)
    BY SameCardinality DEF rank
  <2> HIDE DEF n
  <2> QED BY <2>1, <2>2 DEF Math!Sorted
<1> HIDE DEF s, n
<1>9. DOMAIN s = 1 .. n /\ \A k \in 1 .. n : s[k] \in S /\ rank(s[k]) = k - 1
  <2>1. ASSUME NEW k \in 1 .. n PROVE s[k] \in S /\ rank(s[k]) = k - 1
    <3>1. k - 1 \in 0 .. n - 1
      BY <1>1
    <3>2. \E p \in S : rank(p) = k - 1
      BY <1>7, <3>1
    <3>3. s[k] = CHOOSE p \in S : rank(p) = k - 1
      BY <1>8
    <3> QED BY <3>2, <3>3
  <2> QED BY <1>8, <2>1
<1>10. \A j, k \in 1 .. n : j < k => s[j] < s[k]
  <2> TAKE j, k \in 1 .. n
  <2> HAVE j < k
  <2>1. s[j] \in S /\ s[k] \in S /\ rank(s[j]) = j - 1 /\ rank(s[k]) = k - 1
    BY <1>9
  <2>2. s[j] \in Int /\ s[k] \in Int
    BY <2>1
  <2>3. ASSUME s[k] < s[j] PROVE FALSE
    <3>1. rank(s[k]) < rank(s[j])
      BY <1>2, <2>1, <2>3
    <3> QED BY <1>1, <2>1, <3>1
  <2>4. s[k] # s[j]
    BY <1>1, <2>1
  <2> QED BY <2>2, <2>3, <2>4
<1>11. Math!Range(s) = S
  <2>1. ASSUME NEW p \in S PROVE \E k \in 1 .. n : s[k] = p
    <3>1. rank(p) + 1 \in 1 .. n /\ (rank(p) + 1) - 1 = rank(p)
      BY <1>1, <1>3
    <3>2. s[rank(p) + 1] \in S /\ rank(s[rank(p) + 1]) = rank(p)
      BY <1>9, <3>1
    <3> QED BY <1>4, <3>1, <3>2
  <2> QED BY <1>9, <2>1 DEF Math!Range
<1> QED BY <1>9, <1>10, <1>11 DEF s, n

IsTerm(t) == t.from \in Nat /\ t.to \in Nat
Listing(t) == [k \in 1 .. t.to - t.from + 1 |-> t.from + k - 2]
ListStep(t, pageCount, got) ==
  IF got = Math!Refused \/ ~Math!AcceptsTerm(t, pageCount) THEN Math!Refused ELSE got \o Listing(t)
ListOf(terms, pageCount, listed) ==
  listed = [n \in 0 .. Len(terms) |-> IF n = 0 THEN <<>> ELSE ListStep(terms[n], pageCount, listed[n - 1])]

\* A parse is all pages, a refusal, or the listing sorted.
LEMMA ParseIs ==
  ASSUME NEW terms, NEW pageCount
  PROVE  LET named == (CHOOSE listed : ListOf(terms, pageCount, listed))[Len(terms)]
             got == Math!Parse(terms, pageCount)
         IN  \/ terms = <<Math!Other("all")>> /\ got = [k \in 1 .. pageCount |-> k - 1]
             \/ got = Math!Refused
             \/ named # Math!Refused /\ got = Math!Sorted(Math!Range(named))
<1> DEFINE named == (CHOOSE listed : ListOf(terms, pageCount, listed))[Len(terms)]
           got == Math!Parse(terms, pageCount)
<1>1. got =
        CASE terms = <<Math!Other("all")>> -> [k \in 1 .. pageCount |-> k - 1]
          [] Len(terms) > Math!MaxTerms -> Math!Refused
          [] OTHER -> IF named = Math!Refused THEN Math!Refused ELSE Math!Sorted(Math!Range(named))
  BY Zenon DEF Math!Parse, ListOf, ListStep, Listing
<1> SUFFICES \/ terms = <<Math!Other("all")>> /\ got = [k \in 1 .. pageCount |-> k - 1]
             \/ got = Math!Refused
             \/ named # Math!Refused /\ got = Math!Sorted(Math!Range(named))
  OBVIOUS
<1> HIDE DEF named
<1>2. CASE terms = <<Math!Other("all")>> /\ ~(Len(terms) > Math!MaxTerms)
  BY <1>1, <1>2
<1>3. CASE terms # <<Math!Other("all")>> /\ Len(terms) > Math!MaxTerms
  BY <1>1, <1>3
<1>4. CASE terms # <<Math!Other("all")>> /\ ~(Len(terms) > Math!MaxTerms)
  <2>1. got = IF named = Math!Refused THEN Math!Refused ELSE Math!Sorted(Math!Range(named))
    BY <1>1, <1>4
  <2> HIDE DEF got
  <2> QED BY <2>1
<1>5. CASE terms = <<Math!Other("all")>> /\ Len(terms) > Math!MaxTerms
  <2>1. Len(terms) = 1
    BY <1>5
  <2>2. 1 <= Math!MaxTerms
    BY SMT DEF Math!MaxTerms
  <2>3. Math!MaxTerms \in Nat
    BY SMT DEF Math!MaxTerms
  <2> QED BY <1>5, <2>1, <2>2, <2>3
<1> QED BY <1>2, <1>3, <1>4, <1>5

\* A recursion from 0 to N, step by step.
Iterable(N, V, first, step) == N \in Nat /\ first \in V /\ step \in [(1 .. N) \X V -> V]
Iterates(f, N, V, first, step) ==
  f \in [0 .. N -> V] /\ f[0] = first /\ \A n \in 1 .. N : f[n] = step[<<n, f[n - 1]>>]

\* A recursion from 0 to N has a solution.
LEMMA Iteration ==
  ASSUME NEW N, NEW V, NEW first, NEW step, Iterable(N, V, first, step)
  PROVE  \E f : Iterates(f, N, V, first, step)
<1> USE DEF Iterable
<1> DEFINE D == 0 .. N
           B == {0}
           m == [n \in D |-> n]
           b == [n \in B |-> first]
           next == [n \in D \ B |-> n - 1]
<1>1. D \ B = 1 .. N
  OBVIOUS
<1>2. Recursive(D, V, m, B, b, next, step)
  <2>1. m \in [D -> Nat] /\ B \subseteq D /\ b \in [B -> V] /\ next \in [D \ B -> D]
    OBVIOUS
  <2>2. \A n \in D \ B : m[next[n]] < m[n]
    OBVIOUS
  <2>3. step \in [(D \ B) \X V -> V]
    BY <1>1
  <2> HIDE DEF D, B, m, b, next
  <2> QED BY <2>1, <2>2, <2>3 DEF Recursive
<1>3. PICK f \in [D -> V] : Solves(f, D, B, b, next, step)
  <2> HIDE DEF D, B, m, b, next
  <2> QED BY <1>2, Recursion
<1>4. f[0] = first
  <2>1. 0 \in D /\ 0 \in B /\ b[0] = first
    OBVIOUS
  <2> HIDE DEF D, B, b, m, next
  <2> QED BY <1>3, <2>1 DEF Solves
<1>5. ASSUME NEW n \in 1 .. N PROVE f[n] = step[<<n, f[n - 1]>>]
  <2>1. n \in D /\ n \notin B /\ next[n] = n - 1
    OBVIOUS
  <2> HIDE DEF D, B, next
  <2> QED BY <1>3, <2>1 DEF Solves
<1> QED BY <1>3, <1>4, <1>5 DEF Iterates

\* The pages the first n terms name, and what the listing has of them.
Named(terms, n) == UNION {terms[k].from - 1 .. terms[k].to - 1 : k \in 1 .. n}
Lists(terms, pageCount, n, got) ==
  got # Math!Refused => /\ got \in Seq(Int) /\ \A k \in 1 .. n : Math!AcceptsTerm(terms[k], pageCount)
                        /\ Math!Range(got) = Named(terms, n)

\* A term that is accepted lists its pages.
LEMMA ListingIs ==
  ASSUME NEW t, IsTerm(t), NEW pageCount \in Nat, Math!AcceptsTerm(t, pageCount)
  PROVE  Listing(t) \in Seq(Int) /\ Math!Range(Listing(t)) = t.from - 1 .. t.to - 1
<1>1. t.from \in Nat /\ t.to \in Nat /\ t.from > 0 /\ t.from <= t.to
  BY DEF IsTerm, Math!AcceptsTerm
<1> DEFINE n == t.to - t.from + 1
<1>2. n \in Nat
  BY <1>1
<1>3. Listing(t) \in Seq(Int)
  <2>1. \A k \in 1 .. n : t.from + k - 2 \in Int
    BY <1>1
  <2>2. Listing(t) = [k \in 1 .. n |-> t.from + k - 2]
    BY DEF Listing
  <2> HIDE DEF n
  <2> QED BY <1>2, <2>1, <2>2
<1>4. ASSUME NEW p \in t.from - 1 .. t.to - 1 PROVE \E k \in DOMAIN Listing(t) : Listing(t)[k] = p
  <2>1. p - t.from + 2 \in 1 .. n /\ t.from + (p - t.from + 2) - 2 = p
    BY <1>1
  <2> QED BY <2>1 DEF Listing
<1>5. \A k \in DOMAIN Listing(t) : Listing(t)[k] \in t.from - 1 .. t.to - 1
  BY <1>1 DEF Listing
<1> QED BY <1>3, <1>4, <1>5 DEF Math!Range

\* One more term adds its pages or has the listing refused,
LEMMA ListGrows ==
  ASSUME NEW terms, NEW pageCount \in Nat, NEW n \in Nat \ {0}, IsTerm(terms[n]),
         NEW got, Lists(terms, pageCount, n - 1, got)
  PROVE  Lists(terms, pageCount, n, ListStep(terms[n], pageCount, got))
<1> DEFINE t == terms[n]
           all == ListStep(t, pageCount, got)
<1>1. CASE got = Math!Refused \/ ~Math!AcceptsTerm(t, pageCount)
  BY <1>1 DEF ListStep, Lists
<1>2. CASE got # Math!Refused /\ Math!AcceptsTerm(t, pageCount)
  <2>1. all = got \o Listing(t)
    BY <1>2 DEF ListStep
  <2>2. Listing(t) \in Seq(Int) /\ Math!Range(Listing(t)) = t.from - 1 .. t.to - 1
    BY <1>2, ListingIs
  <2>3. got \in Seq(Int) /\ Math!Range(got) = Named(terms, n - 1)
        /\ \A k \in 1 .. n - 1 : Math!AcceptsTerm(terms[k], pageCount)
    BY <1>2 DEF Lists
  <2>4. \A k \in 1 .. n : Math!AcceptsTerm(terms[k], pageCount)
    <3> TAKE k \in 1 .. n
    <3>1. k = n \/ k \in 1 .. n - 1
      OBVIOUS
    <3> QED BY <1>2, <2>3, <3>1
  <2>5. all \in Seq(Int) /\ Math!Range(all) = Math!Range(got) \cup Math!Range(Listing(t))
    <3> DEFINE s == Listing(t)
    <3> HIDE DEF s
    <3>1. all = got \o s /\ s \in Seq(Int) /\ got \in Seq(Int)
      BY <2>1, <2>2, <2>3 DEF s
    <3> HIDE DEF all
    <3>2. all \in Seq(Int) /\ Len(all) = Len(got) + Len(s)
      BY <3>1
    <3>3. \A k \in 1 .. Len(got) : k \in 1 .. Len(all) /\ all[k] = got[k]
      BY <3>1, <3>2
    <3>4. \A k \in 1 .. Len(s) : k + Len(got) \in 1 .. Len(all) /\ all[k + Len(got)] = s[k]
      BY <3>1, <3>2
    <3>5. ASSUME NEW k \in 1 .. Len(all) PROVE all[k] \in Math!Range(got) \cup Math!Range(s)
      <4>1. CASE k \in 1 .. Len(got)
        BY <3>1, <3>3, <4>1 DEF Math!Range
      <4>2. CASE k \notin 1 .. Len(got)
        <5>1. k - Len(got) \in 1 .. Len(s) /\ (k - Len(got)) + Len(got) = k
          BY <3>1, <3>2, <4>2
        <5>2. all[k] = s[k - Len(got)]
          BY <3>4, <5>1
        <5> QED BY <3>1, <5>1, <5>2 DEF Math!Range
      <4> QED BY <4>1, <4>2
    <3>6. Math!Range(got) \subseteq Math!Range(all)
      <4>1. DOMAIN all = 1 .. Len(all) /\ DOMAIN got = 1 .. Len(got)
        BY <3>1, <3>2
      <4>2. \A k \in DOMAIN got : \E j \in DOMAIN all : all[j] = got[k]
        BY <3>3, <4>1
      <4> QED BY <4>2 DEF Math!Range
    <3>7. Math!Range(s) \subseteq Math!Range(all)
      <4>1. DOMAIN all = 1 .. Len(all) /\ DOMAIN s = 1 .. Len(s)
        BY <3>1, <3>2
      <4>2. \A k \in DOMAIN s : \E j \in DOMAIN all : all[j] = s[k]
        BY <3>4, <4>1
      <4> QED BY <4>2 DEF Math!Range
    <3>8. Math!Range(all) \subseteq Math!Range(got) \cup Math!Range(s)
      <4>1. DOMAIN all = 1 .. Len(all)
        BY <3>2
      <4> QED BY <3>5, <4>1 DEF Math!Range
    <3> QED BY <3>2, <3>6, <3>7, <3>8 DEF s
  <2>6. Named(terms, n) = Named(terms, n - 1) \cup (t.from - 1 .. t.to - 1)
    <3>1. 1 .. n = (1 .. n - 1) \cup {n}
      OBVIOUS
    <3> QED BY <3>1 DEF Named
  <2> HIDE DEF all
  <2>7. Math!Range(all) = Named(terms, n)
    BY <2>2, <2>3, <2>5, <2>6
  <2> QED BY <2>4, <2>5, <2>7 DEF Lists, all
<1> QED BY <1>1, <1>2

\* so that the last listing has those of all terms.
LEMMA ListIs ==
  ASSUME NEW terms, Len(terms) \in Nat, NEW pageCount \in Nat, \A k \in 1 .. Len(terms) : IsTerm(terms[k])
  PROVE  Lists(terms, pageCount, Len(terms), (CHOOSE listed : ListOf(terms, pageCount, listed))[Len(terms)])
<1> DEFINE N == Len(terms)
           V == Seq(Int)
           step == [x \in (1 .. N) \X V |-> ListStep(terms[x[1]], pageCount, x[2])]
           listed == CHOOSE f : ListOf(terms, pageCount, f)
<1>1. ASSUME NEW n \in 1 .. N, NEW got \in V PROVE ListStep(terms[n], pageCount, got) \in V
  <2>1. CASE got = Math!Refused \/ ~Math!AcceptsTerm(terms[n], pageCount)
    <3>1. <<-1>> \in Seq(Int)
      OBVIOUS
    <3> QED BY <2>1, <3>1 DEF ListStep, Math!Refused
  <2>2. CASE ~(got = Math!Refused \/ ~Math!AcceptsTerm(terms[n], pageCount))
    <3>1. Listing(terms[n]) \in Seq(Int)
      BY <2>2, ListingIs
    <3>2. got \o Listing(terms[n]) \in Seq(Int)
      BY <3>1
    <3> QED BY <2>2, <3>2 DEF ListStep
  <2> QED BY <2>1, <2>2
<1>2. step \in [(1 .. N) \X V -> V] /\ <<>> \in V
  BY <1>1
<1>3. \E f : ListOf(terms, pageCount, f)
  <2> HIDE DEF step, V
  <2>1. PICK f \in [0 .. N -> V] : f[0] = <<>> /\ \A n \in 1 .. N : f[n] = step[<<n, f[n - 1]>>]
    <3>1. Iterable(N, V, <<>>, step)
      BY <1>2 DEF Iterable
    <3> QED BY <3>1, Iteration DEF Iterates
  <2>2. ASSUME NEW n \in 0 .. N PROVE f[n] = IF n = 0 THEN <<>> ELSE ListStep(terms[n], pageCount, f[n - 1])
    <3>1. CASE n = 0
      BY <2>1, <3>1
    <3>2. CASE n # 0
      <4>1. n \in 1 .. N /\ n - 1 \in 0 .. N
        BY <3>2
      <4>2. <<n, f[n - 1]>> \in (1 .. N) \X V
        BY <2>1, <4>1
      <4>3. step[<<n, f[n - 1]>>] = ListStep(terms[n], pageCount, f[n - 1])
        BY <4>2 DEF step
      <4> QED BY <2>1, <3>2, <4>1, <4>3
    <3> QED BY <3>1, <3>2
  <2>3. f = [n \in 0 .. N |-> IF n = 0 THEN <<>> ELSE ListStep(terms[n], pageCount, f[n - 1])]
    BY <2>1, <2>2
  <2> QED BY <2>3 DEF ListOf
<1>4. ListOf(terms, pageCount, listed)
  BY <1>3
<1> HIDE DEF listed, step, V
<1>5. \A n \in 0 .. N : listed[n] = IF n = 0 THEN <<>> ELSE ListStep(terms[n], pageCount, listed[n - 1])
  BY <1>4 DEF ListOf
<1> DEFINE T == {n \in Nat : n <= N => Lists(terms, pageCount, n, listed[n])}
<1>6. 0 \in T
  <2>1. listed[0] = <<>>
    BY <1>5
  <2>2. Math!Range(<<>>) = {} /\ Named(terms, 0) = {}
    BY DEF Math!Range, Named
  <2>3. <<>> \in Seq(Int) /\ 1 .. 0 = {}
    OBVIOUS
  <2>4. Lists(terms, pageCount, 0, <<>>)
    BY <2>2, <2>3 DEF Lists
  <2> QED BY <2>1, <2>4
<1>7. ASSUME NEW n \in T PROVE n + 1 \in T
  <2> SUFFICES ASSUME n + 1 <= N PROVE Lists(terms, pageCount, n + 1, listed[n + 1])
    OBVIOUS
  <2>1. n + 1 \in 1 .. N /\ n + 1 \in 0 .. N /\ (n + 1) - 1 = n /\ n + 1 \in Nat \ {0} /\ n + 1 # 0
    OBVIOUS
  <2>2. Lists(terms, pageCount, n, listed[n])
    BY <2>1
  <2> HIDE DEF T
  <2>3. listed[n + 1] = ListStep(terms[n + 1], pageCount, listed[n])
    BY <1>5, <2>1
  <2>4. Lists(terms, pageCount, (n + 1) - 1, listed[n])
    BY <2>1, <2>2
  <2>5. IsTerm(terms[n + 1])
    BY <2>1
  <2> DEFINE k == n + 1
  <2>6. k \in Nat \ {0} /\ IsTerm(terms[k]) /\ Lists(terms, pageCount, k - 1, listed[n])
    BY <2>1, <2>4, <2>5
  <2> HIDE DEF k
  <2>7. Lists(terms, pageCount, k, ListStep(terms[k], pageCount, listed[n]))
    BY <2>6, ListGrows
  <2> QED BY <2>3, <2>7 DEF k
<1>8. T = Nat
  <2> HIDE DEF T
  <2>1. T \in SUBSET Nat
    BY DEF T
  <2> QED BY <1>6, <1>7, <2>1, Induction
<1>9. Lists(terms, pageCount, N, listed[N])
  BY <1>8
<1> QED BY <1>9 DEF listed

\* PageSelection::parse: a selection is refused or names what it lists, sorted,
\* once each and within the document.
THEOREM SelectionsAreExact ==
  ASSUME NEW terms, Len(terms) \in Nat, DOMAIN terms = 1 .. Len(terms), NEW pageCount \in Nat,
         \A k \in 1 .. Len(terms) : IsTerm(terms[k])
  PROVE  Math!SelectionIsExact(terms, pageCount)
<1> DEFINE named == (CHOOSE listed : ListOf(terms, pageCount, listed))[Len(terms)]
           got == Math!Parse(terms, pageCount)
<1>1. \/ terms = <<Math!Other("all")>> /\ got = [k \in 1 .. pageCount |-> k - 1]
      \/ got = Math!Refused
      \/ named # Math!Refused /\ got = Math!Sorted(Math!Range(named))
  BY ParseIs
<1>2. Lists(terms, pageCount, Len(terms), named)
  BY ListIs
<1> HIDE DEF named, got
<1>3. ASSUME named # Math!Refused, got = Math!Sorted(Math!Range(named))
      PROVE  /\ \A k \in DOMAIN got : got[k] \in 0 .. pageCount - 1
             /\ \A j, k \in DOMAIN got : j < k => got[j] < got[k]
             /\ Math!Range(got) = UNION {terms[k].from - 1 .. terms[k].to - 1 : k \in DOMAIN terms}
  <2> DEFINE S == Math!Range(named)
  <2>1. named \in Seq(Int) /\ (\A k \in 1 .. Len(terms) : Math!AcceptsTerm(terms[k], pageCount))
        /\ S = Named(terms, Len(terms))
    BY <1>2, <1>3 DEF Lists
  <2>2. S \in SUBSET (0 .. pageCount - 1)
    <3>1. ASSUME NEW k \in 1 .. Len(terms) PROVE terms[k].from - 1 .. terms[k].to - 1 \subseteq 0 .. pageCount - 1
      <4>1. terms[k].from \in Nat /\ terms[k].to \in Nat /\ terms[k].from > 0 /\ terms[k].to <= pageCount
        BY <2>1 DEF Math!AcceptsTerm, IsTerm
      <4> QED BY <4>1
    <3> QED BY <2>1, <3>1 DEF Named
  <2>3. IsFiniteSet(S) /\ S \in SUBSET Int
    <3>1. 0 \in Int /\ pageCount - 1 \in Int
      OBVIOUS
    <3>2. IsFiniteSet(0 .. pageCount - 1)
      BY <3>1, FS_Interval
    <3> QED BY <2>2, <3>2, FS_Subset
  <2> HIDE DEF S
  <2>4. LET s == Math!Sorted(S)
        IN  /\ DOMAIN s = 1 .. Cardinality(S) /\ \A k \in DOMAIN s : s[k] \in S
            /\ \A j, k \in DOMAIN s : j < k => s[j] < s[k]
            /\ Math!Range(s) = S
    BY <2>3, SortedIs
  <2>5. got = Math!Sorted(S)
    BY <1>3 DEF S
  <2>6. S = UNION {terms[k].from - 1 .. terms[k].to - 1 : k \in DOMAIN terms}
    BY <2>1 DEF Named
  <2> QED BY <2>2, <2>4, <2>5, <2>6
<1> QED BY <1>1, <1>3 DEF Math!SelectionIsExact, got

-----------------------------------------------------------------------------
(* Sorted values: the k-th is the least with k values up to it.             *)
UpTo(values, v) == {j \in DOMAIN values : values[j] <= v}
Below(values, v) == {j \in DOMAIN values : values[j] < v}

\* Places are counted by numbers up to their number.
LEMMA CountsAre ==
  ASSUME NEW values \in Seq(Nat)
  PROVE  /\ \A v \in Int : /\ Cardinality(UpTo(values, v)) \in 0 .. Len(values)
                           /\ Cardinality(Below(values, v)) \in 0 .. Len(values)
         /\ \A S \in SUBSET DOMAIN values : IsFiniteSet(S) /\ Cardinality(S) \in 0 .. Len(values)
                                            /\ (Cardinality(S) = Len(values) => S = DOMAIN values)
         /\ \A S \in SUBSET DOMAIN values, T \in SUBSET DOMAIN values :
              S \subseteq T => Cardinality(S) <= Cardinality(T)
<1> DEFINE D == DOMAIN values
           n == Len(values)
<1>1. D = 1 .. n /\ n \in Nat
  OBVIOUS
<1> HIDE DEF n, D
<1>2. IsFiniteSet(D) /\ Cardinality(D) = n
  <2>1. CASE n = 0
    <3>1. D = {}
      BY <1>1, <2>1
    <3> QED BY <2>1, <3>1, FS_EmptySet
  <2>2. CASE n # 0
    <3>1. 1 \in Int /\ n \in Int /\ 1 <= n /\ n - 1 + 1 = n
      BY <1>1, <2>2
    <3> QED BY <1>1, <3>1, IntervalSize
  <2> QED BY <2>1, <2>2
<1>3. \A S \in SUBSET D : IsFiniteSet(S) /\ Cardinality(S) \in 0 .. n /\ (Cardinality(S) = n => S = D)
  <2> SUFFICES ASSUME NEW S \in SUBSET D
               PROVE  IsFiniteSet(S) /\ Cardinality(S) \in 0 .. n /\ (Cardinality(S) = n => S = D)
    OBVIOUS
  <2>1. IsFiniteSet(S) /\ Cardinality(S) <= n /\ (Cardinality(S) = n => S = D)
    BY <1>2, FS_Subset
  <2>2. Cardinality(S) \in Nat
    BY <2>1, FS_CardinalityType
  <2> QED BY <1>1, <2>1, <2>2
<1>4. \A S \in SUBSET D, T \in SUBSET D : S \subseteq T => Cardinality(S) <= Cardinality(T)
  BY <1>3, FS_Subset
<1>5. \A v : UpTo(values, v) \in SUBSET D /\ Below(values, v) \in SUBSET D
  BY DEF UpTo, Below, D
<1> QED BY <1>3, <1>4, <1>5 DEF D, n

\* Finitely many values have a bound.
LEMMA ValuesAreBounded ==
  ASSUME NEW values \in Seq(Nat)
  PROVE  \E top \in Nat : \A j \in DOMAIN values : values[j] <= top
<1> DEFINE T == {n \in Nat : n <= Len(values) => \E top \in Nat : \A j \in 1 .. n : values[j] <= top}
<1>1. 0 \in T
  OBVIOUS
<1>2. ASSUME NEW n \in T PROVE n + 1 \in T
  <2> SUFFICES ASSUME n + 1 <= Len(values)
               PROVE  \E top \in Nat : \A j \in 1 .. n + 1 : values[j] <= top
    OBVIOUS
  <2>1. PICK top \in Nat : \A j \in 1 .. n : values[j] <= top
    OBVIOUS
  <2>2. values[n + 1] \in Nat /\ \A j \in 1 .. n + 1 : values[j] \in Nat
    OBVIOUS
  <2> DEFINE more == top + values[n + 1]
  <2>3. more \in Nat /\ top <= more /\ values[n + 1] <= more
    BY <2>2
  <2> HIDE DEF more
  <2>4. \A j \in 1 .. n + 1 : values[j] <= more
    <3> TAKE j \in 1 .. n + 1
    <3>1. CASE j = n + 1
      BY <2>3, <3>1
    <3>2. CASE j # n + 1
      <4>1. j \in 1 .. n
        BY <3>2
      <4>2. values[j] <= top /\ values[j] \in Nat
        BY <2>1, <2>2, <4>1
      <4> QED BY <2>3, <4>2
    <3> QED BY <3>1, <3>2
  <2> QED BY <2>3, <2>4
<1>3. T = Nat
  <2> HIDE DEF T
  <2>1. T \in SUBSET Nat
    BY DEF T
  <2> QED BY <1>1, <1>2, <2>1, Induction
<1>4. Len(values) \in Nat /\ DOMAIN values = 1 .. Len(values)
  OBVIOUS
<1>5. Len(values) \in T
  <2> HIDE DEF T
  <2> QED BY <1>3, <1>4
<1>6. Len(values) <= Len(values)
  BY <1>4
<1> QED BY <1>4, <1>5, <1>6

\* There is a value with fewer than k below it and k up to it.
LEMMA OrderStatistic ==
  ASSUME NEW values \in Seq(Nat), NEW k \in 1 .. Len(values)
  PROVE  \E v \in Math!Range(values) : Cardinality(Below(values, v)) < k /\ k <= Cardinality(UpTo(values, v))
<1> DEFINE T == {v \in Nat : k <= Cardinality(UpTo(values, v))}
<1>1. T # {}
  <2>1. PICK top \in Nat : \A j \in DOMAIN values : values[j] <= top
    BY ValuesAreBounded
  <2>2. UpTo(values, top) = DOMAIN values
    BY <2>1 DEF UpTo
  <2>3. DOMAIN values = 1 .. Len(values) /\ Len(values) \in Nat
    OBVIOUS
  <2>4. Cardinality(DOMAIN values) = Len(values)
    <3>1. 1 <= Len(values) /\ 1 \in Int /\ Len(values) \in Int /\ Len(values) - 1 + 1 = Len(values)
      BY <2>3
    <3> DEFINE n == Len(values)
    <3> HIDE DEF n
    <3> QED BY <2>3, <3>1, IntervalSize DEF n
  <2> QED BY <2>1, <2>2, <2>4
<1>2. PICK v \in T : \A w \in T : v <= w
  <2>1. T \in SUBSET Nat
    OBVIOUS
  <2> HIDE DEF T
  <2> QED BY <1>1, <2>1, LeastNatural
<1>3. v \in Nat /\ k <= Cardinality(UpTo(values, v))
  OBVIOUS
<1>4. Cardinality(Below(values, v)) < k
  <2>1. CASE v = 0
    <3>1. \A j \in DOMAIN values : values[j] \in Nat
      OBVIOUS
    <3>2. Below(values, v) = {}
      BY <2>1, <3>1 DEF Below
    <3> QED BY <3>2, FS_EmptySet
  <2>2. CASE v # 0
    <3>1. v - 1 \in Nat /\ ~(v <= v - 1) /\ v - 1 \in Int
      BY <1>3, <2>2
    <3>2. ~(k <= Cardinality(UpTo(values, v - 1)))
      BY <1>2, <3>1
    <3>3. Below(values, v) = UpTo(values, v - 1)
      <4>1. \A j \in DOMAIN values : values[j] \in Nat
        OBVIOUS
      <4>2. \A j \in DOMAIN values : values[j] < v <=> values[j] <= v - 1
        BY <1>3, <4>1
      <4> QED BY <4>2 DEF Below, UpTo
    <3>4. Cardinality(UpTo(values, v - 1)) \in 0 .. Len(values)
      BY <3>1, CountsAre
    <3> QED BY <3>2, <3>3, <3>4
  <2> QED BY <2>1, <2>2
<1>5. v \in Math!Range(values)
  <2>1. Below(values, v) # UpTo(values, v)
    <3> DEFINE a == Cardinality(Below(values, v))
               b == Cardinality(UpTo(values, v))
    <3>1. a \in Nat /\ b \in Nat
      <4>1. v \in Int
        BY <1>3
      <4> QED BY <4>1, CountsAre
    <3>2. a < k /\ k <= b
      BY <1>3, <1>4
    <3> HIDE DEF a, b
    <3>3. a # b
      BY <3>1, <3>2
    <3> QED BY <3>3 DEF a, b
  <2>2. \A j \in DOMAIN values : values[j] \in Nat
    OBVIOUS
  <2>3. PICK j \in DOMAIN values : values[j] <= v /\ ~(values[j] < v)
    <3>1. \A j \in DOMAIN values : values[j] < v => values[j] <= v
      BY <1>3, <2>2
    <3> QED BY <2>1, <3>1 DEF Below, UpTo
  <2>4. values[j] = v
    BY <1>3, <2>2, <2>3
  <2> QED BY <2>4 DEF Math!Range
<1> QED BY <1>3, <1>4, <1>5

\* What is counted up to a value is below every greater one.
LEMMA CountsRise ==
  ASSUME NEW values \in Seq(Nat), NEW v \in Int, NEW w \in Int
  PROVE  /\ v < w => Cardinality(UpTo(values, v)) <= Cardinality(Below(values, w))
         /\ v <= w => Cardinality(UpTo(values, v)) <= Cardinality(UpTo(values, w))
                      /\ Cardinality(Below(values, v)) <= Cardinality(Below(values, w))
<1>1. \A j \in DOMAIN values : values[j] \in Nat
  OBVIOUS
<1>2. v < w => UpTo(values, v) \subseteq Below(values, w)
  BY <1>1 DEF UpTo, Below
<1>3. v <= w => UpTo(values, v) \subseteq UpTo(values, w) /\ Below(values, v) \subseteq Below(values, w)
  BY <1>1 DEF UpTo, Below
<1>4. \A u : UpTo(values, u) \in SUBSET DOMAIN values /\ Below(values, u) \in SUBSET DOMAIN values
  BY DEF UpTo, Below
<1> QED BY <1>2, <1>3, <1>4, CountsAre

\* So the sorted values are in order, each at its rank.
LEMMA SortedValuesAre ==
  ASSUME NEW values \in Seq(Nat)
  PROVE  LET s == Math!SortedValues(values)
         IN  /\ s \in Seq(Nat) /\ Len(s) = Len(values) /\ Ascending(s)
             /\ \A k \in 1 .. Len(values) : /\ s[k] \in Math!Range(values)
                                            /\ Cardinality(Below(values, s[k])) < k
                                            /\ k <= Cardinality(UpTo(values, s[k]))
<1> DEFINE s == Math!SortedValues(values)
           n == Len(values)
<1>1. n \in Nat /\ DOMAIN values = 1 .. n /\ \A j \in DOMAIN values : values[j] \in Nat
  OBVIOUS
<1>2. s = [k \in DOMAIN values |-> CHOOSE v \in Math!Range(values) :
             Cardinality(Below(values, v)) < k /\ k <= Cardinality(UpTo(values, v))]
  <2>1. \A v : Math!Cardinality({j \in DOMAIN values : values[j] < v}) = Cardinality(Below(values, v))
    BY SameCardinality DEF Below
  <2>2. \A v : Math!Cardinality({j \in DOMAIN values : values[j] <= v}) = Cardinality(UpTo(values, v))
    BY SameCardinality DEF UpTo
  <2> QED BY <2>1, <2>2 DEF Math!SortedValues
<1> HIDE DEF s
<1>3. ASSUME NEW k \in 1 .. n
      PROVE  s[k] \in Math!Range(values) /\ Cardinality(Below(values, s[k])) < k
             /\ k <= Cardinality(UpTo(values, s[k]))
  <2>1. s[k] = CHOOSE v \in Math!Range(values) :
                 Cardinality(Below(values, v)) < k /\ k <= Cardinality(UpTo(values, v))
    BY <1>1, <1>2
  <2> QED BY <2>1, OrderStatistic
<1>4. Math!Range(values) \subseteq Nat
  BY <1>1 DEF Math!Range
<1>5. s \in Seq(Nat) /\ Len(s) = n
  <2> HIDE DEF n
  <2>1. DOMAIN s = 1 .. n /\ s = [k \in DOMAIN s |-> s[k]]
    BY <1>1, <1>2
  <2>2. \A k \in 1 .. n : s[k] \in Nat
    BY <1>3, <1>4
  <2>3. s \in [1 .. n -> Nat]
    BY <2>1, <2>2
  <2> QED BY <1>1, <2>3
<1>6. ASSUME NEW i \in 1 .. n, NEW j \in 1 .. n, i <= j PROVE s[i] <= s[j]
  <2>1. s[i] \in Nat /\ s[j] \in Nat
    BY <1>3, <1>4
  <2>2. ASSUME s[j] < s[i] PROVE FALSE
    <3> DEFINE a == Cardinality(UpTo(values, s[j]))
               b == Cardinality(Below(values, s[i]))
    <3>1. a <= b
      <4> DEFINE v == s[j]
                 w == s[i]
      <4>1. v \in Int /\ w \in Int /\ v < w
        BY <2>1, <2>2
      <4> HIDE DEF v, w
      <4>2. Cardinality(UpTo(values, v)) <= Cardinality(Below(values, w))
        BY <4>1, CountsRise
      <4> QED BY <4>2 DEF v, w
    <3>2. b < i /\ j <= a
      BY <1>3
    <3>3. a \in Nat /\ b \in Nat /\ i \in Nat /\ j \in Nat
      <4> DEFINE v == s[j]
                 w == s[i]
      <4>1. v \in Int /\ w \in Int
        BY <2>1
      <4> HIDE DEF v, w
      <4>2. Cardinality(UpTo(values, v)) \in 0 .. n /\ Cardinality(Below(values, w)) \in 0 .. n
        BY <4>1, CountsAre
      <4> HIDE DEF n
      <4>3. Cardinality(UpTo(values, v)) \in Nat /\ Cardinality(Below(values, w)) \in Nat
        BY <1>1, <4>2
      <4> QED BY <1>1, <4>3 DEF v, w
    <3> HIDE DEF a, b
    <3> QED BY <1>6, <3>1, <3>2, <3>3
  <2> QED BY <2>1, <2>2
<1>7. Ascending(s)
  BY <1>5, <1>6 DEF Ascending
<1> QED BY <1>3, <1>5, <1>7 DEF s

\* A sum rises with the values it adds,
LEMMA SumRises ==
  ASSUME NEW S, IsFiniteSet(S), NEW f, NEW g, \A x \in S : f[x] \in Int /\ g[x] \in Int /\ f[x] <= g[x]
  PROVE  Sum(f, S) <= Sum(g, S)
<1> DEFINE Bounded == {s \in SUBSET S : Sum(f, s) <= Sum(g, s)}
<1>1. {} \in Bounded
  <2>1. Sum(f, {}) = 0 /\ Sum(g, {}) = 0
    BY SumEmpty
  <2> QED BY <2>1
<1>2. ASSUME NEW s \in Bounded, NEW x \in S, x \notin s PROVE s \cup {x} \in Bounded
  <2>1. IsFiniteSet(s) /\ (\A y \in s : f[y] \in Int) /\ (\A y \in s : g[y] \in Int)
    BY FS_Subset
  <2>2. Sum(f, s \cup {x}) = f[x] + Sum(f, s) /\ Sum(g, s \cup {x}) = g[x] + Sum(g, s)
    BY <1>2, <2>1, SumInsert
  <2>3. Sum(f, s) \in Int /\ Sum(g, s) \in Int
    BY <2>1, SumType
  <2> QED BY <2>2, <2>3
<1>3. S \in Bounded
  <2> HIDE DEF Bounded
  <2>1. Bounded \in SUBSET SUBSET S
    BY DEF Bounded
  <2> QED BY <1>1, <1>2, <2>1, FiniteInduction
<1> QED BY <1>3

\* and lies between multiples of its bounds.
LEMMA SumIsBetween ==
  ASSUME NEW S, IsFiniteSet(S), NEW f, NEW a \in Int, NEW b \in Int,
         \A x \in S : f[x] \in Int /\ a <= f[x] /\ f[x] <= b
  PROVE  a * Cardinality(S) <= Sum(f, S) /\ Sum(f, S) <= b * Cardinality(S)
<1> DEFINE low == [x \in S |-> a]
           high == [x \in S |-> b]
<1>1. \A x \in S : low[x] = a /\ high[x] = b /\ low[x] <= f[x] /\ f[x] <= high[x]
  OBVIOUS
<1> HIDE DEF low, high
<1>2. Sum(low, S) = a * Cardinality(S)
  BY <1>1, SumConstant
<1>3. Sum(high, S) = b * Cardinality(S)
  BY <1>1, SumConstant
<1>4. \A x \in S : low[x] \in Int /\ f[x] \in Int /\ low[x] <= f[x]
  BY <1>1
<1>5. \A x \in S : f[x] \in Int /\ high[x] \in Int /\ f[x] <= high[x]
  BY <1>1
<1>6. Sum(low, S) <= Sum(f, S)
  BY <1>4, SumRises
<1>7. Sum(f, S) <= Sum(high, S)
  BY <1>5, SumRises
<1> QED BY <1>2, <1>3, <1>6, <1>7

\* The total of a sequence is the sum over its places.
LEMMA TotalIs == ASSUME NEW seq PROVE Math!Total(seq) = Sum(seq, DOMAIN seq)
BY Zenon DEF Math!Total, Math!SumFunctionOnSet, Math!FoldFunctionOnSet, Math!MapThenFoldSet,
             Sum, Img!SumFunctionOnSet, Img!FoldFunctionOnSet, Img!MapThenFoldSet

\* No more than its share of the values is below a quartile, and no less up to it.
LEMMA QuartileCounts ==
  ASSUME NEW values \in Seq(Nat), values # <<>>, NEW k \in 1 .. 3
  PROVE  LET n == Len(values)
             q == Math!Quartile4(values, k)
         IN  /\ 4 * Cardinality({j \in DOMAIN values : 4 * values[j] < q}) <= k * n + 3
             /\ 4 * Cardinality({j \in DOMAIN values : 4 * values[j] <= q}) >= k * (n - 1)
<1> DEFINE n == Len(values)
           s == Math!SortedValues(values)
           rank == k * (n - 1)
           q == Math!AtRank4(s, rank)
           under == {j \in DOMAIN values : 4 * values[j] < q}
           upto == {j \in DOMAIN values : 4 * values[j] <= q}
<1>1. n \in Nat \ {0} /\ \A j \in DOMAIN values : values[j] \in Nat
  OBVIOUS
<1>2. /\ s \in Seq(Nat) /\ Len(s) = n /\ Ascending(s)
      /\ \A i \in 1 .. n : /\ Cardinality(Below(values, s[i])) < i
                           /\ i <= Cardinality(UpTo(values, s[i]))
  BY SortedValuesAre
<1> HIDE DEF s
<1>3. q = Math!Quartile4(values, k)
  BY DEF Math!Quartile4, s
<1>4. rank \in Nat /\ rank <= 3 * (n - 1)
  <2> HIDE DEF n
  <2>1. k = 1 \/ k = 2 \/ k = 3
    OBVIOUS
  <2>2. n - 1 \in Nat
    BY <1>1
  <2> QED BY <2>1, <2>2
<1> HIDE DEF n, rank
<1>5. PICK i \in Nat \ {0}, r \in 0 .. 3 : rank = Rank(i, r)
  BY <1>4, RankIs
<1>6. i \in 1 .. n /\ (r # 0 => i + 1 \in 1 .. n) /\ rank = 4 * (i - 1) + r /\ r \in {0, 1, 2, 3}
  BY <1>1, <1>4, <1>5 DEF Rank
<1>7. Mixed(s, i, r, q)
  BY <1>5, AtRankIs DEF Mixed
<1> HIDE DEF q
<1>8. q \in Nat /\ 4 * s[i] <= q /\ (i + 1 \in 1 .. n => q <= 4 * s[i + 1])
  BY <1>2, <1>6, <1>7, MixedIsBetween
<1>9. s[i] \in Nat /\ (r # 0 => s[i + 1] \in Nat)
  BY <1>2, <1>6
<1>10. under \in SUBSET DOMAIN values /\ upto \in SUBSET DOMAIN values
       /\ \A v : UpTo(values, v) \in SUBSET DOMAIN values /\ Below(values, v) \in SUBSET DOMAIN values
  BY DEF UpTo, Below
<1>11. Cardinality(under) \in Nat /\ Cardinality(upto) \in Nat
  <2>1. Cardinality(under) \in 0 .. n /\ Cardinality(upto) \in 0 .. n
    BY <1>10, CountsAre DEF n
  <2> QED BY <1>1, <2>1
<1>12. i <= Cardinality(upto)
  <2>1. UpTo(values, s[i]) \subseteq upto
    BY <1>1, <1>8, <1>9 DEF UpTo
  <2>2. Cardinality(UpTo(values, s[i])) <= Cardinality(upto)
    BY <1>10, <2>1, CountsAre
  <2>3. i <= Cardinality(UpTo(values, s[i])) /\ Cardinality(UpTo(values, s[i])) \in 0 .. n
    BY <1>2, <1>6, <1>10, CountsAre DEF n
  <2> QED BY <1>11, <2>2, <2>3
<1>13. r = 0 => Cardinality(under) < i
  <2> SUFFICES ASSUME r = 0 PROVE Cardinality(under) < i
    OBVIOUS
  <2>1. q = 4 * s[i]
    BY <1>7 DEF Mixed
  <2>2. under = Below(values, s[i])
    BY <1>1, <1>9, <2>1 DEF Below
  <2> QED BY <1>2, <1>6, <2>2
<1>14. r # 0 => Cardinality(under) < i + 1
  <2> SUFFICES ASSUME r # 0 PROVE Cardinality(under) < i + 1
    OBVIOUS
  <2>1. under \subseteq Below(values, s[i + 1])
    BY <1>1, <1>6, <1>8, <1>9 DEF Below
  <2>2. Cardinality(under) <= Cardinality(Below(values, s[i + 1]))
    BY <1>10, <2>1, CountsAre
  <2>3. Cardinality(Below(values, s[i + 1])) < i + 1 /\ Cardinality(Below(values, s[i + 1])) \in 0 .. n
    BY <1>2, <1>6, <1>10, CountsAre DEF n
  <2> QED BY <1>6, <1>11, <2>2, <2>3
<1> HIDE DEF under, upto
<1>15. 4 * Cardinality(under) <= rank + 3 /\ 4 * Cardinality(upto) >= rank
  BY <1>6, <1>11, <1>12, <1>13, <1>14
<1>16. rank + 3 <= k * n + 3 /\ k * n \in Nat
  <2>1. k = 1 \/ k = 2 \/ k = 3
    OBVIOUS
  <2> QED BY <1>1, <2>1 DEF rank
<1>17. 4 * Cardinality(under) <= k * n + 3
  BY <1>4, <1>11, <1>15, <1>16
<1> QED BY <1>3, <1>15, <1>17 DEF under, upto, n, rank

\* A mean lies between the least and the greatest value.
LEMMA MeanIsBetween ==
  ASSUME NEW s \in Seq(Nat), s # <<>>, Ascending(s)
  PROVE  /\ Math!Total(s) \in Int
         /\ s[1] * Len(s) <= Math!Total(s) /\ Math!Total(s) <= s[Len(s)] * Len(s)
<1> DEFINE n == Len(s)
           a == s[1]
           b == s[n]
<1>1. n \in Nat \ {0} /\ DOMAIN s = 1 .. n
  OBVIOUS
<1>2. a \in Nat /\ b \in Nat
  BY <1>1
<1>3. \A j \in 1 .. n : s[j] \in Int /\ a <= s[j] /\ s[j] <= b
  BY <1>1 DEF Ascending
<1>4. IsFiniteSet(1 .. n) /\ Cardinality(1 .. n) = n
  <2> HIDE DEF n
  <2>1. 1 \in Int /\ n \in Int /\ 1 <= n /\ n - 1 + 1 = n
    BY <1>1
  <2> QED BY <2>1, IntervalSize
<1>5. Math!Total(s) = Sum(s, 1 .. n)
  BY <1>1, TotalIs
<1> HIDE DEF n, a, b
<1>6. a * n <= Sum(s, 1 .. n) /\ Sum(s, 1 .. n) <= b * n
  <2>1. a \in Int /\ b \in Int
    BY <1>2
  <2>2. a * Cardinality(1 .. n) <= Sum(s, 1 .. n) /\ Sum(s, 1 .. n) <= b * Cardinality(1 .. n)
    BY <1>3, <1>4, <2>1, SumIsBetween
  <2> QED BY <1>4, <2>2
<1>7. Sum(s, 1 .. n) \in Int
  BY <1>3, <1>4, SumType
<1> QED BY <1>5, <1>6, <1>7 DEF n, a, b

\* quartiles and aggregate_page_durations of any values: the two medians are
\* one, the quartiles are in order, and each divides the values as it should.
THEOREM QuartilesDivideValues ==
  ASSUME NEW values \in Seq(Nat), values # <<>>
  PROVE  Math!QuartilesDivide(values)
<1> DEFINE n == Len(values)
           s == Math!SortedValues(values)
           q == [k \in 1 .. 3 |-> Math!Quartile4(values, k)]
           stats == Math!DurationStats(values)
           under(v) == {j \in DOMAIN values : 4 * values[j] < v}
           upto(v) == {j \in DOMAIN values : 4 * values[j] <= v}
<1>1. n \in Nat \ {0}
  OBVIOUS
<1>2. s \in Seq(Nat) /\ Len(s) = n /\ Ascending(s) /\ s # <<>>
  <2>1. s \in Seq(Nat) /\ Len(s) = n /\ Ascending(s)
    BY SortedValuesAre
  <2>2. Len(<<>>) = 0
    OBVIOUS
  <2> HIDE DEF s
  <2> QED BY <1>1, <2>1, <2>2
<1>3. /\ 4 * s[1] <= Math!AtRank4(s, 1 * (n - 1)) /\ Math!AtRank4(s, 1 * (n - 1)) <= Math!AtRank4(s, 2 * (n - 1))
      /\ Math!AtRank4(s, 2 * (n - 1)) <= Math!AtRank4(s, 3 * (n - 1)) /\ Math!AtRank4(s, 3 * (n - 1)) <= 4 * s[n]
      /\ Math!AtRank4(s, 2 * (n - 1)) = 2 * Math!Middle2(s, n)
  <2> HIDE DEF s
  <2> QED BY <1>2, QuartilesAreInOrder
<1>4. q[1] = Math!AtRank4(s, 1 * (n - 1)) /\ q[2] = Math!AtRank4(s, 2 * (n - 1)) /\ q[3] = Math!AtRank4(s, 3 * (n - 1))
  BY DEF Math!Quartile4
<1>5. Math!Median2(values) = Math!Middle2(s, n)
  BY DEF Math!Median2
<1>6. stats = [min |-> s[1], max |-> s[Len(s)], mean |-> [n |-> Math!Total(s), d |-> Len(s)], median2 |-> Math!Median2(s)]
  BY DEF Math!DurationStats, Math!Last, Math!Ratio
<1>7. s[1] * n <= Math!Total(s) /\ Math!Total(s) <= s[n] * n
  <2> HIDE DEF s
  <2> QED BY <1>2, MeanIsBetween
<1>8. \A k \in 1 .. 3 : /\ 4 * Math!Cardinality(under(q[k])) <= k * n + 3
                        /\ 4 * Math!Cardinality(upto(q[k])) >= k * (n - 1)
  <2> SUFFICES ASSUME NEW k \in 1 .. 3
               PROVE  /\ 4 * Math!Cardinality(under(q[k])) <= k * n + 3
                      /\ 4 * Math!Cardinality(upto(q[k])) >= k * (n - 1)
    OBVIOUS
  <2>1. q[k] = Math!Quartile4(values, k)
    OBVIOUS
  <2>2. /\ 4 * Cardinality(under(q[k])) <= k * n + 3
        /\ 4 * Cardinality(upto(q[k])) >= k * (n - 1)
    BY <2>1, QuartileCounts
  <2>3. /\ Math!Cardinality(under(q[k])) = Cardinality(under(q[k]))
        /\ Math!Cardinality(upto(q[k])) = Cardinality(upto(q[k]))
    BY SameCardinality
  <2> QED BY <2>2, <2>3
<1>9. Math!QuartilesDivide(values) =
        /\ q[2] = 2 * Math!Median2(values)
        /\ 4 * stats.min <= q[1] /\ q[1] <= q[2] /\ q[2] <= q[3] /\ q[3] <= 4 * stats.max
        /\ stats.min * stats.mean.d <= stats.mean.n /\ stats.mean.n <= stats.max * stats.mean.d
        /\ \A k \in 1 .. 3 : /\ 4 * Math!Cardinality(under(q[k])) <= k * n + 3
                             /\ 4 * Math!Cardinality(upto(q[k])) >= k * (n - 1)
  BY DEF Math!QuartilesDivide
<1> HIDE DEF q, s, under, upto, stats, n
<1> QED BY <1>2, <1>3, <1>4, <1>5, <1>6, <1>7, <1>8, <1>9

\* No more than half of the values are above twice their median.
LEMMA MedianCount ==
  ASSUME NEW values \in Seq(Nat), values # <<>>
  PROVE  /\ Math!Median2(values) \in Nat
         /\ 2 * Cardinality({j \in DOMAIN values : values[j] > Math!Median2(values)}) <= Len(values)
<1> DEFINE n == Len(values)
           s == Math!SortedValues(values)
           m == n \div 2
           mid == Math!Middle2(s, n)
           over == {j \in DOMAIN values : values[j] > mid}
<1>1. n \in Nat \ {0} /\ DOMAIN values = 1 .. n /\ \A j \in DOMAIN values : values[j] \in Nat
  OBVIOUS
<1>2. mid = Math!Median2(values)
  BY DEF Math!Median2
<1>3. s \in Seq(Nat) /\ Len(s) = n /\ \A i \in 1 .. n : i <= Cardinality(UpTo(values, s[i]))
  BY SortedValuesAre
<1> HIDE DEF s, n
<1>4. m \in Nat /\ 2 * m <= n /\ n <= 2 * m + 1 /\ m + 1 \in 1 .. n /\ (n % 2 = 1 \/ n % 2 = 0)
      /\ (n % 2 = 0 => m \in 1 .. n)
  BY <1>1
<1>5. mid \in Nat /\ s[m + 1] <= mid /\ s[m + 1] \in Nat
  <2>1. s[m + 1] \in Nat /\ (m \in 1 .. n => s[m] \in Nat)
    <3>1. \A i \in 1 .. n : s[i] \in Nat
      BY <1>3
    <3> HIDE DEF m
    <3> QED BY <1>4, <3>1
  <2>2. CASE n % 2 = 1
    <3>1. mid = 2 * s[m + 1]
      BY <2>2 DEF Math!Middle2
    <3> HIDE DEF mid, m
    <3> QED BY <2>1, <3>1
  <2>3. CASE n % 2 = 0
    <3>1. mid = s[m] + s[m + 1] /\ s[m] \in Nat
      BY <1>4, <2>1, <2>3 DEF Math!Middle2
    <3> HIDE DEF mid, m
    <3> QED BY <2>1, <3>1
  <2> QED BY <1>4, <2>2, <2>3
<1> DEFINE half == UpTo(values, s[m + 1])
<1>6. over \subseteq DOMAIN values \ half /\ half \subseteq DOMAIN values
  BY <1>1, <1>5 DEF UpTo
<1>7. m + 1 <= Cardinality(half)
  BY <1>3, <1>4
<1> HIDE DEF over, half, mid, m
<1>8. IsFiniteSet(DOMAIN values) /\ Cardinality(DOMAIN values) = n
  <2>1. 1 \in Int /\ n \in Int /\ 1 <= n /\ n - 1 + 1 = n
    BY <1>1
  <2> QED BY <1>1, <2>1, IntervalSize
<1>9. Cardinality(DOMAIN values \ half) = n - Cardinality(half) /\ IsFiniteSet(half) /\ IsFiniteSet(DOMAIN values \ half)
  <2>1. IsFiniteSet(half) /\ DOMAIN values \cap half = half
    BY <1>6, <1>8, FS_Subset
  <2>2. IsFiniteSet(DOMAIN values \ half)
    BY <1>8, FS_Subset
  <2>3. Cardinality(DOMAIN values \ half) = Cardinality(DOMAIN values) - Cardinality(DOMAIN values \cap half)
    BY <1>8, <2>1, FS_Difference
  <2> QED BY <1>8, <2>1, <2>2, <2>3
<1>10. Cardinality(over) <= Cardinality(DOMAIN values \ half) /\ IsFiniteSet(over)
  BY <1>6, <1>9, FS_Subset
<1>11. Cardinality(over) \in Nat /\ Cardinality(half) \in Nat
  BY <1>9, <1>10, FS_CardinalityType
<1>12. 2 * Cardinality(over) <= n
  BY <1>1, <1>4, <1>7, <1>9, <1>10, <1>11
<1> QED BY <1>2, <1>5, <1>12 DEF over, mid, n

\* The largest page has the greatest value, and the smallest the least.
LEMMA ExtremesAre ==
  ASSUME NEW values \in Seq(Nat), values # <<>>
  PROVE  /\ Math!LargestPage(values) \in DOMAIN values
         /\ \A j \in DOMAIN values : values[j] <= values[Math!LargestPage(values)]
         /\ Math!SmallestPage(values) \in DOMAIN values
         /\ \A j \in DOMAIN values : values[Math!SmallestPage(values)] <= values[j]
<1> DEFINE n == Len(values)
           s == Math!SortedValues(values)
<1>1. n \in Nat \ {0} /\ DOMAIN values = 1 .. n /\ \A j \in DOMAIN values : values[j] \in Nat
  OBVIOUS
<1>2. /\ s \in Seq(Nat) /\ Len(s) = n
      /\ \A i \in 1 .. n : /\ s[i] \in Math!Range(values) /\ Cardinality(Below(values, s[i])) < i
                           /\ i <= Cardinality(UpTo(values, s[i]))
  BY SortedValuesAre
<1> HIDE DEF s, n
<1>3. 1 \in 1 .. n /\ n \in 1 .. n
  BY <1>1
<1>4. s[1] \in Nat /\ s[n] \in Nat
  BY <1>2, <1>3
<1>5. \A S \in SUBSET DOMAIN values : IsFiniteSet(S) /\ Cardinality(S) \in 0 .. n
                                      /\ (Cardinality(S) = n => S = DOMAIN values)
  BY CountsAre DEF n
<1>6. \A j \in DOMAIN values : values[j] <= s[n]
  <2>1. UpTo(values, s[n]) \in SUBSET DOMAIN values
    BY DEF UpTo
  <2>2. n <= Cardinality(UpTo(values, s[n])) /\ Cardinality(UpTo(values, s[n])) \in 0 .. n
    BY <1>2, <1>3, <1>5, <2>1
  <2>3. Cardinality(UpTo(values, s[n])) = n
    BY <1>1, <2>2
  <2>4. UpTo(values, s[n]) = DOMAIN values
    BY <1>5, <2>1, <2>3
  <2> QED BY <2>4 DEF UpTo
<1>7. \A j \in DOMAIN values : s[1] <= values[j]
  <2>1. Below(values, s[1]) \in SUBSET DOMAIN values
    BY DEF Below
  <2>2. Cardinality(Below(values, s[1])) < 1 /\ Cardinality(Below(values, s[1])) \in 0 .. n
    BY <1>2, <1>3, <1>5, <2>1
  <2>3. Cardinality(Below(values, s[1])) = 0 /\ IsFiniteSet(Below(values, s[1]))
    BY <1>1, <1>5, <2>1, <2>2
  <2>4. Below(values, s[1]) = {}
    BY <2>3, FS_EmptySet
  <2>5. \A j \in DOMAIN values : ~(values[j] < s[1])
    BY <2>4 DEF Below
  <2> QED BY <1>1, <1>4, <2>5
<1>8. \E k \in DOMAIN values : \A j \in DOMAIN values :
        values[j] < values[k] \/ (values[j] = values[k] /\ j <= k)
  <2> DEFINE J == {j \in DOMAIN values : values[j] = s[n]}
             k == Img!Greatest(J)
  <2>1. J # {}
    BY <1>2, <1>3 DEF Math!Range
  <2>2. n \in Int /\ \A j \in J : j \in Int /\ j <= n
    BY <1>1
  <2>3. k \in J /\ \A j \in J : j <= k
    <3> HIDE DEF J
    <3> QED BY <2>1, <2>2, GreatestIs
  <2> HIDE DEF k
  <2>4. k \in DOMAIN values /\ values[k] = s[n]
    BY <2>3
  <2>5. ASSUME NEW j \in DOMAIN values PROVE values[j] < values[k] \/ (values[j] = values[k] /\ j <= k)
    <3>1. CASE values[j] = s[n]
      BY <2>3, <2>4, <3>1
    <3>2. CASE values[j] # s[n]
      <4>1. values[j] <= s[n] /\ values[j] \in Nat
        BY <1>1, <1>6
      <4> QED BY <1>4, <2>4, <3>2, <4>1
    <3> QED BY <3>1, <3>2
  <2> QED BY <2>4, <2>5
<1>9. \E k \in DOMAIN values : \A j \in DOMAIN values :
        values[j] > values[k] \/ (values[j] = values[k] /\ j >= k)
  <2> DEFINE J == {j \in DOMAIN values : values[j] = s[1]}
  <2>1. J # {} /\ J \in SUBSET Nat
    BY <1>1, <1>2, <1>3 DEF Math!Range
  <2>2. PICK k \in J : \A j \in J : k <= j
    <3> HIDE DEF J
    <3> QED BY <2>1, LeastNatural
  <2>3. k \in DOMAIN values /\ values[k] = s[1] /\ k \in Nat
    BY <2>1, <2>2
  <2>4. ASSUME NEW j \in DOMAIN values PROVE values[j] > values[k] \/ (values[j] = values[k] /\ j >= k)
    <3>1. CASE values[j] = s[1]
      <4>1. k <= j /\ j \in Nat
        BY <1>1, <2>2, <3>1
      <4> QED BY <2>3, <3>1, <4>1
    <3>2. CASE values[j] # s[1]
      <4>1. s[1] <= values[j] /\ values[j] \in Nat
        BY <1>1, <1>7
      <4> QED BY <1>4, <2>3, <3>2, <4>1
    <3> QED BY <3>1, <3>2
  <2> QED BY <2>3, <2>4
<1>10. Math!LargestPage(values) \in DOMAIN values /\ \A j \in DOMAIN values :
         values[j] < values[Math!LargestPage(values)] \/ values[j] = values[Math!LargestPage(values)]
  BY <1>8 DEF Math!LargestPage
<1>11. Math!SmallestPage(values) \in DOMAIN values /\ \A j \in DOMAIN values :
         values[j] > values[Math!SmallestPage(values)] \/ values[j] = values[Math!SmallestPage(values)]
  BY <1>9 DEF Math!SmallestPage
<1> DEFINE large == Math!LargestPage(values)
           small == Math!SmallestPage(values)
<1> HIDE DEF large, small
<1>12. large \in DOMAIN values /\ \A j \in DOMAIN values : values[j] <= values[large]
  BY <1>1, <1>10 DEF large
<1>13. small \in DOMAIN values /\ \A j \in DOMAIN values : values[small] <= values[j]
  BY <1>1, <1>11 DEF small
<1> QED BY <1>12, <1>13 DEF large, small

IsMeasured(p) == p.bytes \in Nat /\ p.duration \in Nat /\ p.black \in Nat

\* One measurement of all pages is a sequence of numbers.
LEMMA FieldIs ==
  ASSUME NEW S, NEW book \in Seq(S), book # <<>>, NEW f, \A k \in DOMAIN book : book[k][f] \in Nat
  PROVE  /\ Math!Field(book, f) \in Seq(Nat) /\ Math!Field(book, f) # <<>>
         /\ DOMAIN Math!Field(book, f) = DOMAIN book /\ Len(Math!Field(book, f)) = Len(book)
         /\ \A k \in DOMAIN book : Math!Field(book, f)[k] = book[k][f]
<1> DEFINE s == Math!Field(book, f)
           n == Len(book)
<1>1. n \in Nat \ {0} /\ DOMAIN book = 1 .. n
  OBVIOUS
<1>2. s = [k \in 1 .. n |-> book[k][f]]
  BY <1>1 DEF Math!Field
<1>3. DOMAIN s = 1 .. n /\ \A k \in 1 .. n : s[k] = book[k][f]
  BY <1>2
<1> HIDE DEF s, n
<1>4. s \in [1 .. n -> Nat]
  BY <1>1, <1>2, <1>3
<1>5. s \in Seq(Nat) /\ Len(s) = n
  BY <1>1, <1>4
<1>6. Len(<<>>) = 0
  OBVIOUS
<1>7. s # <<>>
  BY <1>1, <1>5, <1>6
<1> QED BY <1>1, <1>3, <1>5, <1>7 DEF s, n

\* Each warning says of a page what it compares.
LEMMA WarningsAre ==
  ASSUME NEW p, NEW b, NEW d, NEW k
  PROVE  /\ "large_output" \in Math!Warnings(p, b, d, k) <=> b > 0 /\ p.bytes > b
         /\ "slow_processing" \in Math!Warnings(p, b, d, k) <=> d > 0 /\ p.duration > d
         /\ "high_ink_ratio" \in Math!Warnings(p, b, d, k) <=> 2 * p.black > k + 30
         /\ "low_ink_ratio" \in Math!Warnings(p, b, d, k) <=> 2 * p.black < k - 30
<1> DEFINE names == {"large_output", "slow_processing", "high_ink_ratio", "low_ink_ratio"}
           says(w) == CASE w = "large_output" -> b > 0 /\ p.bytes > b
                        [] w = "slow_processing" -> d > 0 /\ p.duration > d
                        [] w = "high_ink_ratio" -> 2 * p.black > k + 30
                        [] w = "low_ink_ratio" -> 2 * p.black < k - 30
<1>1. Math!Warnings(p, b, d, k) = {w \in names : says(w)}
  BY DEF Math!Warnings
<1>2. says("large_output") = (b > 0 /\ p.bytes > b)
  OBVIOUS
<1>3. says("slow_processing") = (d > 0 /\ p.duration > d)
  OBVIOUS
<1>4. says("high_ink_ratio") = (2 * p.black > k + 30)
  OBVIOUS
<1>5. says("low_ink_ratio") = (2 * p.black < k - 30)
  OBVIOUS
<1>6. \A w \in names : w \in Math!Warnings(p, b, d, k) <=> says(w)
  <2> HIDE DEF says, names
  <2> QED BY <1>1
<1>7. {"large_output", "slow_processing", "high_ink_ratio", "low_ink_ratio"} \subseteq names
  OBVIOUS
<1> HIDE DEF says, names
<1> QED BY <1>2, <1>3, <1>4, <1>5, <1>6, <1>7

\* Those above twice the median: never more than half, and if any then the
\* greatest and not the least.
LEMMA FlaggedAre ==
  ASSUME NEW values \in Seq(Nat), values # <<>>, NEW with, 
         \A k : k \in with <=> k \in DOMAIN values /\ Math!Median2(values) > 0 /\ values[k] > Math!Median2(values)
  PROVE  /\ 2 * Cardinality(with) <= Len(values)
         /\ with # {} => Math!LargestPage(values) \in with /\ Math!SmallestPage(values) \notin with
<1> DEFINE mid == Math!Median2(values)
           over == {j \in DOMAIN values : values[j] > mid}
           large == Math!LargestPage(values)
           small == Math!SmallestPage(values)
           n == Len(values)
<1>1. mid \in Nat /\ 2 * Cardinality(over) <= n
  BY MedianCount
<1>2. n \in Nat \ {0} /\ \A j \in DOMAIN values : values[j] \in Nat
  OBVIOUS
<1>3. /\ large \in DOMAIN values /\ \A j \in DOMAIN values : values[j] <= values[large]
      /\ small \in DOMAIN values /\ \A j \in DOMAIN values : values[small] <= values[j]
  BY ExtremesAre
<1>4. over \in SUBSET DOMAIN values /\ with \in SUBSET over
  OBVIOUS
<1>5. /\ \A S \in SUBSET DOMAIN values : IsFiniteSet(S) /\ Cardinality(S) \in 0 .. n
      /\ \A S \in SUBSET DOMAIN values, T \in SUBSET DOMAIN values :
           S \subseteq T => Cardinality(S) <= Cardinality(T)
  BY CountsAre
<1> HIDE DEF large, small, n
<1>6. 2 * Cardinality(with) <= n
  <2>1. Cardinality(with) <= Cardinality(over) /\ Cardinality(with) \in 0 .. n /\ Cardinality(over) \in 0 .. n
    BY <1>4, <1>5
  <2> HIDE DEF over
  <2> QED BY <1>1, <1>2, <2>1
<1>7. ASSUME with # {} PROVE large \in with /\ small \notin with
  <2>1. PICK k \in with : k \in DOMAIN values /\ mid > 0 /\ values[k] > mid
    BY <1>7
  <2>2. values[large] > mid
    <3>1. values[k] <= values[large] /\ values[k] \in Nat /\ values[large] \in Nat
      BY <1>2, <1>3, <2>1
    <3> HIDE DEF mid
    <3> QED BY <1>1, <2>1, <3>1
  <2>3. ASSUME small \in with PROVE FALSE
    <3>1. values[small] > mid /\ values[small] \in Nat
      BY <1>2, <1>3, <2>3
    <3>2. \A j \in DOMAIN values : values[j] > mid
      <4> HIDE DEF mid
      <4> QED BY <1>1, <1>2, <1>3, <3>1
    <3>3. over = DOMAIN values
      BY <3>2
    <3>4. Cardinality(DOMAIN values) = n
      <4>1. DOMAIN values = 1 .. n
        BY DEF n
      <4>2. 1 \in Int /\ n \in Int /\ 1 <= n /\ n - 1 + 1 = n
        BY <1>2
      <4> QED BY <4>1, <4>2, IntervalSize
    <3>5. 2 * n <= n
      BY <1>1, <3>3, <3>4
    <3> QED BY <1>2, <3>5
  <2> QED BY <1>3, <2>1, <2>2, <2>3
<1> QED BY <1>6, <1>7 DEF large, small, n

\* classify_page_outliers: never half the pages are called large or slow, the
\* extreme page of the report is among those that are, and no page has both much
\* and little ink.
THEOREM OutliersAreFew ==
  ASSUME NEW S, NEW book \in Seq(S), book # <<>>, \A k \in DOMAIN book : IsMeasured(book[k])
  PROVE  Math!OutliersAreExtreme(book)
<1> DEFINE report == Math!ConversionReport(book, 0, 0)
           with(w) == {k \in DOMAIN book : w \in report.warnings[k]}
           bytes == Math!Field(book, "bytes")
           duration == Math!Field(book, "duration")
           b == Math!Median2(bytes)
           d == Math!Median2(duration)
           i == Math!Median2(Math!Field(book, "black"))
<1>1. /\ \A k \in DOMAIN book : book[k]["bytes"] \in Nat
      /\ \A k \in DOMAIN book : book[k]["duration"] \in Nat
      /\ \A k \in DOMAIN book : book[k]["black"] \in Nat
  BY DEF IsMeasured
<1>2. /\ bytes \in Seq(Nat) /\ bytes # <<>> /\ DOMAIN bytes = DOMAIN book /\ Len(bytes) = Len(book)
      /\ \A k \in DOMAIN book : bytes[k] = book[k]["bytes"]
  BY <1>1, FieldIs
<1>3. /\ duration \in Seq(Nat) /\ duration # <<>> /\ DOMAIN duration = DOMAIN book /\ Len(duration) = Len(book)
      /\ \A k \in DOMAIN book : duration[k] = book[k]["duration"]
  BY <1>1, FieldIs
<1>4. i \in Nat
  <2> DEFINE black == Math!Field(book, "black")
  <2>1. black \in Seq(Nat) /\ black # <<>>
    BY <1>1, FieldIs
  <2> HIDE DEF black
  <2>2. Math!Median2(black) \in Nat
    BY <2>1, MedianCount
  <2> QED BY <2>2 DEF black
<1>5. /\ report.warnings = [k \in DOMAIN book |-> Math!Warnings(book[k], b, d, i)]
      /\ report.largest = Math!LargestPage(bytes) /\ report.smallest = Math!SmallestPage(bytes)
      /\ report.slowest = Math!LargestPage(duration)
  BY DEF Math!ConversionReport
<1> HIDE DEF bytes, duration, b, d, i, report
<1>6. \A k, w : k \in with(w) <=> k \in DOMAIN book /\ w \in Math!Warnings(book[k], b, d, i)
  BY <1>5
<1> HIDE DEF with
<1>7. \A k : k \in with("large_output") <=> k \in DOMAIN bytes /\ Math!Median2(bytes) > 0 /\ bytes[k] > Math!Median2(bytes)
  BY <1>2, <1>6, WarningsAre DEF b
<1>8. \A k : k \in with("slow_processing") <=>
        k \in DOMAIN duration /\ Math!Median2(duration) > 0 /\ duration[k] > Math!Median2(duration)
  BY <1>3, <1>6, WarningsAre DEF d
<1>9. /\ 2 * Cardinality(with("large_output")) <= Len(bytes)
      /\ with("large_output") # {} => Math!LargestPage(bytes) \in with("large_output")
                                      /\ Math!SmallestPage(bytes) \notin with("large_output")
  BY <1>2, <1>7, FlaggedAre
<1>10. /\ 2 * Cardinality(with("slow_processing")) <= Len(duration)
       /\ with("slow_processing") # {} => Math!LargestPage(duration) \in with("slow_processing")
  BY <1>3, <1>8, FlaggedAre
<1>11. with("high_ink_ratio") \cap with("low_ink_ratio") = {}
  <2> SUFFICES ASSUME NEW k \in with("high_ink_ratio"), k \in with("low_ink_ratio") PROVE FALSE
    OBVIOUS
  <2>1. k \in DOMAIN book /\ 2 * book[k].black > i + 30 /\ 2 * book[k].black < i - 30
    BY <1>6, WarningsAre
  <2>2. book[k].black \in Nat
    BY <1>1, <2>1
  <2> QED BY <1>4, <2>1, <2>2
<1>12. \A w : Math!Cardinality(with(w)) = Cardinality(with(w))
  BY SameCardinality
<1>13. Math!OutliersAreExtreme(book) =
        /\ \A w \in {"large_output", "slow_processing"} : 2 * Math!Cardinality(with(w)) <= Len(book)
        /\ with("large_output") # {} => report.largest \in with("large_output") /\ report.smallest \notin with("large_output")
        /\ with("slow_processing") # {} => report.slowest \in with("slow_processing")
        /\ with("high_ink_ratio") \cap with("low_ink_ratio") = {}
  BY DEF Math!OutliersAreExtreme, with, report
<1> QED BY <1>2, <1>3, <1>5, <1>9, <1>10, <1>11, <1>12, <1>13

-----------------------------------------------------------------------------
(* Estimates from a sample.                                                 *)
\* A sum of multiples is a multiple of the sum.
LEMMA SumScale ==
  ASSUME NEW S, IsFiniteSet(S), NEW f, NEW g, NEW c \in Int, \A x \in S : f[x] \in Int /\ g[x] = c * f[x]
  PROVE  Sum(g, S) = c * Sum(f, S)
<1> DEFINE Scaled == {s \in SUBSET S : Sum(g, s) = c * Sum(f, s)}
<1>1. {} \in Scaled
  <2>1. Sum(f, {}) = 0 /\ Sum(g, {}) = 0
    BY SumEmpty
  <2> QED BY <2>1
<1>2. ASSUME NEW s \in Scaled, NEW x \in S, x \notin s PROVE s \cup {x} \in Scaled
  <2>1. IsFiniteSet(s) /\ (\A y \in s : f[y] \in Int) /\ (\A y \in s : g[y] \in Int)
    BY FS_Subset
  <2>2. f[x] \in Int /\ g[x] \in Int /\ g[x] = c * f[x]
    OBVIOUS
  <2>3. Sum(f, s \cup {x}) = f[x] + Sum(f, s) /\ Sum(g, s \cup {x}) = g[x] + Sum(g, s)
    BY <1>2, <2>1, <2>2, SumInsert
  <2>4. Sum(f, s) \in Int /\ Sum(g, s) = c * Sum(f, s)
    BY <2>1, SumType
  <2> DEFINE v == Sum(f, s)
             y == f[x]
  <2>5. c * (y + v) = c * y + c * v
    <3> HIDE DEF v, y
    <3>1. v \in Int /\ y \in Int
      BY <2>2, <2>4 DEF v, y
    <3> QED BY <3>1
  <2>6. Sum(g, s \cup {x}) = c * Sum(f, s \cup {x})
    BY <2>2, <2>3, <2>4, <2>5
  <2> QED BY <2>6
<1>3. S \in Scaled
  <2> HIDE DEF Scaled
  <2>1. Scaled \in SUBSET SUBSET S
    BY DEF Scaled
  <2> QED BY <1>1, <1>2, <2>1, FiniteInduction
<1> QED BY <1>3

\* A sample has pages, all of them of the document; a sample of all pages is
\* the document.
LEMMA SampleNamesPages ==
  ASSUME NEW pageCount \in Nat \ {0}, NEW count \in Nat \ {0}
  PROVE  LET at == Math!SamplePages(pageCount, count)
         IN  /\ at \in Seq(0 .. pageCount - 1) /\ at # <<>>
             /\ count >= pageCount => at = [k \in 1 .. pageCount |-> k - 1]
<1> DEFINE at == Math!SamplePages(pageCount, count)
<1>1. CASE count >= pageCount
  <2>1. at = [k \in 1 .. pageCount |-> k - 1]
    BY <1>1 DEF Math!SamplePages, Math!Larger, Math!Smaller
  <2> HIDE DEF at
  <2>2. at \in [1 .. pageCount -> 0 .. pageCount - 1]
    BY <2>1
  <2>3. at \in Seq(0 .. pageCount - 1) /\ Len(at) = pageCount
    BY <2>2
  <2>4. Len(<<>>) = 0
    OBVIOUS
  <2> QED BY <2>1, <2>3, <2>4 DEF at
<1>2. CASE count < pageCount /\ count = 1
  <2>1. at = <<0>>
    BY <1>2 DEF Math!SamplePages, Math!Larger, Math!Smaller
  <2>2. 0 \in 0 .. pageCount - 1
    OBVIOUS
  <2> HIDE DEF at
  <2>3. at \in Seq(0 .. pageCount - 1) /\ at # <<>>
    BY <2>1, <2>2
  <2> QED BY <1>2, <2>3 DEF at
<1>3. CASE count < pageCount /\ count > 1
  <2> DEFINE m == count - 1
             last == pageCount - 1
  <2>1. m \in Nat \ {0} /\ last \in Nat /\ m < last
    BY <1>3
  <2>2. at = [k \in 1 .. count |-> Spread(m, last, k - 1)]
    BY <1>3, SampleIs
  <2> HIDE DEF at
  <2>3. \A i \in 0 .. m : Spread(m, last, i) \in 0 .. last
    <3> HIDE DEF m, last
    <3> SUFFICES ASSUME NEW i \in 0 .. m PROVE Spread(m, last, i) \in 0 .. last
      OBVIOUS
    <3>1. Spread(m, last, i) \in Nat /\ Spread(m, last, m) = last
      BY <2>1, SpreadIsEven
    <3>2. i < m => Spread(m, last, i) < Spread(m, last, m)
      <4>1. m \in 0 .. m
        BY <2>1
      <4> QED BY <2>1, <4>1, GrowingRises
    <3>3. i < m \/ i = m
      BY <2>1
    <3> QED BY <2>1, <3>1, <3>2, <3>3
  <2>4. \A k \in 1 .. count : k - 1 \in 0 .. m
    OBVIOUS
  <2>5. at \in [1 .. count -> 0 .. last]
    BY <2>2, <2>3, <2>4
  <2> HIDE DEF m
  <2>6. at \in Seq(0 .. last) /\ Len(at) = count
    BY <2>5
  <2>7. Len(<<>>) = 0
    OBVIOUS
  <2>8. at # <<>>
    BY <2>6, <2>7
  <2> QED BY <1>3, <2>6, <2>8 DEF at
<1> QED BY <1>1, <1>2, <1>3

\* The product of the sampled pages' sizes, factor by factor.
ProductOf(sample, product) ==
  product = [n \in 0 .. Len(sample) |-> IF n = 0 THEN 1 ELSE product[n - 1] * sample[n].pixels]
Positive == Nat \ {0}

\* CommonPixels reads the last of the products.
LEMMA CommonPixelsIs ==
  ASSUME NEW S, NEW sample \in Seq(S), \A k \in DOMAIN sample : sample[k].pixels \in Positive
  PROVE  \E product \in [0 .. Len(sample) -> Positive] :
           /\ Math!CommonPixels(sample) = product[Len(sample)]
           /\ \A n \in 1 .. Len(sample) : product[n] = product[n - 1] * sample[n].pixels
<1> DEFINE N == Len(sample)
           step == [x \in (1 .. N) \X Positive |-> x[2] * sample[x[1]].pixels]
           chosen == CHOOSE f : ProductOf(sample, f)
<1>1. N \in Nat /\ DOMAIN sample = 1 .. N
  OBVIOUS
<1>2. Math!CommonPixels(sample) = chosen[N]
  BY Zenon DEF Math!CommonPixels, ProductOf
<1>3. ASSUME NEW n \in 1 .. N, NEW v \in Positive PROVE v * sample[n].pixels \in Positive
  <2> DEFINE w == sample[n].pixels
  <2>1. w \in Positive
    BY <1>1
  <2> HIDE DEF w
  <2>2. v * w \in Positive
    BY <2>1 DEF Positive
  <2> QED BY <2>2 DEF w
<1>4. Iterable(N, Positive, 1, step)
  <2>1. 1 \in Positive
    BY DEF Positive
  <2>2. step \in [(1 .. N) \X Positive -> Positive]
    BY <1>3
  <2> QED BY <1>1, <2>1, <2>2 DEF Iterable
<1>5. \E f : ProductOf(sample, f)
  <2>1. PICK f : Iterates(f, N, Positive, 1, step)
    <3> HIDE DEF N, step
    <3> QED BY <1>4, Iteration
  <2>2. f \in [0 .. N -> Positive] /\ f[0] = 1 /\ \A n \in 1 .. N : f[n] = step[<<n, f[n - 1]>>]
    <3> HIDE DEF step
    <3> QED BY <2>1 DEF Iterates
  <2>3. ASSUME NEW n \in 0 .. N PROVE f[n] = IF n = 0 THEN 1 ELSE f[n - 1] * sample[n].pixels
    <3>1. CASE n = 0
      BY <2>2, <3>1
    <3>2. CASE n # 0
      <4>1. n \in 1 .. N /\ n - 1 \in 0 .. N
        BY <1>1, <3>2
      <4>2. <<n, f[n - 1]>> \in (1 .. N) \X Positive
        BY <2>2, <4>1
      <4>3. step[<<n, f[n - 1]>>] = f[n - 1] * sample[n].pixels
        BY <4>2
      <4> QED BY <2>2, <3>2, <4>1, <4>3
    <3> QED BY <3>1, <3>2
  <2>4. f = [n \in 0 .. N |-> IF n = 0 THEN 1 ELSE f[n - 1] * sample[n].pixels]
    <3> HIDE DEF N, step
    <3> QED BY <2>2, <2>3
  <2> QED BY <2>4 DEF ProductOf
<1>6. ProductOf(sample, chosen)
  BY <1>5
<1> HIDE DEF chosen, step
<1>7. DOMAIN chosen = 0 .. N /\ chosen = [n \in 0 .. N |-> chosen[n]]
      /\ \A n \in 0 .. N : chosen[n] = IF n = 0 THEN 1 ELSE chosen[n - 1] * sample[n].pixels
  BY <1>6 DEF ProductOf
<1> HIDE DEF N
<1>8. \A n \in 1 .. N : chosen[n] = chosen[n - 1] * sample[n].pixels
  <2> TAKE n \in 1 .. N
  <2>1. n \in 0 .. N /\ n # 0
    BY <1>1
  <2> QED BY <1>7, <2>1
<1> DEFINE T == {n \in Nat : n <= N => chosen[n] \in Positive}
<1>9. 0 \in T
  <2>1. 0 \in 0 .. N
    BY <1>1
  <2>2. chosen[0] = 1
    BY <1>7, <2>1
  <2>3. 0 \in Nat /\ 1 \in Positive
    BY DEF Positive
  <2> QED BY <2>2, <2>3
<1>10. ASSUME NEW n \in T PROVE n + 1 \in T
  <2> SUFFICES ASSUME n + 1 <= N PROVE chosen[n + 1] \in Positive
    OBVIOUS
  <2>1. n + 1 \in 1 .. N /\ (n + 1) - 1 = n /\ n <= N
    BY <1>1
  <2>2. chosen[n] \in Positive
    BY <2>1
  <2>3. chosen[n + 1] = chosen[n] * sample[n + 1].pixels
    BY <1>8, <2>1
  <2> QED BY <1>3, <2>1, <2>2, <2>3
<1>11. T = Nat
  <2> HIDE DEF T
  <2>1. T \in SUBSET Nat
    BY DEF T
  <2> QED BY <1>9, <1>10, <2>1, Induction
<1>12. chosen \in [0 .. N -> Positive]
  <2>1. \A n \in 0 .. N : n \in T /\ n <= N
    BY <1>1, <1>11
  <2>2. \A n \in 0 .. N : chosen[n] \in Positive
    BY <2>1
  <2> HIDE DEF T
  <2> QED BY <1>7, <2>2
<1> QED BY <1>2, <1>8, <1>12 DEF N

IsSheet(p) == p.pixels \in Nat \ {0} /\ p.bytes \in Nat

\* What a measured container says of itself is what it is.
LEMMA OverheadIs ==
  ASSUME NEW container, container.fixed \in Nat, container.perPage \in Nat
  PROVE  Math!MeasuredOverhead(container, 1) = [perPage |-> container.perPage, fixed |-> container.fixed]
<1> DEFINE one == <<1>>
           two == <<1, 1>>
<1>1. Math!Total(one) = 1
  <2>1. DOMAIN one = 1 .. 1 /\ \A x \in 1 .. 1 : one[x] = 1
    OBVIOUS
  <2>2. IsFiniteSet(1 .. 1) /\ Cardinality(1 .. 1) = 1
    <3>1. 1 \in Int /\ 1 \in Int /\ 1 <= 1 /\ 1 - 1 + 1 = 1
      OBVIOUS
    <3> QED BY <3>1, IntervalSize
  <2>3. Sum(one, 1 .. 1) = 1 * Cardinality(1 .. 1)
    <3> HIDE DEF one
    <3>1. 1 \in Int
      OBVIOUS
    <3> QED BY <2>1, <2>2, <3>1, SumConstant
  <2> HIDE DEF one
  <2> QED BY <2>1, <2>2, <2>3, TotalIs
<1>2. Math!Total(two) = 2
  <2>1. DOMAIN two = 1 .. 2 /\ \A x \in 1 .. 2 : two[x] = 1
    OBVIOUS
  <2>2. IsFiniteSet(1 .. 2) /\ Cardinality(1 .. 2) = 2
    <3>1. 1 \in Int /\ 2 \in Int /\ 1 <= 2 /\ 2 - 1 + 1 = 2
      OBVIOUS
    <3> QED BY <3>1, IntervalSize
  <2>3. Sum(two, 1 .. 2) = 1 * Cardinality(1 .. 2)
    <3> HIDE DEF two
    <3>1. 1 \in Int
      OBVIOUS
    <3> QED BY <2>1, <2>2, <3>1, SumConstant
  <2> HIDE DEF two
  <2> QED BY <2>1, <2>2, <2>3, TotalIs
<1>3. Len(one) = 1 /\ Len(two) = 2
  OBVIOUS
<1> DEFINE a == Math!DocumentBytes(container, one)
           b == Math!DocumentBytes(container, two)
<1>4. a = container.fixed + container.perPage + 1 /\ b = container.fixed + container.perPage * 2 + 2
  <2>1. a = container.fixed + container.perPage * Len(one) + Math!Total(one)
    BY DEF Math!DocumentBytes
  <2>2. b = container.fixed + container.perPage * Len(two) + Math!Total(two)
    BY DEF Math!DocumentBytes
  <2> HIDE DEF one, two, a, b
  <2> QED BY <1>1, <1>2, <1>3, <2>1, <2>2
<1>5. Math!MeasuredOverhead(container, 1) =
        [perPage |-> b - a - 1, fixed |-> a - 1 - (b - a - 1)]
  BY DEF Math!MeasuredOverhead, Math!Overhead
<1> HIDE DEF a, b
<1>6. b - a - 1 = container.perPage /\ a - 1 - (b - a - 1) = container.fixed
  BY <1>4
<1> QED BY <1>5, <1>6

\* A quartile of numbers is a number.
LEMMA QuartileIsNat ==
  ASSUME NEW values \in Seq(Nat), values # <<>>, NEW k \in 1 .. 3
  PROVE  Math!Quartile4(values, k) \in Nat
<1> DEFINE n == Len(values)
           s == Math!SortedValues(values)
           rank == k * (n - 1)
           q == Math!AtRank4(s, rank)
<1>1. n \in Nat \ {0}
  OBVIOUS
<1>2. s \in Seq(Nat) /\ Len(s) = n /\ Ascending(s)
  BY SortedValuesAre
<1> HIDE DEF s
<1>3. q = Math!Quartile4(values, k)
  BY DEF Math!Quartile4, s
<1>4. rank \in Nat /\ rank <= 3 * (n - 1)
  <2> HIDE DEF n
  <2>1. k = 1 \/ k = 2 \/ k = 3
    OBVIOUS
  <2>2. n - 1 \in Nat
    BY <1>1
  <2> QED BY <2>1, <2>2
<1> HIDE DEF n, rank
<1>5. PICK i \in Nat \ {0}, r \in 0 .. 3 : rank = Rank(i, r)
  BY <1>4, RankIs
<1>6. i \in 1 .. n /\ (r # 0 => i + 1 \in 1 .. n) /\ r \in {0, 1, 2, 3}
  BY <1>1, <1>4, <1>5 DEF Rank
<1>7. Mixed(s, i, r, q)
  BY <1>5, AtRankIs DEF Mixed
<1> HIDE DEF q
<1>8. q \in Nat
  BY <1>2, <1>6, <1>7, MixedIsBetween
<1> QED BY <1>3, <1>8

\* Low and high bytes per pixel are numbers, of few values the extremes.
LEMMA LowHighAre ==
  ASSUME NEW values \in Seq(Nat), values # <<>>
  PROVE  /\ Math!LowHigh4(values)[1] \in Int /\ Math!LowHigh4(values)[2] \in Int
         /\ Len(values) < Math!QuartileMinSamples =>
              \A k \in DOMAIN values : /\ Math!LowHigh4(values)[1] <= 4 * values[k]
                                       /\ 4 * values[k] <= Math!LowHigh4(values)[2]
<1> DEFINE R == Math!Range(values)
<1>1. CASE Len(values) < Math!QuartileMinSamples
  <2>1. /\ Math!LargestPage(values) \in DOMAIN values /\ Math!SmallestPage(values) \in DOMAIN values
        /\ \A j \in DOMAIN values : values[j] <= values[Math!LargestPage(values)]
        /\ \A j \in DOMAIN values : values[Math!SmallestPage(values)] <= values[j]
    BY ExtremesAre
  <2>2. R \subseteq Nat
    BY DEF Math!Range
  <2>3. \E x \in R : \A y \in R : y <= x
    BY <2>1 DEF Math!Range
  <2>4. \E x \in R : \A y \in R : x <= y
    BY <2>1 DEF Math!Range
  <2>5. Math!Max(R) \in R /\ \A v \in R : v <= Math!Max(R)
    <3> HIDE DEF R
    <3>1. \E x \in R : \A y \in R : x >= y
      BY <2>2, <2>3
    <3> QED BY <3>1 DEF Math!Max
  <2>6. Math!Min(R) \in R /\ \A v \in R : Math!Min(R) <= v
    <3> HIDE DEF R
    <3> QED BY <2>4 DEF Math!Min
  <2>7. Math!LowHigh4(values) = <<4 * Math!Min(R), 4 * Math!Max(R)>>
    BY <1>1 DEF Math!LowHigh4
  <2>8. \A k \in DOMAIN values : values[k] \in R
    BY DEF Math!Range
  <2> HIDE DEF R
  <2> DEFINE x == Math!Min(R)
             y == Math!Max(R)
  <2>9. x \in Nat /\ y \in Nat
    BY <2>2, <2>5, <2>6
  <2>10. ASSUME NEW k \in DOMAIN values PROVE values[k] \in Nat /\ x <= values[k] /\ values[k] <= y
    BY <2>2, <2>5, <2>6, <2>8
  <2> HIDE DEF x, y
  <2>11. 4 * x \in Int /\ 4 * y \in Int
    BY <2>9
  <2>12. \A k \in DOMAIN values : 4 * x <= 4 * values[k] /\ 4 * values[k] <= 4 * y
    BY <2>9, <2>10
  <2> QED BY <2>7, <2>11, <2>12 DEF x, y
<1>2. CASE ~(Len(values) < Math!QuartileMinSamples)
  <2>1. Math!LowHigh4(values) = <<Math!Quartile4(values, 1), Math!Quartile4(values, 3)>>
    BY <1>2 DEF Math!LowHigh4
  <2>2. Math!Quartile4(values, 1) \in Nat /\ Math!Quartile4(values, 3) \in Nat
    BY QuartileIsNat
  <2> QED BY <1>2, <2>1, <2>2
<1> QED BY <1>1, <1>2

\* The places of a sequence.
LEMMA PlacesAre ==
  ASSUME NEW S, NEW seq \in Seq(S), seq # <<>>
  PROVE  /\ DOMAIN seq = 1 .. Len(seq) /\ Len(seq) \in Nat \ {0}
         /\ IsFiniteSet(DOMAIN seq) /\ Cardinality(DOMAIN seq) = Len(seq)
<1>1. DOMAIN seq = 1 .. Len(seq) /\ Len(seq) \in Nat \ {0}
  OBVIOUS
<1> DEFINE n == Len(seq)
<1> HIDE DEF n
<1>2. 1 \in Int /\ n \in Int /\ 1 <= n /\ n - 1 + 1 = n
  BY <1>1 DEF n
<1>3. IsFiniteSet(1 .. n) /\ Cardinality(1 .. n) = n
  BY <1>2, IntervalSize
<1> QED BY <1>1, <1>3 DEF n

\* A sample is some of the pages.
LEMMA SampledIs ==
  ASSUME NEW S, NEW book \in Seq(S), NEW at \in Seq(0 .. Len(book) - 1), at # <<>>
  PROVE  /\ Math!Sampled(book, at) \in Seq(S) /\ Len(Math!Sampled(book, at)) = Len(at)
         /\ Math!Sampled(book, at) # <<>>
         /\ \A k \in DOMAIN Math!Sampled(book, at) : \E j \in DOMAIN book : Math!Sampled(book, at)[k] = book[j]
<1> DEFINE s == Math!Sampled(book, at)
           n == Len(at)
<1>1. n \in Nat \ {0} /\ DOMAIN at = 1 .. n /\ Len(book) \in Nat /\ DOMAIN book = 1 .. Len(book)
  OBVIOUS
<1>2. s = [k \in 1 .. n |-> book[at[k] + 1]]
  BY <1>1 DEF Math!Sampled
<1>3. \A k \in 1 .. n : at[k] + 1 \in 1 .. Len(book)
  BY <1>1
<1>4. \A j \in 1 .. Len(book) : book[j] \in S
  OBVIOUS
<1> HIDE DEF s, n
<1>5. s \in [1 .. n -> S]
  BY <1>2, <1>3, <1>4
<1>6. s \in Seq(S) /\ Len(s) = n /\ DOMAIN s = 1 .. n
  BY <1>1, <1>5
<1>7. Len(<<>>) = 0
  OBVIOUS
<1>8. s # <<>>
  BY <1>1, <1>6, <1>7
<1>9. \A k \in DOMAIN s : \E j \in DOMAIN book : s[k] = book[j]
  BY <1>1, <1>2, <1>3, <1>6
<1> QED BY <1>6, <1>8, <1>9 DEF s, n

\* The bytes per pixel, over the common denominator, are numbers.
LEMMA BytesPerPixelAre ==
  ASSUME NEW S, NEW sample \in Seq(S), sample # <<>>, \A k \in DOMAIN sample : IsSheet(sample[k]),
         NEW whole \in Positive
  PROVE  /\ Math!BytesPerPixel(sample, whole) \in Seq(Nat) /\ Math!BytesPerPixel(sample, whole) # <<>>
         /\ Len(Math!BytesPerPixel(sample, whole)) = Len(sample)
<1> DEFINE s == Math!BytesPerPixel(sample, whole)
           n == Len(sample)
<1>1. n \in Nat \ {0} /\ DOMAIN sample = 1 .. n
  OBVIOUS
<1>2. s = [k \in 1 .. n |-> sample[k].bytes * (whole \div sample[k].pixels)]
  BY <1>1 DEF Math!BytesPerPixel
<1>3. ASSUME NEW k \in 1 .. n PROVE sample[k].bytes * (whole \div sample[k].pixels) \in Nat
  <2> DEFINE b == sample[k].bytes
             p == sample[k].pixels
  <2>1. b \in Nat /\ p \in Nat \ {0}
    BY <1>1 DEF IsSheet
  <2> HIDE DEF b, p
  <2>2. whole \div p \in Nat
    BY <2>1 DEF Positive
  <2> DEFINE q == whole \div p
  <2> HIDE DEF q
  <2>3. b * q \in Nat
    BY <2>1, <2>2 DEF q
  <2> QED BY <2>3 DEF b, p, q
<1> HIDE DEF s, n
<1>4. s \in [1 .. n -> Nat]
  BY <1>2, <1>3
<1>5. s \in Seq(Nat) /\ Len(s) = n
  BY <1>1, <1>4
<1>6. Len(<<>>) = 0
  OBVIOUS
<1>7. s # <<>>
  BY <1>1, <1>5, <1>6
<1> QED BY <1>5, <1>7 DEF s, n

\* A sum of numbers is one.
LEMMA TotalType == ASSUME NEW seq \in Seq(Int), seq # <<>> PROVE Math!Total(seq) \in Int
<1>1. IsFiniteSet(DOMAIN seq)
  BY PlacesAre
<1>2. \A k \in DOMAIN seq : seq[k] \in Int
  OBVIOUS
<1> QED BY <1>1, <1>2, SumType, TotalIs

\* A truncated product is within a byte of every whole number that bounds it.
LEMMA TruncationsAre ==
  ASSUME NEW n \in Int, NEW d \in Nat \ {0}, NEW q \in Math!Truncations(n, d)
  PROVE  /\ q \in Int
         /\ \A b \in Int : d * b <= n => b - 1 <= q
         /\ \A b \in Int : n <= d * b => q <= b
<1> DEFINE m == d * 1024
           x == n * 1024 - d
           y == n * 1024 + d
           low == x \div m
           high == y \div m
<1>1. m \in Nat \ {0} /\ x \in Int /\ y \in Int
  OBVIOUS
<1>2. Math!Truncations(n, d) = Math!Larger(0, low) .. high
  BY DEF Math!Truncations, Math!Precision
<1> HIDE DEF low, high, m, x, y
<1>3. low \in Int /\ m * low <= x /\ x < m * low + m
  BY <1>1, Quotient DEF low
<1>4. high \in Int /\ m * high <= y /\ y < m * high + m
  BY <1>1, Quotient DEF high
<1>5. q \in Int /\ low <= q /\ q <= high
  BY <1>2, <1>3, <1>4 DEF Math!Larger
<1>6. ASSUME NEW b \in Int, d * b <= n PROVE b - 1 <= q
  <2> DEFINE t == d * b
  <2>1. t \in Int /\ m * b = 1024 * t
    BY DEF m
  <2>2. m * (b - 1) = m * b - m /\ m * (low + 1) = m * low + m
    BY <1>1, <1>3
  <2> HIDE DEF t
  <2>3. m * (b - 1) <= x
    BY <1>1, <1>6, <2>1, <2>2 DEF m, x, t
  <2>4. CASE low < b - 1
    <3>1. m * (low + 1) <= m * (b - 1)
      BY <1>1, <1>3, <2>4, Product
    <3> QED BY <1>1, <1>3, <2>2, <2>3, <3>1
  <2> QED BY <1>3, <1>5, <2>4
<1>7. ASSUME NEW b \in Int, n <= d * b PROVE q <= b
  <2> DEFINE t == d * b
  <2>1. t \in Int /\ m * b = 1024 * t
    BY DEF m
  <2>2. m * (b + 1) = m * b + m
    BY <1>1
  <2> HIDE DEF t
  <2>3. y < m * (b + 1)
    BY <1>1, <1>7, <2>1, <2>2 DEF m, y, t
  <2>4. CASE b < high
    <3>1. m * (b + 1) <= m * high
      BY <1>1, <1>4, <2>4, Product
    <3>2. m * high \in Int /\ m * (b + 1) \in Int
      BY <1>1, <1>4
    <3> QED BY <1>1, <1>4, <2>3, <3>1, <3>2
  <2> QED BY <1>4, <1>5, <2>4
<1> QED BY <1>5, <1>6, <1>7

\* What is extrapolated is a number, and what bounds the product bounds it,
LEMMA ExtrapolatedIs ==
  ASSUME NEW pixels \in Int, NEW bytes \in Int, NEW n \in Int, NEW d \in Nat \ {0},
         NEW v \in Math!Extrapolated(pixels, bytes, Math!Ratio(n, d))
  PROVE  /\ v \in Int
         /\ \A b \in Int : d * b <= pixels * n => b + bytes - 1 <= v
         /\ \A b \in Int : pixels * n <= d * b => v <= b + bytes
<1> DEFINE x == pixels * n
<1>1. x \in Int
  OBVIOUS
<1>2. PICK q \in Math!Truncations(x, d) : v = q + bytes
  BY DEF Math!Extrapolated, Math!Ratio
<1> HIDE DEF x
<1>3. /\ q \in Int
      /\ \A b \in Int : d * b <= x => b - 1 <= q
      /\ \A b \in Int : x <= d * b => q <= b
  BY <1>1, TruncationsAre
<1>4. ASSUME NEW b \in Int, d * b <= x PROVE b + bytes - 1 <= v
  <2>1. b - 1 <= q
    BY <1>3, <1>4
  <2> QED BY <1>2, <1>3, <2>1
<1>5. ASSUME NEW b \in Int, x <= d * b PROVE v <= b + bytes
  <2>1. q <= b
    BY <1>3, <1>5
  <2> QED BY <1>2, <1>3, <2>1
<1> QED BY <1>2, <1>3, <1>4, <1>5 DEF x

\* and the bounds are made to enclose the estimate.
LEMMA BoundsEnclose ==
  ASSUME NEW values \in Seq(Nat), values # <<>>, NEW whole \in Positive, NEW pixels \in Int, NEW bytes \in Int,
         NEW e \in Math!EstimateFrom(values, whole, pixels, bytes)
  PROVE  /\ e.lower <= e.central /\ e.central <= e.upper
         /\ Len(values) * whole \in Nat \ {0} /\ 4 * whole \in Nat \ {0}
         /\ e.lower \in Int /\ e.central \in Int /\ e.upper \in Int
         /\ \A b \in Int : pixels * Math!Total(values) = (Len(values) * whole) * b
                           => b + bytes - 1 <= e.central /\ e.central <= b + bytes
         /\ \A b \in Int : pixels * Math!LowHigh4(values)[1] <= (4 * whole) * b => e.lower <= b + bytes
         /\ \A b \in Int : (4 * whole) * b <= pixels * Math!LowHigh4(values)[2] => b + bytes - 1 <= e.upper
<1> DEFINE d == Len(values) * whole
           w == 4 * whole
           total == Math!Total(values)
           low == Math!LowHigh4(values)[1]
           high == Math!LowHigh4(values)[2]
<1>1. d \in Nat \ {0}
  <2> DEFINE n == Len(values)
  <2>1. n \in Nat \ {0}
    OBVIOUS
  <2> HIDE DEF n
  <2>2. n * whole \in Nat \ {0}
    BY <2>1 DEF Positive
  <2> QED BY <2>2 DEF n
<1>2. w \in Nat \ {0}
  BY DEF Positive
<1>3. total \in Int
  <2>1. values \in Seq(Int)
    OBVIOUS
  <2> QED BY <2>1, TotalType
<1>4. low \in Int /\ high \in Int
  BY LowHighAre
<1>5. PICK c \in Math!Extrapolated(pixels, bytes, Math!Ratio(total, d)),
           l \in Math!Extrapolated(pixels, bytes, Math!Ratio(low, w)),
           h \in Math!Extrapolated(pixels, bytes, Math!Ratio(high, w)) :
        e = [central |-> c, lower |-> Math!Smaller(l, c), upper |-> Math!Larger(h, c)]
  BY DEF Math!EstimateFrom, Math!Bounded
<1> HIDE DEF low, high, total, d, w
<1>6. /\ c \in Int
      /\ \A b \in Int : d * b <= pixels * total => b + bytes - 1 <= c
      /\ \A b \in Int : pixels * total <= d * b => c <= b + bytes
  BY <1>1, <1>3, ExtrapolatedIs
<1>7. l \in Int /\ \A b \in Int : pixels * low <= w * b => l <= b + bytes
  BY <1>2, <1>4, ExtrapolatedIs
<1>8. h \in Int /\ \A b \in Int : w * b <= pixels * high => b + bytes - 1 <= h
  BY <1>2, <1>4, ExtrapolatedIs
<1>9. /\ e.central = c
      /\ e.lower \in Int /\ e.lower <= c /\ e.lower <= l
      /\ e.upper \in Int /\ c <= e.upper /\ h <= e.upper
  BY <1>5, <1>6, <1>7, <1>8 DEF Math!Smaller, Math!Larger
<1>10. ASSUME NEW b \in Int, pixels * total = d * b PROVE b + bytes - 1 <= e.central /\ e.central <= b + bytes
  <2> DEFINE x == pixels * total
             y == d * b
  <2>1. x \in Int /\ y \in Int /\ x = y
    BY <1>1, <1>3, <1>10
  <2> HIDE DEF x, y
  <2>2. y <= x /\ x <= y
    BY <2>1
  <2>3. b + bytes - 1 <= c /\ c <= b + bytes
    BY <1>6, <2>2 DEF x, y
  <2> QED BY <1>9, <2>3
<1>11. ASSUME NEW b \in Int, pixels * low <= w * b PROVE e.lower <= b + bytes
  <2>1. l <= b + bytes
    BY <1>7, <1>11
  <2> QED BY <1>7, <1>9, <2>1
<1>12. ASSUME NEW b \in Int, w * b <= pixels * high PROVE b + bytes - 1 <= e.upper
  <2>1. b + bytes - 1 <= h
    BY <1>8, <1>12
  <2> QED BY <1>8, <1>9, <2>1
<1> QED BY <1>1, <1>2, <1>6, <1>9, <1>10, <1>11, <1>12 DEF d, w, total, low, high

\* The common denominator is a multiple of every page's size.
LEMMA CommonIsMultiple ==
  ASSUME NEW S, NEW sample \in Seq(S), \A k \in DOMAIN sample : sample[k].pixels \in Positive,
         NEW k \in DOMAIN sample
  PROVE  \E c \in Positive : Math!CommonPixels(sample) = c * sample[k].pixels
<1> DEFINE N == Len(sample)
           P(j) == sample[j].pixels
<1>1. N \in Nat /\ DOMAIN sample = 1 .. N /\ \A j \in 1 .. N : P(j) \in Positive
  OBVIOUS
<1>2. PICK product \in [0 .. N -> Positive] :
        /\ Math!CommonPixels(sample) = product[N]
        /\ \A n \in 1 .. N : product[n] = product[n - 1] * P(n)
  BY CommonPixelsIs
<1> DEFINE p == P(k)
           Covers(n) == k <= n => \E c \in Positive : product[n] = c * p
           T == {n \in Nat : n <= N => Covers(n)}
<1>3. k \in 1 .. N /\ p \in Positive
  BY <1>1
<1> HIDE DEF N, P, p
<1>4. 0 \in T
  BY <1>3
<1>5. ASSUME NEW n \in T PROVE n + 1 \in T
  <2> SUFFICES ASSUME n + 1 <= N, k <= n + 1 PROVE \E c \in Positive : product[n + 1] = c * p
    OBVIOUS
  <2>1. n \in 0 .. N /\ n + 1 \in 1 .. N /\ (n + 1) - 1 = n
    BY <1>1
  <2>2. product[n + 1] = product[n] * P(n + 1) /\ product[n] \in Positive /\ P(n + 1) \in Positive
    BY <1>1, <1>2, <2>1
  <2>3. CASE k = n + 1
    BY <2>2, <2>3 DEF p
  <2>4. CASE k <= n
    <3>1. PICK c \in Positive : product[n] = c * p
      BY <2>1, <2>4
    <3> DEFINE q == P(n + 1)
    <3>2. q \in Positive
      BY <2>2
    <3> HIDE DEF q
    <3>3. c * q \in Positive /\ (c * p) * q = (c * q) * p
      BY <1>3, <3>2 DEF Positive
    <3> QED BY <2>2, <3>1, <3>3 DEF q
  <2> QED BY <1>3, <2>1, <2>3, <2>4
<1>6. T = Nat
  <2>1. T \in SUBSET Nat
    OBVIOUS
  <2> HIDE DEF T
  <2> QED BY <1>4, <1>5, <2>1, Induction
<1>7. Covers(N)
  BY <1>1, <1>6
<1> QED BY <1>2, <1>3, <1>7 DEF p, P

\* Bytes per pixel times pixels are bytes.
LEMMA BytesPerPixelTimesPixels ==
  ASSUME NEW S, NEW book \in Seq(S), \A k \in DOMAIN book : IsSheet(book[k]), NEW k \in DOMAIN book
  PROVE  Math!BytesPerPixel(book, Math!CommonPixels(book))[k] * book[k].pixels
           = book[k].bytes * Math!CommonPixels(book)
<1> DEFINE p == book[k].pixels
           b == book[k].bytes
           whole == Math!CommonPixels(book)
<1>1. p \in Positive /\ b \in Nat /\ \A j \in DOMAIN book : book[j].pixels \in Positive
  BY DEF IsSheet, Positive
<1>2. PICK c \in Positive : whole = c * p
  BY <1>1, CommonIsMultiple
<1>3. Math!BytesPerPixel(book, whole)[k] = b * (whole \div p)
  BY DEF Math!BytesPerPixel
<1> HIDE DEF p, b, whole
<1>4. whole \div p = c
  <2>1. whole \in Int /\ p \in Nat \ {0} /\ c \in Int /\ p * c = whole
    BY <1>1, <1>2 DEF Positive
  <2>2. p * c <= whole /\ whole < p * c + p
    BY <2>1
  <2> QED BY <2>1, <2>2, QuotientIs
<1>5. (b * c) * p = b * (c * p)
  BY <1>1 DEF Positive
<1> QED BY <1>2, <1>3, <1>4, <1>5 DEF p, b, whole

\* The least and the greatest bytes per pixel of all pages enclose their bytes.
LEMMA ExtremesEnclose ==
  ASSUME NEW S, NEW book \in Seq(S), book # <<>>, \A k \in DOMAIN book : IsSheet(book[k]),
         Len(book) < Math!QuartileMinSamples
  PROVE  LET whole == Math!CommonPixels(book)
             values == Math!BytesPerPixel(book, whole)
             bytes == Math!Total([k \in DOMAIN book |-> book[k].bytes])
             pixels == Math!Total([k \in DOMAIN book |-> book[k].pixels])
         IN  /\ bytes \in Int
             /\ pixels * Math!LowHigh4(values)[1] <= (4 * whole) * bytes
             /\ (4 * whole) * bytes <= pixels * Math!LowHigh4(values)[2]
<1> DEFINE D == DOMAIN book
           whole == Math!CommonPixels(book)
           values == Math!BytesPerPixel(book, whole)
           sizes == [k \in D |-> book[k].bytes]
           areas == [k \in D |-> book[k].pixels]
           low == Math!LowHigh4(values)[1]
           high == Math!LowHigh4(values)[2]
<1>1. IsFiniteSet(D) /\ D = 1 .. Len(book) /\ Len(book) \in Nat \ {0}
  BY PlacesAre
<1>2. whole \in Positive
  <2>1. \A k \in DOMAIN book : book[k].pixels \in Positive
    BY DEF IsSheet, Positive
  <2>2. PICK product \in [0 .. Len(book) -> Positive] : whole = product[Len(book)]
    BY <2>1, CommonPixelsIs
  <2>3. Len(book) \in 0 .. Len(book)
    BY <1>1
  <2> QED BY <2>2, <2>3
<1>3. values \in Seq(Nat) /\ values # <<>> /\ Len(values) = Len(book)
  <2> HIDE DEF whole
  <2> QED BY <1>2, BytesPerPixelAre
<1>4. DOMAIN values = D /\ \A k \in D : values[k] \in Nat
  <2> HIDE DEF values
  <2> QED BY <1>1, <1>3
<1>5. /\ low \in Int /\ high \in Int
      /\ \A k \in D : low <= 4 * values[k] /\ 4 * values[k] <= high
  <2> HIDE DEF values, D
  <2> QED BY <1>3, <1>4, LowHighAre
<1>6. \A k \in D : values[k] * book[k].pixels = book[k].bytes * whole
  BY BytesPerPixelTimesPixels
<1>7. \A k \in D : /\ sizes[k] = book[k].bytes /\ sizes[k] \in Int
                   /\ areas[k] = book[k].pixels /\ areas[k] \in Nat
  BY DEF IsSheet
<1>8. DOMAIN sizes = D /\ DOMAIN areas = D
  OBVIOUS
<1> DEFINE w == 4 * whole
           under == [k \in D |-> low * areas[k]]
           over == [k \in D |-> high * areas[k]]
           made == [k \in D |-> w * sizes[k]]
<1>9. w \in Int
  BY <1>2 DEF Positive
<1> HIDE DEF whole, values, sizes, areas, low, high, D
<1>10. ASSUME NEW k \in D
       PROVE  low * areas[k] <= w * sizes[k] /\ w * sizes[k] <= high * areas[k]
  <2> DEFINE a == areas[k]
             v == values[k]
             z == sizes[k]
             u == 4 * v
  <2>1. a \in Nat /\ v \in Nat /\ z \in Int /\ whole \in Int /\ v * a = z * whole
    BY <1>2, <1>4, <1>6, <1>7 DEF Positive
  <2>2. u \in Int /\ low <= u /\ u <= high
    BY <1>4, <1>5
  <2> HIDE DEF a, v, z
  <2>3. a * u = w * z
    <3>1. a * (4 * v) = 4 * (v * a) /\ (4 * whole) * z = 4 * (z * whole)
      BY <2>1
    <3> QED BY <2>1, <3>1
  <2> HIDE DEF u, w
  <2>4. a * low <= a * u /\ a * u <= a * high
    BY <1>5, <2>1, <2>2, Product
  <2>5. a * low = low * a /\ a * high = high * a
    BY <1>5, <2>1
  <2> QED BY <2>3, <2>4, <2>5 DEF a, z
<1> HIDE DEF w
<1>11. \A k \in D : /\ under[k] = low * areas[k] /\ over[k] = high * areas[k] /\ made[k] = w * sizes[k]
                    /\ under[k] \in Int /\ over[k] \in Int /\ made[k] \in Int
                    /\ under[k] <= made[k] /\ made[k] <= over[k]
  BY <1>5, <1>7, <1>9, <1>10
<1> HIDE DEF under, over, made
<1>12. Sum(under, D) <= Sum(made, D) /\ Sum(made, D) <= Sum(over, D)
  BY <1>1, <1>11, SumRises
<1>13. \A k \in D : areas[k] \in Int
  BY <1>7
<1>14. /\ Sum(under, D) = low * Sum(areas, D) /\ Sum(over, D) = high * Sum(areas, D)
       /\ Sum(made, D) = w * Sum(sizes, D)
  <2>1. Sum(under, D) = low * Sum(areas, D)
    BY <1>1, <1>5, <1>11, <1>13, SumScale
  <2>2. Sum(over, D) = high * Sum(areas, D)
    BY <1>1, <1>5, <1>11, <1>13, SumScale
  <2>3. Sum(made, D) = w * Sum(sizes, D)
    BY <1>1, <1>7, <1>9, <1>11, SumScale
  <2> QED BY <2>1, <2>2, <2>3
<1>15. Sum(areas, D) \in Int /\ Sum(sizes, D) \in Int
  BY <1>1, <1>7, <1>13, SumType
<1>16. Math!Total(sizes) = Sum(sizes, D) /\ Math!Total(areas) = Sum(areas, D)
  BY <1>8, TotalIs
<1> DEFINE x == Sum(areas, D)
<1>17. low * x = x * low /\ high * x = x * high
  <2> HIDE DEF x
  <2>1. x \in Int
    BY <1>15 DEF x
  <2> QED BY <1>5, <2>1
<1>18. /\ Math!Total(sizes) \in Int
       /\ Math!Total(areas) * low <= w * Math!Total(sizes)
       /\ w * Math!Total(sizes) <= Math!Total(areas) * high
  BY <1>12, <1>14, <1>15, <1>16, <1>17
<1> QED BY <1>18 DEF whole, values, sizes, areas, low, high, D, w

\* With every page sampled and all of one size the extrapolation is exact.
LEMMA ExactExtrapolation ==
  ASSUME NEW S, NEW book \in Seq(S), book # <<>>, \A k \in DOMAIN book : IsSheet(book[k]),
         \A k \in DOMAIN book : book[k].pixels = book[1].pixels
  PROVE  LET whole == Math!CommonPixels(book)
             values == Math!BytesPerPixel(book, whole)
             bytes == Math!Total([k \in DOMAIN book |-> book[k].bytes])
             pixels == Math!Total([k \in DOMAIN book |-> book[k].pixels])
         IN  bytes \in Int /\ pixels * Math!Total(values) = (Len(values) * whole) * bytes
<1> DEFINE N == Len(book)
           D == DOMAIN book
           P == book[1].pixels
           whole == Math!CommonPixels(book)
           values == Math!BytesPerPixel(book, whole)
           sizes == [k \in D |-> book[k].bytes]
           areas == [k \in D |-> book[k].pixels]
<1>1. D = 1 .. N /\ N \in Nat \ {0} /\ IsFiniteSet(D) /\ Cardinality(D) = N
  BY PlacesAre
<1>2. P \in Positive /\ \A k \in D : book[k].pixels = P /\ book[k].bytes \in Nat
  <2>1. 1 \in D
    BY <1>1
  <2> QED BY <2>1 DEF IsSheet, Positive
<1>3. PICK c \in Positive : whole = c * P
  <2>1. \A k \in D : book[k].pixels \in Positive
    BY <1>2
  <2>2. PICK product \in [0 .. N -> Positive] :
          /\ whole = product[N]
          /\ \A n \in 1 .. N : product[n] = product[n - 1] * book[n].pixels
    BY <2>1, CommonPixelsIs
  <2> HIDE DEF N, D, P, whole
  <2>3. N \in 1 .. N /\ N - 1 \in 0 .. N
    BY <1>1
  <2>4. whole = product[N - 1] * P /\ product[N - 1] \in Positive
    BY <1>1, <1>2, <2>2, <2>3
  <2> QED BY <2>4
<1> HIDE DEF P, whole, N
<1>4. whole \in Positive
  BY <1>2, <1>3 DEF Positive
<1>5. whole \div P = c
  <2>1. P * c = c * P /\ P * c <= c * P /\ c * P < P * c + P /\ c * P \in Int
    BY <1>2 DEF Positive
  <2>2. (c * P) \div P = c
    <3>1. P \in Nat \ {0} /\ c \in Int
      BY <1>2 DEF Positive
    <3> DEFINE x == c * P
    <3>2. x \in Int /\ P * c <= x /\ x < P * c + P
      BY <2>1
    <3> HIDE DEF x
    <3>3. x \div P = c
      BY <3>1, <3>2, QuotientIs
    <3> QED BY <3>3 DEF x
  <2> QED BY <1>3, <2>2
<1>6. values = [k \in D |-> book[k].bytes * c] /\ Len(values) = N
  <2>1. values = [k \in D |-> book[k].bytes * (whole \div book[k].pixels)]
    BY DEF Math!BytesPerPixel
  <2>2. Len(values) = N
    BY <1>4, BytesPerPixelAre DEF N
  <2> HIDE DEF values
  <2> QED BY <1>2, <1>5, <2>1, <2>2
<1>7. \A k \in D : sizes[k] = book[k].bytes /\ areas[k] = book[k].pixels /\ values[k] = book[k].bytes * c
  BY <1>6
<1>8. DOMAIN sizes = D /\ DOMAIN areas = D /\ DOMAIN values = D
  BY <1>6
<1> HIDE DEF values, sizes, areas, D
<1>9. \A k \in D : sizes[k] \in Int /\ values[k] = c * sizes[k] /\ areas[k] = P
  BY <1>2, <1>7 DEF Positive
<1> DEFINE B == Sum(sizes, D)
<1>10. B \in Int
  BY <1>1, <1>9, SumType
<1>11. Sum(values, D) = c * B
  <2>1. c \in Int
    BY DEF Positive
  <2> QED BY <1>1, <1>9, <2>1, SumScale
<1>12. Sum(areas, D) = P * N
  <2>1. P \in Int
    BY <1>2 DEF Positive
  <2>2. Sum(areas, D) = P * Cardinality(D)
    BY <1>1, <1>9, <2>1, SumConstant
  <2> QED BY <1>1, <2>2
<1>13. Math!Total(sizes) = B /\ Math!Total(values) = c * B /\ Math!Total(areas) = P * N
  BY <1>8, <1>11, <1>12, TotalIs
<1> HIDE DEF B
<1>14. (P * N) * (c * B) = (N * (c * P)) * B
  <2>1. P \in Int /\ N \in Int /\ c \in Int
    BY <1>1, <1>2 DEF Positive
  <2> QED BY <1>10, <2>1
<1>15. Math!Total(sizes) \in Int /\ Math!Total(areas) * Math!Total(values) = (Len(values) * whole) * Math!Total(sizes)
  BY <1>3, <1>6, <1>10, <1>13, <1>14
<1> QED BY <1>15 DEF values, sizes, areas, whole, D

\* estimate_with_session, with its f64 products cut to whole bytes: the bounds
\* enclose the estimate; with every page sampled, the extremes enclose the size
\* of the document, and for pages of one size the estimate is that size, both
\* to a byte.
THEOREM EstimatesAreCalibrated ==
  ASSUME NEW S, NEW book \in Seq(S), book # <<>>, \A k \in DOMAIN book : IsSheet(book[k]),
         NEW sampleCount \in Nat \ {0},
         NEW container, container.fixed \in Nat, container.perPage \in Nat
  PROVE  Math!EstimateIsCalibrated(book, sampleCount, container)
<1> DEFINE N == Len(book)
           at == Math!SamplePages(N, sampleCount)
           sample == Math!Sampled(book, at)
           whole == Math!CommonPixels(sample)
           values == Math!BytesPerPixel(sample, whole)
           areas == [k \in DOMAIN book |-> book[k].pixels]
           sizes == [k \in DOMAIN book |-> book[k].bytes]
           pixels == Math!Total(areas)
           around == container.perPage * N + container.fixed
           size == Math!DocumentBytes(container, sizes)
<1>1. DOMAIN book = 1 .. N /\ N \in Nat \ {0}
  BY PlacesAre
<1>2. Math!Estimate(book, sampleCount, container) = Math!EstimateFrom(values, whole, pixels, around)
  <2> DEFINE o == Math!MeasuredOverhead(container, 1)
  <2>1. o = [perPage |-> container.perPage, fixed |-> container.fixed]
    BY OverheadIs
  <2>2. o.perPage = container.perPage /\ o.fixed = container.fixed
    BY <2>1
  <2>3. Math!Estimate(book, sampleCount, container)
          = Math!EstimateFrom(values, whole, pixels, o.perPage * Len(book) + o.fixed)
    BY DEF Math!Estimate, Math!EstimateOf
  <2> HIDE DEF o
  <2> QED BY <2>2, <2>3
<1> HIDE DEF N
<1>3. at \in Seq(0 .. N - 1) /\ at # <<>> /\ (sampleCount >= N => at = [k \in 1 .. N |-> k - 1])
  BY <1>1, SampleNamesPages
<1> HIDE DEF at
<1>4. /\ sample \in Seq(S) /\ sample # <<>>
      /\ \A k \in DOMAIN sample : \E j \in DOMAIN book : sample[k] = book[j]
  BY <1>3, SampledIs DEF N
<1>5. sampleCount >= N => sample = book
  <2> SUFFICES ASSUME sampleCount >= N PROVE sample = book
    OBVIOUS
  <2>1. at = [k \in 1 .. N |-> k - 1]
    BY <1>3
  <2>2. sample = [k \in 1 .. N |-> book[(k - 1) + 1]]
    BY <2>1 DEF Math!Sampled
  <2>3. \A k \in 1 .. N : (k - 1) + 1 = k
    BY <1>1
  <2>4. book = [k \in 1 .. N |-> book[k]]
    BY <1>1
  <2> HIDE DEF sample
  <2> QED BY <2>2, <2>3, <2>4
<1> HIDE DEF sample
<1>6. \A k \in DOMAIN sample : IsSheet(sample[k])
  BY <1>4
<1>7. whole \in Positive
  <2>1. \A k \in DOMAIN sample : sample[k].pixels \in Positive
    BY <1>6 DEF IsSheet, Positive
  <2>2. PICK product \in [0 .. Len(sample) -> Positive] : whole = product[Len(sample)]
    BY <1>4, <2>1, CommonPixelsIs
  <2>3. Len(sample) \in 0 .. Len(sample)
    BY <1>4
  <2> QED BY <2>2, <2>3
<1>8. values \in Seq(Nat) /\ values # <<>>
  <2> HIDE DEF whole
  <2> QED BY <1>4, <1>6, <1>7, BytesPerPixelAre
<1>9. pixels \in Int
  <2>1. \A k \in DOMAIN book : areas[k] \in Int
    BY DEF IsSheet
  <2>2. DOMAIN areas = DOMAIN book
    OBVIOUS
  <2>3. IsFiniteSet(DOMAIN book)
    BY PlacesAre
  <2> HIDE DEF areas
  <2>4. Sum(areas, DOMAIN areas) \in Int
    BY <2>1, <2>2, <2>3, SumType
  <2> QED BY <2>4, TotalIs
<1>10. around \in Int
  <2> DEFINE p == container.perPage
             f == container.fixed
  <2>1. p \in Nat /\ f \in Nat
    OBVIOUS
  <2> HIDE DEF p, f
  <2>2. p * N + f \in Int
    BY <1>1, <2>1
  <2> QED BY <2>2 DEF p, f
<1> DEFINE B == Math!Total(sizes)
<1>11. B \in Int
  <2>1. \A k \in DOMAIN book : sizes[k] \in Int
    BY DEF IsSheet
  <2>2. DOMAIN sizes = DOMAIN book /\ IsFiniteSet(DOMAIN book)
    BY PlacesAre
  <2> HIDE DEF sizes
  <2>3. Sum(sizes, DOMAIN sizes) \in Int
    BY <2>1, <2>2, SumType
  <2> QED BY <2>3, TotalIs
<1>12. size = B + around
  <2>1. Len(sizes) = N
    <3>1. \A k \in 1 .. N : book[k].bytes \in Nat
      BY <1>1 DEF IsSheet
    <3>2. sizes = [k \in 1 .. N |-> book[k].bytes]
      BY <1>1
    <3> HIDE DEF sizes
    <3>3. sizes \in [1 .. N -> Nat]
      BY <3>1, <3>2
    <3> QED BY <1>1, <3>3
  <2>2. size = container.fixed + container.perPage * Len(sizes) + B
    BY DEF Math!DocumentBytes
  <2> HIDE DEF B, sizes, size
  <2> DEFINE p == container.perPage
             f == container.fixed
             w == p * N
  <2>3. p \in Nat /\ f \in Nat
    OBVIOUS
  <2>4. w \in Int
    <3> HIDE DEF p
    <3> QED BY <1>1, <2>3
  <2>5. around = w + f /\ size = f + w + B
    BY <2>1, <2>2 DEF around
  <2> HIDE DEF p, f, w, around
  <2> QED BY <1>11, <2>3, <2>4, <2>5
<1> DEFINE every == sampleCount >= N
           alike == \A k \in DOMAIN book : book[k].pixels = book[1].pixels
<1>13. every => Len(values) = N /\ (alike => pixels * Math!Total(values) = (Len(values) * whole) * B)
  <2> SUFFICES ASSUME every
               PROVE  Len(values) = N /\ (alike => pixels * Math!Total(values) = (Len(values) * whole) * B)
    OBVIOUS
  <2>1. sample = book
    BY <1>5
  <2>2. Len(values) = Len(sample)
    <3> HIDE DEF whole
    <3> QED BY <1>4, <1>6, <1>7, BytesPerPixelAre
  <2>3. ASSUME alike PROVE pixels * Math!Total(values) = (Len(values) * whole) * B
    BY <2>1, <2>3, ExactExtrapolation DEF whole, values, pixels
  <2> QED BY <2>1, <2>2, <2>3 DEF N
<1>14. every /\ N < Math!QuartileMinSamples =>
         /\ pixels * Math!LowHigh4(values)[1] <= (4 * whole) * B
         /\ (4 * whole) * B <= pixels * Math!LowHigh4(values)[2]
  <2> SUFFICES ASSUME every, N < Math!QuartileMinSamples
               PROVE  /\ pixels * Math!LowHigh4(values)[1] <= (4 * whole) * B
                      /\ (4 * whole) * B <= pixels * Math!LowHigh4(values)[2]
    OBVIOUS
  <2>1. sample = book /\ Len(book) < Math!QuartileMinSamples
    BY <1>5 DEF N
  <2> QED BY <2>1, ExtremesEnclose DEF whole, values, pixels
<1> HIDE DEF values, whole, pixels, around, B, size, alike
<1>15. ASSUME NEW e \in Math!Estimate(book, sampleCount, container)
       PROVE  /\ e.lower <= e.central /\ e.central <= e.upper
              /\ every /\ N < Math!QuartileMinSamples => e.lower <= size /\ size <= e.upper + 1
              /\ every /\ alike => e.central \in size - 1 .. size
  <2>1. /\ e.lower <= e.central /\ e.central <= e.upper
        /\ e.lower \in Int /\ e.central \in Int /\ e.upper \in Int
        /\ \A b \in Int : pixels * Math!Total(values) = (Len(values) * whole) * b
                          => b + around - 1 <= e.central /\ e.central <= b + around
        /\ \A b \in Int : pixels * Math!LowHigh4(values)[1] <= (4 * whole) * b => e.lower <= b + around
        /\ \A b \in Int : (4 * whole) * b <= pixels * Math!LowHigh4(values)[2] => b + around - 1 <= e.upper
    BY <1>2, <1>7, <1>8, <1>9, <1>10, BoundsEnclose
  <2>2. ASSUME every, alike PROVE e.central \in size - 1 .. size
    <3>1. B + around - 1 <= e.central /\ e.central <= B + around
      BY <1>11, <1>13, <2>1, <2>2
    <3> QED BY <1>10, <1>11, <1>12, <2>1, <3>1
  <2>3. ASSUME every, N < Math!QuartileMinSamples PROVE e.lower <= size /\ size <= e.upper + 1
    <3>1. e.lower <= B + around /\ B + around - 1 <= e.upper
      BY <1>11, <1>14, <2>1, <2>3
    <3> QED BY <1>10, <1>11, <1>12, <2>1, <3>1
  <2> QED BY <2>1, <2>2, <2>3
<1> HIDE DEF sizes
<1> QED BY <1>15 DEF Math!EstimateIsCalibrated, size, sizes, alike, N

\* Selections, samples, quartiles, estimates and outlier flags are what they
\* should be, for all terms, page counts and measured pages.
THEOREM PagesAreExactCorrect == ProbeSpec => []PagesAreExact
<1>1. ProbeOK => PagesAreExact
  <2> SUFFICES ASSUME ProbeOK PROVE PagesAreExact
    OBVIOUS
  <2>1. ASSUME probe.of = "selection" PROVE Math!SelectionIsExact(probe.in[1], probe.in[2])
    <3> DEFINE terms == probe.in[1]
               T == [kind : STRING, from : Nat, to : Nat]
    <3>1. terms \in Seq(T) /\ probe.in[2] \in Nat
      BY <2>1, PagesAssumption DEF ProbeOK
    <3> HIDE DEF terms
    <3>2. Len(terms) \in Nat /\ DOMAIN terms = 1 .. Len(terms)
      BY <3>1
    <3>3. \A k \in 1 .. Len(terms) : IsTerm(terms[k])
      <4>1. \A k \in 1 .. Len(terms) : terms[k] \in T
        <5> HIDE DEF T
        <5> QED BY <3>1, <3>2
      <4>2. \A t \in T : IsTerm(t)
        BY DEF IsTerm
      <4> QED BY <4>1, <4>2
    <3>4. Math!SelectionIsExact(terms, probe.in[2])
      BY <3>1, <3>2, <3>3, SelectionsAreExact
    <3> QED BY <3>4 DEF terms
  <2>2. ASSUME probe.of = "sample" PROVE Math!SampleIsEven(probe.in[1], probe.in[2])
    <3>1. probe.in[1] \in Nat \ {0} /\ probe.in[2] \in 1 .. Math!MaxSampleCount
      BY <2>2, PagesAssumption DEF ProbeOK
    <3> QED BY <3>1, SamplesAreEven
  <2>3. ASSUME probe.of = "quartiles" PROVE Math!QuartilesDivide(probe.in)
    <3>1. probe.in \in Seq(Nat) /\ probe.in # <<>>
      BY <2>3, PagesAssumption DEF ProbeOK
    <3> QED BY <3>1, QuartilesDivideValues
  <2>4. ASSUME probe.of = "estimate" PROVE Math!EstimateIsCalibrated(probe.in[1][1], probe.in[1][2], probe.in[2])
    <3> DEFINE book == probe.in[1][1]
               count == probe.in[1][2]
               container == probe.in[2]
               T == [pixels : Nat \ {0}, bytes : Nat]
    <3>1. probe.in[1] \in Estimates /\ container \in Containers
      BY <2>4 DEF ProbeOK
    <3>2. book \in Seq(T) /\ book # <<>> /\ count \in Nat \ {0} /\ container \in [fixed : Nat, perPage : Nat]
      BY <3>1, PagesAssumption
    <3> HIDE DEF book, count, container
    <3>3. \A k \in DOMAIN book : IsSheet(book[k])
      <4>1. \A p \in T : IsSheet(p)
        BY DEF IsSheet
      <4> HIDE DEF T
      <4>2. \A k \in DOMAIN book : book[k] \in T
        BY <3>2
      <4> QED BY <4>1, <4>2
    <3>4. Math!EstimateIsCalibrated(book, count, container)
      <4>1. container.fixed \in Nat /\ container.perPage \in Nat
        BY <3>2
      <4> QED BY <3>2, <3>3, <4>1, EstimatesAreCalibrated
    <3> QED BY <3>4 DEF book, count, container
  <2>5. ASSUME probe.of = "outliers" PROVE Math!OutliersAreExtreme(probe.in)
    <3> DEFINE book == probe.in
               T == [bytes : Nat, duration : Nat, pixels : Nat, black : Nat]
    <3>1. book \in Seq(T) /\ book # <<>>
      BY <2>5, PagesAssumption DEF ProbeOK
    <3> HIDE DEF book
    <3>2. \A k \in DOMAIN book : IsMeasured(book[k])
      <4>1. \A p \in T : IsMeasured(p)
        BY DEF IsMeasured
      <4> HIDE DEF T
      <4>2. \A k \in DOMAIN book : book[k] \in T
        BY <3>1
      <4> QED BY <4>1, <4>2
    <3> HIDE DEF T
    <3>3. Math!OutliersAreExtreme(book)
      BY <3>1, <3>2, OutliersAreFew
    <3> QED BY <3>3 DEF book
  <2> QED BY <2>1, <2>2, <2>3, <2>4, <2>5 DEF PagesAreExact
<1> QED BY <1>1, ProbesAreInputs, PTL

-----------------------------------------------------------------------------
(* The outline of a searchable PDF (PdfOutline).                           *)
Outline == INSTANCE PdfOutline

\* The least and the greatest of some numbers, or 0.
IsLeast(S, x) == IF S = {} THEN x = 0 ELSE x \in S /\ \A y \in S : x <= y
IsGreatest(S, x) == IF S = {} THEN x = 0 ELSE x \in S /\ \A y \in S : y <= x

\* Links of n nodes whose parents are P.
Kids(P, m) == {k \in DOMAIN P : P[k] = m}
Later(P, k) == {j \in DOMAIN P : P[j] = P[k] /\ j > k}
Earlier(P, k) == {j \in DOMAIN P : P[j] = P[k] /\ j < k}
Linked(n, P, o) ==
  /\ n \in Nat /\ P \in [1 .. n -> 0 .. n] /\ DOMAIN o = 0 .. n
  /\ \A m \in 0 .. n : IsLeast(Kids(P, m), o[m].first) /\ IsGreatest(Kids(P, m), o[m].last)
  /\ o[0].next = 0
  /\ \A k \in 1 .. n :
       /\ o[k].parent = P[k]
       /\ IsLeast(Later(P, k), o[k].next) /\ IsGreatest(Earlier(P, k), o[k].prev)

\* Nodes are deeper than their parents.
Deeper(n, P, level) ==
  level \in [1 .. n -> Nat] /\ \A k \in 1 .. n : P[k] # 0 => level[P[k]] < level[k]

\* What Min and Max find.
LEMMA LeastOfIs ==
  ASSUME NEW n \in Nat, NEW S \in SUBSET (1 .. n)
  PROVE  /\ IsLeast(S, IF S = {} THEN 0 ELSE Outline!Min(S))
         /\ IsGreatest(S, IF S = {} THEN 0 ELSE Outline!Max(S))
<1>1. CASE S = {}
  BY <1>1 DEF IsLeast, IsGreatest
<1>2. CASE S # {}
  <2>1. \E x \in S : \A y \in S : x <= y
    <3>1. S \in SUBSET Nat
      OBVIOUS
    <3> QED BY <1>2, <3>1, LeastNatural
  <2>2. \E x \in S : \A y \in S : y <= x
    <3>1. n \in Int /\ \A x \in S : x \in Int /\ x <= n
      OBVIOUS
    <3>2. Img!Greatest(S) \in S /\ \A y \in S : y <= Img!Greatest(S)
      BY <1>2, <3>1, GreatestIs
    <3> QED BY <3>2
  <2>3. \E x \in S : \A y \in S : x >= y
    <3>1. \A x, y \in S : y <= x <=> x >= y
      OBVIOUS
    <3> QED BY <2>2, <3>1
  <2>4. Outline!Min(S) \in S /\ \A y \in S : Outline!Min(S) <= y
    BY <2>1 DEF Outline!Min
  <2>5. Outline!Max(S) \in S /\ \A y \in S : Outline!Max(S) >= y
    BY <2>3 DEF Outline!Max
  <2>6. \A y \in S : y <= Outline!Max(S)
    BY <2>5
  <2> QED BY <1>2, <2>4, <2>5, <2>6 DEF IsLeast, IsGreatest
<1> QED BY <1>1, <1>2

\* The only link to the first of some siblings is its parent's.
LEMMA FirstHasOneLink ==
  ASSUME NEW n, NEW P, NEW o, Linked(n, P, o), NEW k \in 1 .. n, Earlier(P, k) = {}
  PROVE  /\ {j \in 0 .. n : o[j].first = k} = {P[k]} /\ {j \in 0 .. n : o[j].next = k} = {}
         /\ o[k].prev = 0
<1>1. n \in Nat /\ P \in [1 .. n -> 0 .. n]
  BY DEF Linked
<1>2. \A j \in 1 .. n : P[j] = P[k] => k <= j
  BY <1>1 DEF Earlier
<1>3. o[P[k]].first = k
  <2>1. IsLeast(Kids(P, P[k]), o[P[k]].first) /\ k \in Kids(P, P[k])
    BY <1>1 DEF Linked, Kids
  <2>2. o[P[k]].first \in 1 .. n /\ P[o[P[k]].first] = P[k] /\ o[P[k]].first <= k
    BY <1>1, <2>1 DEF IsLeast, Kids
  <2> QED BY <1>2, <2>2
<1>4. ASSUME NEW j \in 0 .. n, o[j].first = k PROVE j = P[k]
  <2>1. IsLeast(Kids(P, j), k)
    BY <1>4 DEF Linked
  <2>2. k # 0
    OBVIOUS
  <2> QED BY <2>1, <2>2 DEF IsLeast, Kids
<1>5. ASSUME NEW j \in 0 .. n, o[j].next = k PROVE FALSE
  <2>1. k # 0 /\ j \in 1 .. n
    BY <1>1, <1>5 DEF Linked
  <2>2. IsLeast(Later(P, j), k)
    BY <1>5, <2>1 DEF Linked
  <2>3. P[j] = P[k] /\ k > j
    BY <2>1, <2>2 DEF IsLeast, Later
  <2> QED BY <1>2, <2>1, <2>3
<1>6. o[k].prev = 0
  BY DEF Linked, IsGreatest
<1>7. P[k] \in 0 .. n
  BY <1>1
<1> QED BY <1>3, <1>4, <1>5, <1>6, <1>7

\* The only link to another sibling is that of the one before it.
LEMMA NextHasOneLink ==
  ASSUME NEW n, NEW P, NEW o, Linked(n, P, o), NEW k \in 1 .. n, Earlier(P, k) # {}
  PROVE  /\ {j \in 0 .. n : o[j].first = k} = {} /\ {j \in 0 .. n : o[j].next = k} = {o[k].prev}
         /\ o[k].prev \in 1 .. n /\ P[o[k].prev] = P[k]
<1>1. n \in Nat /\ P \in [1 .. n -> 0 .. n]
  BY DEF Linked
<1> DEFINE b == o[k].prev
<1>2. b \in 1 .. n /\ P[b] = P[k] /\ b < k /\ \A j \in 1 .. n : P[j] = P[k] /\ j < k => j <= b
  <2>1. IsGreatest(Earlier(P, k), b)
    BY DEF Linked
  <2> HIDE DEF b
  <2> QED BY <1>1, <2>1 DEF IsGreatest, Earlier
<1>3. ASSUME NEW j \in 0 .. n, o[j].first = k PROVE FALSE
  <2>1. IsLeast(Kids(P, j), k)
    BY <1>3 DEF Linked
  <2>2. P[k] = j /\ \A i \in 1 .. n : P[i] = j => k <= i
    BY <1>1, <2>1 DEF IsLeast, Kids
  <2> QED BY <1>2, <2>2
<1>4. ASSUME NEW j \in 0 .. n, o[j].next = k PROVE j = b
  <2>1. j \in 1 .. n
    BY <1>1, <1>4 DEF Linked
  <2>2. IsLeast(Later(P, j), k)
    BY <1>4, <2>1 DEF Linked
  <2>3. P[j] = P[k] /\ j < k /\ \A i \in 1 .. n : P[i] = P[j] /\ i > j => k <= i
    BY <1>1, <2>2 DEF IsLeast, Later
  <2>4. j <= b /\ ~ (b > j)
    BY <1>2, <2>1, <2>3
  <2> HIDE DEF b
  <2> QED BY <1>2, <2>1, <2>4
<1>5. o[b].next = k
  <2>1. IsLeast(Later(P, b), o[b].next)
    BY <1>2 DEF Linked
  <2> DEFINE f == o[b].next
  <2>2. k \in Later(P, b)
    BY <1>1, <1>2 DEF Later
  <2>3. f \in 1 .. n /\ P[f] = P[b] /\ f > b /\ f <= k
    BY <1>1, <2>1, <2>2 DEF IsLeast, Later
  <2>4. ~ (f < k)
    <3> HIDE DEF f, b
    <3> QED BY <1>2, <2>3
  <2> HIDE DEF f, b
  <2> QED BY <2>3, <2>4 DEF f
<1>6. b \in 0 .. n
  BY <1>2
<1> QED BY <1>2, <1>3, <1>4, <1>5, <1>6

\* One link leads to a node, and the links back agree.
OneLinkTo(n, o, k) ==
  /\ Cardinality({j \in 0 .. n : o[j].first = k}) + Cardinality({j \in 0 .. n : o[j].next = k}) = 1
  /\ \A j \in {i \in 0 .. n : o[i].first = k} : o[k].parent = j /\ o[k].prev = 0
  /\ \A j \in {i \in 0 .. n : o[i].next = k} : o[k].parent = o[j].parent /\ o[k].prev = j
  /\ o[k].next = 0 => o[o[k].parent].last = k

\* The links are those of a tree.
LEMMA LinksAgree ==
  ASSUME NEW n, NEW P, NEW o, Linked(n, P, o), NEW k \in 1 .. n
  PROVE  OneLinkTo(n, o, k)
<1> DEFINE firstOf == {j \in 0 .. n : o[j].first = k}
           nextOf == {j \in 0 .. n : o[j].next = k}
<1>1. n \in Nat /\ P \in [1 .. n -> 0 .. n] /\ o[k].parent = P[k]
  BY DEF Linked
<1>2. Cardinality({}) = 0 /\ \A x : Cardinality({x}) = 1
  BY FS_EmptySet, FS_Singleton
<1>3. o[k].next = 0 => o[P[k]].last = k
  <2> SUFFICES ASSUME o[k].next = 0 PROVE o[P[k]].last = k
    OBVIOUS
  <2>1. IsLeast(Later(P, k), 0)
    BY DEF Linked
  <2>2. \A j \in 1 .. n : P[j] = P[k] => j <= k
    BY <1>1, <2>1 DEF IsLeast, Later
  <2>3. IsGreatest(Kids(P, P[k]), o[P[k]].last) /\ k \in Kids(P, P[k])
    BY <1>1 DEF Linked, Kids
  <2>4. o[P[k]].last \in 1 .. n /\ P[o[P[k]].last] = P[k] /\ k <= o[P[k]].last
    BY <1>1, <2>3 DEF IsGreatest, Kids
  <2> QED BY <2>2, <2>4
<1>4. CASE Earlier(P, k) = {}
  <2>1. firstOf = {P[k]} /\ nextOf = {} /\ o[k].prev = 0
    BY <1>4, FirstHasOneLink
  <2> HIDE DEF firstOf, nextOf
  <2>2. Cardinality(firstOf) + Cardinality(nextOf) = 1
    <3>1. Cardinality(firstOf) = 1 /\ Cardinality(nextOf) = 0
      BY <1>2, <2>1, Zenon
    <3> QED BY <3>1
  <2>3. \A j \in firstOf : o[k].parent = j /\ o[k].prev = 0
    BY <1>1, <2>1
  <2> QED BY <1>1, <1>3, <2>1, <2>2, <2>3 DEF OneLinkTo, firstOf, nextOf
<1>5. CASE Earlier(P, k) # {}
  <2>1. firstOf = {} /\ nextOf = {o[k].prev} /\ o[k].prev \in 1 .. n /\ P[o[k].prev] = P[k]
    BY <1>5, NextHasOneLink
  <2> HIDE DEF firstOf, nextOf
  <2>2. Cardinality(firstOf) + Cardinality(nextOf) = 1
    <3>1. Cardinality(firstOf) = 0 /\ Cardinality(nextOf) = 1
      BY <1>2, <2>1, Zenon
    <3> QED BY <3>1
  <2>3. o[o[k].prev].parent = P[k]
    BY <2>1 DEF Linked
  <2>4. \A j \in nextOf : o[k].parent = o[j].parent /\ o[k].prev = j
    BY <1>1, <2>1, <2>3
  <2> QED BY <1>1, <1>3, <2>1, <2>2, <2>4 DEF OneLinkTo, firstOf, nextOf
<1> QED BY <1>4, <1>5

\* What is closed under the links and has the root has every node, when the
\* parents are less deep.
LEMMA ClosedIsAll ==
  ASSUME NEW n, NEW P, NEW o, Linked(n, P, o), NEW level, Deeper(n, P, level),
         NEW R \in SUBSET (0 .. n), 0 \in R, \A j \in R : {o[j].first, o[j].next} \subseteq R
  PROVE  R = 0 .. n
<1>1. n \in Nat /\ P \in [1 .. n -> 0 .. n]
  BY DEF Linked
<1> SUFFICES ASSUME NEW z \in 1 .. n, z \notin R PROVE FALSE
  <2>1. \A z \in 0 .. n : z = 0 \/ z \in 1 .. n
    BY <1>1
  <2> QED BY <2>1
<1> DEFINE missing == {k \in 1 .. n : k \notin R}
           T == {level[k] : k \in missing}
<1> USE DEF Deeper
<1>2. PICK l \in T : \A m \in T : l <= m
  <2>1. T \in SUBSET Nat /\ T # {}
    OBVIOUS
  <2> HIDE DEF T
  <2> QED BY <2>1, LeastNatural
<1>3. PICK k \in missing : l = level[k]
  BY <1>2
<1>4. P[k] \in R
  <2>1. CASE P[k] = 0
    BY <2>1
  <2>2. CASE P[k] # 0
    <3>1. P[k] \in 1 .. n /\ level[P[k]] < level[k] /\ level[P[k]] \in Nat /\ level[k] \in Nat
      BY <1>1, <2>2
    <3>2. P[k] \notin missing
      <4>1. SUFFICES ASSUME P[k] \in missing PROVE FALSE
        OBVIOUS
      <4>2. level[P[k]] \in T
        BY <4>1
      <4>3. level[k] <= level[P[k]]
        BY <1>2, <1>3, <4>2
      <4> QED BY <3>1, <4>3
    <3> QED BY <3>1, <3>2
  <2> QED BY <2>1, <2>2
<1> DEFINE U == {j \in missing : P[j] = P[k]}
<1>5. PICK i \in U : \A j \in U : i <= j
  <2>1. U \in SUBSET Nat /\ U # {}
    OBVIOUS
  <2> HIDE DEF U
  <2> QED BY <2>1, LeastNatural
<1>6. CASE Earlier(P, i) = {}
  <2>1. P[k] \in {j \in 0 .. n : o[j].first = i}
    BY <1>5, <1>6, FirstHasOneLink
  <2> QED BY <1>4, <1>5, <2>1
<1>7. CASE Earlier(P, i) # {}
  <2>1. o[i].prev \in 1 .. n /\ P[o[i].prev] = P[k] /\ o[o[i].prev].next = i
    <3>1. i \in 1 .. n /\ P[i] = P[k]
      BY <1>5
    <3>2. o[i].prev \in {j \in 0 .. n : o[j].next = i} /\ o[i].prev \in 1 .. n /\ P[o[i].prev] = P[i]
      BY <1>7, <3>1, NextHasOneLink
    <3> QED BY <3>1, <3>2
  <2>2. o[i].prev < i
    <3>1. o[i].prev \in Earlier(P, i)
      BY <1>5, <1>7 DEF Linked, IsGreatest
    <3> QED BY <3>1 DEF Earlier
  <2>3. o[i].prev \in R
    BY <1>5, <2>1, <2>2
  <2> QED BY <1>5, <2>1, <2>3
<1> QED BY <1>6, <1>7

\* One step along first and next.
Met(o, S) == S \cup {o[j].first : j \in S} \cup {o[j].next : j \in S}
Reaches(n, o, f) == f = [k \in 0 .. n |-> IF k = 0 THEN {0} ELSE Met(o, f[k - 1])]

\* Steps along the links stay among the nodes.
LEMMA LinksAreNodes ==
  ASSUME NEW n, NEW P, NEW o, Linked(n, P, o), NEW S \in SUBSET (0 .. n)
  PROVE  Met(o, S) \in SUBSET (0 .. n)
<1>1. ASSUME NEW m \in 0 .. n PROVE o[m].first \in 0 .. n /\ o[m].next \in 0 .. n
  <2>1. n \in Nat /\ DOMAIN P = 1 .. n /\ 0 \in 0 .. n /\ (m = 0 \/ m \in 1 .. n)
    BY DEF Linked
  <2>2. o[m].first \in 0 .. n
    <3>1. IsLeast(Kids(P, m), o[m].first)
      BY DEF Linked
    <3> QED BY <2>1, <3>1 DEF IsLeast, Kids
  <2>3. o[m].next \in 0 .. n
    <3>1. o[m].next = 0 \/ IsLeast(Later(P, m), o[m].next)
      BY <2>1 DEF Linked
    <3> QED BY <2>1, <3>1 DEF IsLeast, Later
  <2> QED BY <2>2, <2>3
<1> QED BY <1>1 DEF Met

\* Every step meets a new node until all are met.
LEMMA StepsReachAll ==
  ASSUME NEW n, NEW P, NEW o, Linked(n, P, o), NEW level, Deeper(n, P, level),
         NEW f, Reaches(n, o, f)
  PROVE  f[n] = 0 .. n
<1> DEFINE V == SUBSET (0 .. n)
           Far(k) == f[k] = 0 .. n \/ Cardinality(f[k]) >= k + 1
           T == {k \in Nat : k <= n => f[k] \in V /\ 0 \in f[k] /\ Far(k)}
<1>1. n \in Nat
  BY DEF Linked
<1>2. f[0] = {0} /\ \A k \in 1 .. n : f[k] = Met(o, f[k - 1])
  <2>1. \A k \in 0 .. n : f[k] = IF k = 0 THEN {0} ELSE Met(o, f[k - 1])
    BY Zenon DEF Reaches
  <2>2. 0 \in 0 .. n /\ \A k \in 1 .. n : k \in 0 .. n /\ k # 0
    BY <1>1
  <2> QED BY <2>1, <2>2
<1>3. IsFiniteSet(0 .. n) /\ Cardinality(0 .. n) = n + 1
  BY <1>1, FS_Interval
<1>4. \A S \in V : IsFiniteSet(S) /\ Cardinality(S) \in Nat
  BY <1>3, FS_Subset, FS_CardinalityType
<1>5. \A S, R \in V : S \subseteq R /\ S # R => Cardinality(S) < Cardinality(R)
  <2> SUFFICES ASSUME NEW S \in V, NEW R \in V, S \subseteq R, S # R PROVE Cardinality(S) < Cardinality(R)
    OBVIOUS
  <2>1. IsFiniteSet(R) /\ Cardinality(S) \in Nat /\ Cardinality(R) \in Nat
    BY <1>4
  <2> HIDE DEF V
  <2>2. Cardinality(S) <= Cardinality(R) /\ (Cardinality(S) = Cardinality(R) => S = R)
    BY <2>1, FS_Subset
  <2> QED BY <2>1, <2>2
<1>6. 0 \in T
  <2>1. 0 \in 0 .. n /\ {0} \in V
    BY <1>1
  <2>2. Cardinality({0}) = 1
    BY FS_Singleton
  <2>3. f[0] \in V /\ 0 \in f[0] /\ Cardinality(f[0]) >= 0 + 1
    BY <1>2, <2>1, <2>2
  <2> QED BY <2>3
<1>7. ASSUME NEW k \in T PROVE k + 1 \in T
  <2> SUFFICES ASSUME k + 1 <= n PROVE f[k + 1] \in V /\ 0 \in f[k + 1] /\ Far(k + 1)
    OBVIOUS
  <2>1. k \in Nat /\ k <= n /\ k + 1 \in 1 .. n /\ k + 1 - 1 = k
    BY <1>1
  <2>2. f[k + 1] = Met(o, f[k])
    BY <1>2, <2>1
  <2>3. f[k] \in V /\ 0 \in f[k] /\ Far(k)
    BY <2>1
  <2>4. f[k + 1] \in V
    BY <2>2, <2>3, LinksAreNodes
  <2>5. f[k] \subseteq f[k + 1]
    BY <2>2 DEF Met
  <2>6. CASE f[k + 1] = f[k]
    <3>1. \A j \in f[k] : {o[j].first, o[j].next} \subseteq f[k]
      BY <2>2, <2>6 DEF Met
    <3>2. f[k] = 0 .. n
      <4> DEFINE R == f[k]
      <4>1. R \in SUBSET (0 .. n) /\ 0 \in R
        BY <2>3
      <4>2. \A j \in R : {o[j].first, o[j].next} \subseteq R
        BY <3>1
      <4> HIDE DEF R
      <4>3. R = 0 .. n
        BY <4>1, <4>2, ClosedIsAll
      <4> QED BY <4>3 DEF R
    <3> QED BY <2>3, <2>6, <3>2
  <2>7. CASE f[k + 1] # f[k]
    <3>1. Cardinality(f[k]) < Cardinality(f[k + 1]) /\ Cardinality(f[k]) \in Nat /\ Cardinality(f[k + 1]) \in Nat
      <4> HIDE DEF V
      <4> QED BY <1>4, <1>5, <2>3, <2>4, <2>5, <2>7
    <3>2. f[k] # 0 .. n
      BY <2>4, <2>5, <2>7
    <3>3. Cardinality(f[k]) >= k + 1
      BY <2>3, <3>2
    <3>4. Cardinality(f[k + 1]) >= (k + 1) + 1
      BY <2>1, <3>1, <3>3
    <3> QED BY <2>3, <2>4, <2>5, <3>4
  <2> QED BY <2>6, <2>7
<1>8. T = Nat
  <2>1. T \in SUBSET Nat
    OBVIOUS
  <2> HIDE DEF T
  <2> QED BY <1>6, <1>7, <2>1, Induction
<1>9. f[n] \in V /\ Far(n)
  <2>1. n \in T /\ n <= n
    BY <1>1, <1>8
  <2> QED BY <2>1
<1>10. CASE Cardinality(f[n]) >= n + 1
  <2>1. ~ (Cardinality(f[n]) < n + 1)
    <3>1. Cardinality(f[n]) \in Nat
      <4> HIDE DEF V
      <4> QED BY <1>4, <1>9
    <3> QED BY <1>1, <1>10, <3>1
  <2>2. 0 .. n \in V /\ f[n] \subseteq 0 .. n
    BY <1>9
  <2>3. f[n] = 0 .. n
    <3> HIDE DEF V
    <3> QED BY <1>3, <1>5, <1>9, <2>1, <2>2
  <2> QED BY <2>3
<1> QED BY <1>9, <1>10

\* From the root every node is reached.
LEMMA RootReachesAll ==
  ASSUME NEW n, NEW P, NEW o, Linked(n, P, o), NEW level, Deeper(n, P, level)
  PROVE  Outline!Reached(o)[n] = 0 .. n
<1> DEFINE V == SUBSET (0 .. n)
           step == [x \in (1 .. n) \X V |-> Met(o, x[2])]
           reached == CHOOSE f : Reaches(n, o, f)
<1>1. n \in Nat /\ DOMAIN o = 0 .. n
  BY DEF Linked
<1>2. Iterable(n, V, {0}, step)
  <2>1. \A S \in V : Met(o, S) \in V
    BY LinksAreNodes
  <2>2. step \in [(1 .. n) \X V -> V] /\ {0} \in V
    BY <1>1, <2>1
  <2> HIDE DEF V, step
  <2> QED BY <1>1, <2>2 DEF Iterable
<1>3. \E f : Reaches(n, o, f)
  <2>1. PICK f : Iterates(f, n, V, {0}, step)
    <3> HIDE DEF V, step
    <3> QED BY <1>2, Iteration
  <2>2. f \in [0 .. n -> V] /\ f[0] = {0} /\ \A k \in 1 .. n : f[k] = step[<<k, f[k - 1]>>]
    BY <2>1 DEF Iterates
  <2>3. ASSUME NEW k \in 0 .. n PROVE f[k] = IF k = 0 THEN {0} ELSE Met(o, f[k - 1])
    <3>1. CASE k = 0
      BY <2>2, <3>1
    <3>2. CASE k # 0
      <4>1. k \in 1 .. n /\ k - 1 \in 0 .. n
        BY <1>1, <3>2
      <4>2. <<k, f[k - 1]>> \in (1 .. n) \X V
        BY <2>2, <4>1
      <4>3. step[<<k, f[k - 1]>>] = Met(o, f[k - 1])
        BY <4>2
      <4> QED BY <2>2, <3>2, <4>1, <4>3
    <3> QED BY <3>1, <3>2
  <2>4. f = [k \in 0 .. n |-> IF k = 0 THEN {0} ELSE Met(o, f[k - 1])]
    <3> HIDE DEF V, step
    <3> QED BY <2>2, <2>3
  <2> QED BY <2>4 DEF Reaches
<1>4. Reaches(n, o, reached)
  <2>1. \E f : Reaches(n, o, f)
    BY <1>3
  <2> QED BY <2>1
<1>5. Outline!Reached(o) = reached
  BY <1>1 DEF Outline!Reached, Reaches, Met
<1> HIDE DEF reached
<1> QED BY <1>4, <1>5, StepsReachAll

\* The place of the parent of a candidate, 0 without one.
Place(c, id) == {k \in DOMAIN c : c[k].id = id}
ParentOf(c, k) ==
  IF c[k].parent = <<>> \/ Place(c, c[k].parent[1]) = {} THEN 0 ELSE Outline!Min(Place(c, c[k].parent[1]))
Parents(c) == [k \in 1 .. Len(c) |-> ParentOf(c, k)]

\* What stands above a candidate is the one its parent names.
LEMMA AboveIsParent ==
  ASSUME NEW S, NEW c \in Seq(S), Outline!IsForest(c), NEW k \in 1 .. Len(c)
  PROVE  /\ ParentOf(c, k) \in 0 .. Len(c)
         /\ ParentOf(c, k) # 0 => <<c[ParentOf(c, k)].id>> = c[k].parent
         /\ ParentOf(c, k) = 0 => \A j \in 1 .. Len(c) : <<c[j].id>> # c[k].parent
<1>1. DOMAIN c = 1 .. Len(c) /\ Len(c) \in Nat
  OBVIOUS
<1>2. c[k].parent = <<>> \/ c[k].parent = <<c[k].parent[1]>>
  BY <1>1 DEF Outline!IsForest
<1> DEFINE p == c[k].parent[1]
           found == Place(c, p)
<1>3. CASE c[k].parent = <<>>
  <2>1. \A x : <<x>> # <<>>
    OBVIOUS
  <2> QED BY <1>1, <1>3, <2>1 DEF ParentOf
<1>4. CASE c[k].parent # <<>> /\ found = {}
  <2>1. \A j \in 1 .. Len(c) : c[j].id # p
    BY <1>1, <1>4 DEF Place
  <2>2. \A j \in 1 .. Len(c) : <<c[j].id>> # c[k].parent
    <3>1. \A j \in 1 .. Len(c) : <<c[j].id>>[1] = c[j].id
      OBVIOUS
    <3> QED BY <2>1, <3>1
  <2> QED BY <1>1, <1>4, <2>2 DEF ParentOf
<1>5. CASE c[k].parent # <<>> /\ found # {}
  <2>1. ParentOf(c, k) = Outline!Min(found)
    BY <1>5 DEF ParentOf
  <2>2. found \in SUBSET (1 .. Len(c))
    BY <1>1 DEF Place
  <2>3. Outline!Min(found) \in found
    <3> HIDE DEF found
    <3> QED BY <1>1, <1>5, <2>2, LeastOfIs DEF IsLeast
  <2>4. ParentOf(c, k) \in 1 .. Len(c) /\ c[ParentOf(c, k)].id = p
    BY <1>1, <2>1, <2>3 DEF Place
  <2> QED BY <1>1, <1>2, <1>5, <2>4
<1> QED BY <1>3, <1>4, <1>5

\* The links of AddOutline are those of its parents.
LEMMA AddOutlineLinks ==
  ASSUME NEW S, NEW c \in Seq(S), Outline!IsForest(c)
  PROVE  Linked(Len(c), Parents(c), Outline!AddOutline(c))
<1> DEFINE n == Len(c)
           P == Parents(c)
           o == Outline!AddOutline(c)
           LeastOf(T) == IF T = {} THEN 0 ELSE Outline!Min(T)
           GreatestOf(T) == IF T = {} THEN 0 ELSE Outline!Max(T)
<1>1. n \in Nat /\ DOMAIN c = 1 .. n /\ P \in [1 .. n -> 0 .. n]
  BY AboveIsParent DEF Parents
<1>2. \A k \in 1 .. n : P[k] = ParentOf(c, k)
  BY DEF Parents
<1>3. o = [m \in 0 .. n |->
             [parent |-> IF m = 0 THEN 0 ELSE ParentOf(c, m),
              first |-> LeastOf({k \in DOMAIN c : ParentOf(c, k) = m}),
              last |-> GreatestOf({k \in DOMAIN c : ParentOf(c, k) = m}),
              next |-> IF m = 0 THEN 0
                       ELSE LeastOf({j \in {k \in DOMAIN c : ParentOf(c, k) = ParentOf(c, m)} : j > m}),
              prev |-> IF m = 0 THEN 0
                       ELSE GreatestOf({j \in {k \in DOMAIN c : ParentOf(c, k) = ParentOf(c, m)} : j < m})]]
  BY Zenon DEF Outline!AddOutline, ParentOf, Place
<1>4. \A m : {k \in DOMAIN c : ParentOf(c, k) = m} = Kids(P, m)
  BY <1>1, <1>2 DEF Kids
<1>5. \A m \in 1 .. n : /\ {j \in {k \in DOMAIN c : ParentOf(c, k) = ParentOf(c, m)} : j > m} = Later(P, m)
                        /\ {j \in {k \in DOMAIN c : ParentOf(c, k) = ParentOf(c, m)} : j < m} = Earlier(P, m)
  BY <1>1, <1>2 DEF Later, Earlier
<1>6. \A T \in SUBSET (1 .. n) : IsLeast(T, LeastOf(T)) /\ IsGreatest(T, GreatestOf(T))
  BY <1>1, LeastOfIs
<1>7. \A m : Kids(P, m) \in SUBSET (1 .. n) /\ Later(P, m) \in SUBSET (1 .. n) /\ Earlier(P, m) \in SUBSET (1 .. n)
  BY <1>1 DEF Kids, Later, Earlier
<1> HIDE DEF n, P, o, LeastOf, GreatestOf
<1>8. DOMAIN o = 0 .. n
  BY <1>3
<1>9. ASSUME NEW m \in 0 .. n PROVE IsLeast(Kids(P, m), o[m].first) /\ IsGreatest(Kids(P, m), o[m].last)
  <2>1. o[m].first = LeastOf(Kids(P, m)) /\ o[m].last = GreatestOf(Kids(P, m))
    BY <1>3, <1>4
  <2> QED BY <1>6, <1>7, <2>1
<1>10. o[0].next = 0
  <2>1. 0 \in 0 .. n
    BY <1>1
  <2> QED BY <1>3, <2>1
<1>11. ASSUME NEW k \in 1 .. n
       PROVE  o[k].parent = P[k] /\ IsLeast(Later(P, k), o[k].next) /\ IsGreatest(Earlier(P, k), o[k].prev)
  <2>1. k \in 0 .. n /\ k # 0
    BY <1>1
  <2>2. o[k].parent = ParentOf(c, k) /\ o[k].next = LeastOf(Later(P, k)) /\ o[k].prev = GreatestOf(Earlier(P, k))
    BY <1>3, <1>5, <2>1
  <2> QED BY <1>2, <1>6, <1>7, <2>2
<1> QED BY <1>1, <1>8, <1>9, <1>10, <1>11 DEF Linked, n, P, o

\* The outline written for the confirmed bookmarks of an effective view, of any
\* number and depth, is their tree: from the root every one is met once, under
\* its parent when that is confirmed, and the links back agree.
THEOREM OutlineOfForestIsTree ==
  ASSUME NEW S, NEW confirmed \in Seq(S), Outline!IsForest(confirmed)
  PROVE  Outline!OutlineIsTree(confirmed, Outline!AddOutline(confirmed))
<1> DEFINE n == Len(confirmed)
           P == Parents(confirmed)
           o == Outline!AddOutline(confirmed)
           level == [k \in 1 .. n |-> confirmed[k].level]
<1>1. Linked(n, P, o)
  BY AddOutlineLinks
<1>2. n \in Nat /\ DOMAIN confirmed = 1 .. n /\ \A k \in 1 .. n : P[k] = ParentOf(confirmed, k)
  BY DEF Parents
<1>3. \A k \in 1 .. n : /\ P[k] \in 0 .. n
                        /\ P[k] # 0 => <<confirmed[P[k]].id>> = confirmed[k].parent
                        /\ P[k] = 0 => \A j \in 1 .. n : <<confirmed[j].id>> # confirmed[k].parent
  BY <1>2, AboveIsParent
<1> HIDE DEF P, o
<1>4. Deeper(n, P, level)
  <2>1. level \in [1 .. n -> Nat]
    BY <1>2 DEF Outline!IsForest
  <2>2. ASSUME NEW k \in 1 .. n, P[k] # 0 PROVE level[P[k]] < level[k]
    <3>1. P[k] \in 1 .. n
      BY <1>2, <1>3, <2>2
    <3>2. confirmed[P[k]].level < confirmed[k].level
      BY <1>2, <1>3, <2>2, <3>1 DEF Outline!IsForest
    <3> QED BY <3>1, <3>2
  <2> QED BY <2>1, <2>2 DEF Deeper
<1>5. Outline!Reached(o)[n] = 0 .. n
  <2> HIDE DEF level, n
  <2> QED BY <1>1, <1>4, RootReachesAll
<1>6. \A k \in 1 .. n : OneLinkTo(n, o, k)
  <2> HIDE DEF n
  <2> QED BY <1>1, LinksAgree
<1>7. ASSUME NEW k \in 1 .. n
      PROVE  (IF o[k].parent = 0 THEN <<>> ELSE <<confirmed[o[k].parent].id>>)
               = IF \E j \in 1 .. n : <<confirmed[j].id>> = confirmed[k].parent THEN confirmed[k].parent ELSE <<>>
  <2>1. o[k].parent = P[k]
    BY <1>1 DEF Linked
  <2>2. P[k] # 0 => P[k] \in 1 .. n
    BY <1>2, <1>3
  <2> HIDE DEF n
  <2> QED BY <1>3, <2>1, <2>2
<1>8. \A T : Outline!Cardinality(T) = Cardinality(T)
  BY DEF Outline!Cardinality, Cardinality
<1> QED BY <1>5, <1>6, <1>7, <1>8, Zenon DEF Outline!OutlineIsTree, OneLinkTo, n, o

-----------------------------------------------------------------------------
(* The scores of the benchmark (Benchmark).                                *)
Bench == INSTANCE Benchmark

\* Two masks of one size.
ArePair(out, truth) == IsMask(out) /\ IsMask(truth) /\ out.w = truth.w /\ out.h = truth.h

\* The size of a set is the same in Benchmark.
LEMMA BenchSize == ASSUME NEW S PROVE Bench!Cardinality(S) = Cardinality(S)
BY DEF Bench!Cardinality, Cardinality
\* A sum of Benchmark is the sum above.
LEMMA BenchSum == ASSUME NEW f, NEW S PROVE Bench!SumFunctionOnSet(f, S) = Sum(f, S)
BY Zenon DEF Bench!SumFunctionOnSet, Bench!FoldFunctionOnSet, Bench!MapThenFoldSet,
             Sum, Img!SumFunctionOnSet, Img!FoldFunctionOnSet, Img!MapThenFoldSet

\* Masks of one size are the same when their pixels are.
LEMMA SamePixelsSameMask ==
  ASSUME NEW out, NEW truth, ArePair(out, truth)
  PROVE  /\ DOMAIN out.px = DOMAIN truth.px
         /\ (\A at \in DOMAIN truth.px : out.px[at] = truth.px[at]) <=> out = truth
         /\ IsFiniteSet(DOMAIN truth.px)
         /\ \A at \in DOMAIN truth.px : out.px[at] \in BOOLEAN /\ truth.px[at] \in BOOLEAN
<1>1. /\ out.w \in Nat /\ out.h \in Nat
      /\ out.px \in [Img!Pixels(out.w, out.h) -> BOOLEAN] /\ truth.px \in [Img!Pixels(out.w, out.h) -> BOOLEAN]
      /\ out = Img!Image(out.w, out.h, out.px) /\ truth = Img!Image(out.w, out.h, truth.px)
  BY DEF ArePair, IsMask, IsImage
<1>2. DOMAIN out.px = Img!Pixels(out.w, out.h) /\ DOMAIN truth.px = Img!Pixels(out.w, out.h)
  BY <1>1
<1>3. ASSUME \A at \in DOMAIN truth.px : out.px[at] = truth.px[at] PROVE out = truth
  <2>1. out.px = truth.px
    BY <1>1, <1>2, <1>3
  <2> QED BY <1>1, <2>1
<1>4. IsFiniteSet(DOMAIN truth.px)
  BY <1>1, <1>2, PixelsAreFinite
<1>5. \A at \in DOMAIN truth.px : out.px[at] \in BOOLEAN /\ truth.px[at] \in BOOLEAN
  BY <1>1, <1>2
<1> QED BY <1>2, <1>3, <1>4, <1>5

\* The pixels that are o in one mask and t in the other.
Agreeing(out, truth, o, t) == {at \in DOMAIN truth.px : out.px[at] = o /\ truth.px[at] = t}

\* The confusion counts those pixels.
LEMMA ConfusionCounts ==
  ASSUME NEW out, NEW truth
  PROVE  Bench!Confusion(out, truth) =
           [tp |-> Cardinality(Agreeing(out, truth, TRUE, TRUE)), fp |-> Cardinality(Agreeing(out, truth, TRUE, FALSE)),
            fn |-> Cardinality(Agreeing(out, truth, FALSE, TRUE)), tn |-> Cardinality(Agreeing(out, truth, FALSE, FALSE))]
BY BenchSize, Zenon DEF Bench!Confusion, Agreeing

\* Nothing is wrong in the ground truth only.
LEMMA ConfusionIs ==
  ASSUME NEW out, NEW truth, ArePair(out, truth)
  PROVE  LET c == Bench!Confusion(out, truth)
         IN  /\ c \in [tp : Nat, fp : Nat, fn : Nat, tn : Nat]
             /\ c.fp + c.fn = 0 <=> out = truth
<1> DEFINE A(o, t) == Agreeing(out, truth, o, t)
<1>1. ASSUME NEW o \in BOOLEAN, NEW t \in BOOLEAN
      PROVE  /\ IsFiniteSet(A(o, t)) /\ Cardinality(A(o, t)) \in Nat
             /\ Cardinality(A(o, t)) = 0 <=> A(o, t) = {}
  <2>1. A(o, t) \in SUBSET DOMAIN truth.px
    BY DEF Agreeing
  <2>2. IsFiniteSet(A(o, t))
    <3> HIDE DEF A
    <3> QED BY <2>1, SamePixelsSameMask, FS_Subset
  <2> HIDE DEF A
  <2> QED BY <2>2, FS_CardinalityType, FS_EmptySet
<1>2. A(TRUE, FALSE) = {} /\ A(FALSE, TRUE) = {} <=> out = truth
  <2>1. A(TRUE, FALSE) = {} /\ A(FALSE, TRUE) = {} <=> \A at \in DOMAIN truth.px : out.px[at] = truth.px[at]
    <3>1. \A at \in DOMAIN truth.px : out.px[at] \in BOOLEAN /\ truth.px[at] \in BOOLEAN
      BY SamePixelsSameMask
    <3> QED BY <3>1, Zenon DEF Agreeing
  <2> QED BY <2>1, SamePixelsSameMask
<1> HIDE DEF A
<1> DEFINE c == [tp |-> Cardinality(A(TRUE, TRUE)), fp |-> Cardinality(A(TRUE, FALSE)),
                 fn |-> Cardinality(A(FALSE, TRUE)), tn |-> Cardinality(A(FALSE, FALSE))]
<1>3. Bench!Confusion(out, truth) = c
  BY ConfusionCounts DEF A
<1>4. c \in [tp : Nat, fp : Nat, fn : Nat, tn : Nat]
  BY <1>1
<1>5. c.fp + c.fn = 0 <=> A(TRUE, FALSE) = {} /\ A(FALSE, TRUE) = {}
  <2>1. c.fp \in Nat /\ c.fn \in Nat /\ (c.fp = 0 <=> A(TRUE, FALSE) = {}) /\ (c.fn = 0 <=> A(FALSE, TRUE) = {})
    BY <1>1
  <2>2. c.fp + c.fn = 0 <=> c.fp = 0 /\ c.fn = 0
    <3> HIDE DEF c
    <3> QED BY <2>1
  <2> HIDE DEF c
  <2> QED BY <2>1, <2>2, Zenon
<1> QED BY <1>2, <1>3, <1>4, <1>5

\* What F1 is: twice the right ink in all the ink of both, where there is some.
LEMMA F1Is ==
  ASSUME NEW c \in [tp : Nat, fp : Nat, fn : Nat, tn : Nat]
  PROVE  LET f == Bench!F1(c)
         IN  \/ c.tp = 0 /\ c.fp = 0 /\ c.fn = 0 /\ f.n = 2 /\ f.d = 2
             \/ c.tp = 0 /\ c.fp + c.fn > 0 /\ f.n = 0 /\ f.d \in Positive
             \/ c.tp > 0 /\ \E x \in Positive : f.n = (2 * c.tp) * x /\ f.d = (2 * c.tp + c.fp + c.fn) * x
<1> DEFINE f == Bench!F1(c)
           p == Bench!Precision(c)
           r == Bench!Recall(c)
           a == c.tp + c.fp
           b == c.tp + c.fn
<1> USE DEF Bench!Ratio
<1>1. c.tp \in Nat /\ c.fp \in Nat /\ c.fn \in Nat
  OBVIOUS
<1>2. f = IF p.n * r.d + r.n * p.d = 0 THEN Bench!Ratio(0, 1)
          ELSE Bench!Ratio(2 * p.n * r.n * (p.d * r.d), p.d * r.d * (p.n * r.d + r.n * p.d))
  BY DEF Bench!F1, Bench!HarmonicMean, Bench!Add
<1>3. CASE a = 0 /\ b = 0
  <2>1. c.tp = 0 /\ c.fp = 0 /\ c.fn = 0
    BY <1>1, <1>3
  <2>2. p = Bench!Ratio(1, 1) /\ r = Bench!Ratio(1, 1)
    BY <1>3 DEF Bench!Precision, Bench!Recall
  <2> QED BY <1>2, <2>1, <2>2
<1>4. CASE a = 0 /\ b # 0
  <2>1. c.tp = 0 /\ c.fp = 0 /\ c.fn > 0 /\ b = c.fn
    BY <1>1, <1>4
  <2>2. p = Bench!Ratio(0, 1) /\ r = Bench!Ratio(0, c.fn)
    BY <1>4, <2>1 DEF Bench!Precision, Bench!Recall
  <2> QED BY <1>1, <1>2, <2>1, <2>2 DEF Positive
<1>5. CASE a # 0 /\ b = 0
  <2>1. c.tp = 0 /\ c.fn = 0 /\ c.fp > 0 /\ a = c.fp
    BY <1>1, <1>5
  <2>2. p = Bench!Ratio(0, c.fp) /\ r = Bench!Ratio(1, 1)
    BY <1>5, <2>1 DEF Bench!Precision, Bench!Recall
  <2>3. p.n * r.d + r.n * p.d = c.fp
    BY <1>1, <2>2
  <2>4. f.n = 2 * 0 * 1 * (c.fp * 1) /\ f.d = c.fp * 1 * c.fp
    BY <1>2, <2>1, <2>2, <2>3
  <2>5. c.fp * 1 * c.fp \in Positive
    BY <1>1, <2>1 DEF Positive
  <2> QED BY <1>1, <2>1, <2>4, <2>5
<1>6. CASE a # 0 /\ b # 0
  <2>1. p = Bench!Ratio(c.tp, a) /\ r = Bench!Ratio(c.tp, b) /\ a \in Positive /\ b \in Positive
    BY <1>1, <1>6 DEF Bench!Precision, Bench!Recall, Positive
  <2>2. f = IF c.tp * b + c.tp * a = 0 THEN Bench!Ratio(0, 1)
            ELSE Bench!Ratio(2 * c.tp * c.tp * (a * b), a * b * (c.tp * b + c.tp * a))
    <3> HIDE DEF a, b
    <3> QED BY <1>2, <2>1
  <2>3. CASE c.tp = 0
    <3>1. c.tp * b + c.tp * a = 0 /\ c.fp + c.fn > 0
      BY <1>1, <1>6, <2>3
    <3>2. f.n = 0 /\ f.d = 1
      BY <2>2, <3>1
    <3> QED BY <2>3, <3>1, <3>2 DEF Positive
  <2>4. CASE c.tp # 0
    <3> DEFINE x == c.tp * (a * b)
    <3>1. x \in Positive /\ c.tp * b + c.tp * a # 0
      <4>1. a * b \in Positive /\ c.tp * b \in Positive /\ c.tp * a \in Positive
        <5>1. \A i, j \in Positive : i * j \in Positive
          BY DEF Positive
        <5> HIDE DEF a, b
        <5> QED BY <1>1, <2>1, <2>4, <5>1 DEF Positive
      <4>2. x \in Positive
        <5>1. \A i, j \in Positive : i * j \in Positive
          BY DEF Positive
        <5> HIDE DEF a, b
        <5> QED BY <1>1, <2>4, <4>1, <5>1 DEF Positive
      <4> HIDE DEF x, a, b
      <4> QED BY <4>1, <4>2 DEF Positive
    <3>2. f.n = 2 * c.tp * c.tp * (a * b) /\ f.d = a * b * (c.tp * b + c.tp * a)
      BY <2>2, <3>1
    <3>3. 2 * c.tp * c.tp * (a * b) = (2 * c.tp) * x
      <4>1. \A y \in Int : 2 * c.tp * c.tp * y = (2 * c.tp) * (c.tp * y)
        BY <1>1
      <4> HIDE DEF a, b
      <4> QED BY <2>1, <4>1 DEF Positive
    <3>4. a * b * (c.tp * b + c.tp * a) = (2 * c.tp + c.fp + c.fn) * x
      <4>1. 2 * c.tp + c.fp + c.fn = a + b
        BY <1>1
      <4>2. \A t, u, v \in Int : u * v * (t * v + t * u) = (u + v) * (t * (u * v))
        OBVIOUS
      <4> HIDE DEF a, b
      <4> QED BY <1>1, <2>1, <4>1, <4>2 DEF Positive
    <3> HIDE DEF x, a, b
    <3>5. f.n = (2 * c.tp) * x /\ f.d = (2 * c.tp + c.fp + c.fn) * x
      BY <3>2, <3>3, <3>4
    <3> QED BY <1>1, <2>4, <3>1, <3>5
  <2> QED BY <2>3, <2>4
<1> QED BY <1>3, <1>4, <1>5, <1>6

\* F1 is a fraction between 0 and 1, and 1 when no pixel is wrong.
LEMMA F1IsBounded ==
  ASSUME NEW c \in [tp : Nat, fp : Nat, fn : Nat, tn : Nat]
  PROVE  LET f == Bench!F1(c)
         IN  /\ f.n \in Nat /\ f.d \in Positive /\ f.n <= f.d
             /\ f.n = f.d <=> c.fp + c.fn = 0
<1> DEFINE f == Bench!F1(c)
<1>1. c.tp \in Nat /\ c.fp \in Nat /\ c.fn \in Nat
  OBVIOUS
<1>2. CASE c.tp = 0 /\ c.fp = 0 /\ c.fn = 0 /\ f.n = 2 /\ f.d = 2
  <2> HIDE DEF f
  <2> QED BY <1>2 DEF f, Positive
<1>3. CASE c.tp = 0 /\ c.fp + c.fn > 0 /\ f.n = 0 /\ f.d \in Positive
  <2> HIDE DEF f
  <2> QED BY <1>1, <1>3 DEF f, Positive
<1>4. CASE c.tp > 0 /\ \E x \in Positive : f.n = (2 * c.tp) * x /\ f.d = (2 * c.tp + c.fp + c.fn) * x
  <2>1. PICK x \in Positive : f.n = (2 * c.tp) * x /\ f.d = (2 * c.tp + c.fp + c.fn) * x
    BY <1>4
  <2> DEFINE u == 2 * c.tp
             w == c.fp + c.fn
  <2>2. u \in Positive /\ w \in Nat /\ 2 * c.tp + c.fp + c.fn = u + w
    BY <1>1, <1>4 DEF Positive
  <2> HIDE DEF u, w
  <2>3. f.n = u * x /\ f.d = u * x + w * x
    <3>1. f.n = u * x /\ f.d = (u + w) * x
      <4> HIDE DEF f
      <4> QED BY <2>1, <2>2 DEF u
    <3>2. (u + w) * x = u * x + w * x
      BY <2>1, <2>2 DEF Positive
    <3> QED BY <3>1, <3>2
  <2>4. u * x \in Positive /\ w * x \in Nat /\ (w * x = 0 <=> w = 0)
    BY <2>1, <2>2 DEF Positive
  <2>5. f.n \in Nat /\ f.d \in Positive /\ f.n <= f.d /\ (f.n = f.d <=> w = 0)
    <3> HIDE DEF f
    <3> QED BY <2>3, <2>4 DEF Positive
  <2> QED BY <2>5 DEF w
<1>5. \/ c.tp = 0 /\ c.fp = 0 /\ c.fn = 0 /\ f.n = 2 /\ f.d = 2
      \/ c.tp = 0 /\ c.fp + c.fn > 0 /\ f.n = 0 /\ f.d \in Positive
      \/ c.tp > 0 /\ \E x \in Positive : f.n = (2 * c.tp) * x /\ f.d = (2 * c.tp + c.fp + c.fn) * x
  BY F1Is
<1> QED BY <1>2, <1>3, <1>4, <1>5

\* The scores of a mask against the ground truth, whatever their size, agree on
\* what is perfect: F1 is 1, and the PSNR a match, exactly when the mask is the
\* ground truth, which then has no distortion; blank pages are no exception.
THEOREM ScoresAgreeOnPerfection ==
  ASSUME NEW out, NEW truth, ArePair(out, truth) PROVE Bench!PerfectionAgrees(out, truth)
<1> DEFINE c == Bench!Confusion(out, truth)
           s == Bench!Scores(out, truth)
           f == Bench!F1(c)
<1>1. c \in [tp : Nat, fp : Nat, fn : Nat, tn : Nat] /\ (c.fp + c.fn = 0 <=> out = truth)
  BY ConfusionIs
<1>2. s.f1 = f /\ s.psnr = Bench!Psnr(c) /\ s.drd = Bench!Drd(out, truth)
  BY DEF Bench!Scores, Bench!ScoresOf
<1>3. f.n \in Nat /\ f.d \in Positive /\ f.n <= f.d /\ (f.n = f.d <=> c.fp + c.fn = 0)
  <2> HIDE DEF c
  <2> QED BY <1>1, F1IsBounded
<1>4. Bench!SameRatio(s.f1, Bench!Ratio(1, 1)) <=> out = truth
  <2> HIDE DEF f, c, s
  <2>1. f.n * 1 = f.n /\ 1 * f.d = f.d
    BY <1>3 DEF Positive
  <2>2. Bench!SameRatio(f, Bench!Ratio(1, 1)) <=> f.n = f.d
    BY <2>1 DEF Bench!SameRatio, Bench!Ratio
  <2> QED BY <1>1, <1>2, <1>3, <2>2, Zenon
<1>5. s.psnr = Bench!Perfect <=> out = truth
  <2>1. c.fp + c.fn = 0 => s.psnr = Bench!Perfect
    BY <1>2 DEF Bench!Psnr
  <2>2. c.fp + c.fn # 0 => s.psnr # Bench!Perfect
    <3> SUFFICES ASSUME c.fp + c.fn # 0 PROVE s.psnr # Bench!Perfect
      OBVIOUS
    <3>1. s.psnr.d = c.fp + c.fn
      BY <1>2 DEF Bench!Psnr, Bench!Ratio
    <3>2. Bench!Perfect.d = 0
      BY DEF Bench!Perfect, Bench!Ratio
    <3> HIDE DEF s, c
    <3> QED BY <3>1, <3>2
  <2> HIDE DEF s, c
  <2> QED BY <1>1, <2>1, <2>2, Zenon
<1>6. ASSUME out = truth PROVE s.drd.n = 0
  <2> DEFINE wrong == {at \in DOMAIN truth.px : out.px[at] # truth.px[at]}
             g == [at \in wrong |-> Bench!Distortion(out, truth, at)]
             blocks == Bench!NonUniformBlocks(truth)
  <2>1. wrong = {}
    BY <1>6
  <2>2. s.drd = Bench!Ratio(Bench!SumFunctionOnSet(g, wrong), IF blocks = 0 THEN 1 ELSE blocks)
    BY <1>2, Zenon DEF Bench!Drd
  <2>3. s.drd.n = Bench!SumFunctionOnSet(g, wrong)
    <3> HIDE DEF g, wrong, blocks, s
    <3> QED BY <2>2 DEF Bench!Ratio
  <2>4. Bench!SumFunctionOnSet(g, wrong) = Sum(g, {})
    <3> HIDE DEF g, wrong
    <3> QED BY <2>1, BenchSum
  <2>5. Sum(g, {}) = 0
    <3> HIDE DEF g
    <3> QED BY SumEmpty
  <2> HIDE DEF g, wrong, blocks, s
  <2> QED BY <2>3, <2>4, <2>5
<1>7. Bench!LessEq(Bench!Ratio(0, 1), s.f1) /\ Bench!LessEq(s.f1, Bench!Ratio(1, 1))
  <2> HIDE DEF f, c, s
  <2>1. 0 * f.d <= f.n * 1 /\ f.n * 1 <= 1 * f.d
    BY <1>3 DEF Positive
  <2> QED BY <1>2, <2>1 DEF Bench!LessEq, Bench!Ratio
<1> HIDE DEF f, c
<1> QED BY <1>4, <1>5, <1>6, <1>7, Zenon DEF Bench!PerfectionAgrees, s

\* The part of some pixels in a region, seen from the region and from the page.
FromRegion(A, x, y, w, h) == {at \in Img!Pixels(w, h) : <<x + at[1], y + at[2]>> \in A}
FromPage(A, x, y, w, h) == {q \in A : x <= q[1] /\ q[1] < x + w /\ y <= q[2] /\ q[2] < y + h}

\* It is as much either way.
LEMMA RegionCounts ==
  ASSUME NEW x \in Nat, NEW y \in Nat, NEW w \in Nat, NEW h \in Nat, NEW A, A \subseteq Int \X Int, IsFiniteSet(A)
  PROVE  Cardinality(FromRegion(A, x, y, w, h)) = Cardinality(FromPage(A, x, y, w, h))
<1> DEFINE S == {at \in Img!Pixels(w, h) : <<x + at[1], y + at[2]>> \in A}
           T == {q \in A : x <= q[1] /\ q[1] < x + w /\ y <= q[2] /\ q[2] < y + h}
           f == [at \in S |-> <<x + at[1], y + at[2]>>]
<1>1. \A at \in S : at = <<at[1], at[2]>> /\ at[1] \in 0 .. w - 1 /\ at[2] \in 0 .. h - 1
  BY DEF Img!Pixels
<1>2. f \in [S -> T]
  <2>1. ASSUME NEW at \in S PROVE <<x + at[1], y + at[2]>> \in T
    <3>1. x + at[1] < x + w /\ y + at[2] < y + h /\ x <= x + at[1] /\ y <= y + at[2]
      BY <1>1
    <3> QED BY <3>1
  <2> HIDE DEF S, T
  <2> QED BY <2>1
<1>3. \A at, b \in S : f[at] = f[b] => at = b
  <2> SUFFICES ASSUME NEW at \in S, NEW b \in S, f[at] = f[b] PROVE at = b
    OBVIOUS
  <2>1. x + at[1] = x + b[1] /\ y + at[2] = y + b[2]
    OBVIOUS
  <2>2. at[1] = b[1] /\ at[2] = b[2]
    BY <1>1, <2>1
  <2> HIDE DEF S
  <2> QED BY <1>1, <2>2
<1>4. ASSUME NEW q \in T PROVE \E at \in S : f[at] = q
  <2> DEFINE b == <<q[1] - x, q[2] - y>>
  <2>1. q \in A /\ q[1] \in Int /\ q[2] \in Int /\ q = <<q[1], q[2]>>
    OBVIOUS
  <2>2. q[1] - x \in 0 .. w - 1 /\ q[2] - y \in 0 .. h - 1
    BY <2>1
  <2>3. x + (q[1] - x) = q[1] /\ y + (q[2] - y) = q[2]
    BY <2>1
  <2>4. b \in Img!Pixels(w, h) /\ <<x + b[1], y + b[2]>> = q
    BY <2>1, <2>2, <2>3 DEF Img!Pixels
  <2>5. b \in S
    BY <2>1, <2>4
  <2> QED BY <2>4, <2>5
<1>5. ExistsBijection(S, T)
  <2> HIDE DEF S, T, f
  <2>1. f \in Injection(S, T)
    BY <1>2, <1>3 DEF Injection, IsInjective
  <2>2. f \in Surjection(S, T)
    BY <1>2, <1>4 DEF Surjection
  <2> QED BY <2>1, <2>2 DEF ExistsBijection, Bijection
<1>6. IsFiniteSet(S)
  <2>1. IsFiniteSet(Img!Pixels(w, h)) /\ S \in SUBSET Img!Pixels(w, h)
    BY PixelsAreFinite
  <2> HIDE DEF S
  <2> QED BY <2>1, FS_Subset
<1> HIDE DEF S, T
<1>7. Cardinality(T) = Cardinality(S)
  BY <1>5, <1>6, FS_Bijection
<1> QED BY <1>7 DEF S, T, FromRegion, FromPage

\* What is o and t in a region is what is on the page there.
LEMMA CropCounts ==
  ASSUME NEW out, NEW truth, ArePair(out, truth), NEW o \in BOOLEAN, NEW t \in BOOLEAN,
         NEW x \in Nat, NEW w \in Nat, x + w <= truth.w
  PROVE  LET roi == [x |-> x, y |-> 0, w |-> w, h |-> truth.h]
         IN  Cardinality(Agreeing(Bench!Crop(out, roi), Bench!Crop(truth, roi), o, t))
               = Cardinality({q \in Agreeing(out, truth, o, t) : x <= q[1] /\ q[1] < x + w})
<1> DEFINE roi == [x |-> x, y |-> 0, w |-> w, h |-> truth.h]
           A == Agreeing(out, truth, o, t)
           B == Agreeing(Bench!Crop(out, roi), Bench!Crop(truth, roi), o, t)
<1>1. truth.w \in Nat /\ truth.h \in Nat /\ DOMAIN truth.px = Img!Pixels(truth.w, truth.h)
  BY DEF ArePair, IsMask, IsImage
<1>2. A \subseteq Int \X Int /\ IsFiniteSet(A)
  <2>1. A \in SUBSET DOMAIN truth.px
    BY DEF Agreeing
  <2> HIDE DEF A
  <2>2. IsFiniteSet(A)
    BY <2>1, SamePixelsSameMask, FS_Subset
  <2>3. DOMAIN truth.px \subseteq Int \X Int
    BY <1>1 DEF Img!Pixels
  <2> QED BY <2>1, <2>2, <2>3
<1>3. B = {at \in Img!Pixels(w, truth.h) : <<x + at[1], 0 + at[2]>> \in A}
  <2>1. Bench!Crop(out, roi).px = [at \in Img!Pixels(w, truth.h) |-> out.px[<<x + at[1], 0 + at[2]>>]]
    BY DEF Bench!Crop, Bench!Stages!Image, Bench!Stages!Pixels, Img!Pixels
  <2>2. Bench!Crop(truth, roi).px = [at \in Img!Pixels(w, truth.h) |-> truth.px[<<x + at[1], 0 + at[2]>>]]
    BY DEF Bench!Crop, Bench!Stages!Image, Bench!Stages!Pixels, Img!Pixels
  <2>3. \A at \in Img!Pixels(w, truth.h) : <<x + at[1], 0 + at[2]>> \in DOMAIN truth.px
    <3> SUFFICES ASSUME NEW at \in Img!Pixels(w, truth.h) PROVE <<x + at[1], 0 + at[2]>> \in Img!Pixels(truth.w, truth.h)
      BY <1>1
    <3>1. at[1] \in 0 .. w - 1 /\ at[2] \in 0 .. truth.h - 1
      BY DEF Img!Pixels
    <3>2. x + at[1] \in 0 .. truth.w - 1 /\ 0 + at[2] \in 0 .. truth.h - 1
      BY <1>1, <3>1
    <3> QED BY <3>2 DEF Img!Pixels
  <2> HIDE DEF roi
  <2> QED BY <2>1, <2>2, <2>3 DEF Agreeing
<1>4. {q \in A : x <= q[1] /\ q[1] < x + w /\ 0 <= q[2] /\ q[2] < 0 + truth.h} = {q \in A : x <= q[1] /\ q[1] < x + w}
  <2>1. \A q \in A : 0 <= q[2] /\ q[2] < 0 + truth.h
    <3> SUFFICES ASSUME NEW q \in A PROVE 0 <= q[2] /\ q[2] < 0 + truth.h
      OBVIOUS
    <3>1. q \in Img!Pixels(truth.w, truth.h)
      BY <1>1 DEF Agreeing
    <3>2. q[2] \in 0 .. truth.h - 1
      BY <3>1 DEF Img!Pixels
    <3> QED BY <1>1, <3>2
  <2> HIDE DEF A
  <2> QED BY <2>1
<1> HIDE DEF A, B
<1>5. Cardinality(FromRegion(A, x, 0, w, truth.h)) = Cardinality(FromPage(A, x, 0, w, truth.h))
  <2>1. 0 \in Nat
    OBVIOUS
  <2> QED BY <1>1, <1>2, <2>1, RegionCounts
<1>6. B = FromRegion(A, x, 0, w, truth.h) /\ FromPage(A, x, 0, w, truth.h) = {q \in A : x <= q[1] /\ q[1] < x + w}
  BY <1>3, <1>4 DEF FromRegion, FromPage
<1> QED BY <1>5, <1>6, Zenon DEF A, B

\* The two sides of a cut have every pixel once.
LEMMA CutCounts ==
  ASSUME NEW out, NEW truth, ArePair(out, truth), NEW o \in BOOLEAN, NEW t \in BOOLEAN,
         NEW cut \in 1 .. truth.w - 1
  PROVE  LET left == [x |-> 0, y |-> 0, w |-> cut, h |-> truth.h]
             right == [x |-> cut, y |-> 0, w |-> truth.w - cut, h |-> truth.h]
             count(roi) == Cardinality(Agreeing(Bench!Crop(out, roi), Bench!Crop(truth, roi), o, t))
         IN  /\ count(left) \in Int /\ count(right) \in Int
             /\ count(left) + count(right) = Cardinality(Agreeing(out, truth, o, t))
<1> DEFINE A == Agreeing(out, truth, o, t)
           L == {q \in A : 0 <= q[1] /\ q[1] < 0 + cut}
           R == {q \in A : cut <= q[1] /\ q[1] < cut + (truth.w - cut)}
<1>1. truth.w \in Nat /\ cut \in Nat /\ truth.w - cut \in Nat /\ 0 + cut <= truth.w /\ cut + (truth.w - cut) <= truth.w
  BY DEF ArePair, IsMask, IsImage
<1>2. \A q \in A : q[1] \in 0 .. truth.w - 1
  <2> SUFFICES ASSUME NEW q \in A PROVE q[1] \in 0 .. truth.w - 1
    OBVIOUS
  <2>1. q \in Img!Pixels(truth.w, truth.h)
    BY DEF Agreeing, ArePair, IsMask, IsImage
  <2> QED BY <2>1 DEF Img!Pixels
<1>3. A \in SUBSET DOMAIN truth.px
  BY DEF Agreeing
<1> HIDE DEF A
<1>4. L \cup R = A /\ L \cap R = {}
  BY <1>1, <1>2
<1>5. IsFiniteSet(A) /\ IsFiniteSet(L) /\ IsFiniteSet(R)
  <2>1. IsFiniteSet(A)
    BY <1>3, SamePixelsSameMask, FS_Subset
  <2>2. L \in SUBSET A /\ R \in SUBSET A
    OBVIOUS
  <2> HIDE DEF L, R
  <2> QED BY <2>1, <2>2, FS_Subset
<1>6. Cardinality(L) \in Int /\ Cardinality(R) \in Int /\ Cardinality(L) + Cardinality(R) = Cardinality(A)
  <2> HIDE DEF L, R
  <2>1. Cardinality(L \cup R) = Cardinality(L) + Cardinality(R) - Cardinality(L \cap R)
    BY <1>5, FS_Union
  <2>2. Cardinality(L \cap R) = 0 /\ Cardinality(L) \in Nat /\ Cardinality(R) \in Nat
    BY <1>4, <1>5, FS_EmptySet, FS_CardinalityType
  <2>3. Cardinality(L \cup R) = Cardinality(A)
    BY <1>4
  <2> QED BY <2>1, <2>2, <2>3
<1>7. Cardinality(Agreeing(Bench!Crop(out, [x |-> 0, y |-> 0, w |-> cut, h |-> truth.h]),
                           Bench!Crop(truth, [x |-> 0, y |-> 0, w |-> cut, h |-> truth.h]), o, t)) = Cardinality(L)
  BY <1>1, CropCounts DEF A
<1>8. Cardinality(Agreeing(Bench!Crop(out, [x |-> cut, y |-> 0, w |-> truth.w - cut, h |-> truth.h]),
                           Bench!Crop(truth, [x |-> cut, y |-> 0, w |-> truth.w - cut, h |-> truth.h]), o, t))
        = Cardinality(R)
  BY <1>1, CropCounts DEF A
<1> QED BY <1>6, <1>7, <1>8 DEF A

\* The fields of a confusion.
Fields == {"tp", "fp", "fn", "tn"}

\* The total of two confusions is their sum.
LEMMA TotalOfTwo ==
  ASSUME NEW a, NEW b, \A f \in Fields : a.c[f] \in Int /\ b.c[f] \in Int
  PROVE  Bench!TotalConfusion(<<a, b>>) = [f \in Fields |-> a.c[f] + b.c[f]]
<1> DEFINE s == <<a, b>>
           seq(f) == [k \in DOMAIN s |-> s[k].c[f]]
<1>1. DOMAIN s = {1, 2} /\ s[1] = a /\ s[2] = b
  OBVIOUS
<1> HIDE DEF s
<1>2. ASSUME NEW f \in Fields PROVE Bench!Sum(seq(f)) = a.c[f] + b.c[f]
  <2> DEFINE g == seq(f)
  <2>1. DOMAIN g = {1, 2} /\ g[1] = a.c[f] /\ g[2] = b.c[f]
    BY <1>1
  <2> HIDE DEF g
  <2>2. Bench!Sum(g) = Sum(g, {1, 2})
    <3>1. Bench!Sum(g) = Bench!SumFunctionOnSet(g, {1, 2})
      BY <2>1 DEF Bench!Sum
    <3> QED BY <3>1, BenchSum
  <2>3. Sum(g, {2}) = g[2] + Sum(g, {})
    <3>1. {} \cup {2} = {2} /\ 2 \notin {} /\ g[2] \in Int /\ IsFiniteSet({}) /\ \A x \in {} : g[x] \in Int
      BY <2>1, FS_EmptySet
    <3>2. Sum(g, {} \cup {2}) = g[2] + Sum(g, {})
      BY <3>1, SumInsert
    <3> QED BY <3>1, <3>2
  <2>4. Sum(g, {1, 2}) = g[1] + Sum(g, {2})
    <3>0. IsFiniteSet({2})
      BY FS_Singleton, Zenon
    <3>1. {2} \cup {1} = {1, 2} /\ 1 \notin {2} /\ g[1] \in Int /\ IsFiniteSet({2}) /\ \A x \in {2} : g[x] \in Int
      BY <2>1, <3>0
    <3>2. Sum(g, {2} \cup {1}) = g[1] + Sum(g, {2})
      BY <3>1, SumInsert
    <3> QED BY <3>1, <3>2
  <2>5. Sum(g, {}) = 0
    BY SumEmpty
  <2>6. Bench!Sum(g) = a.c[f] + b.c[f]
    BY <2>1, <2>2, <2>3, <2>4, <2>5
  <2> QED BY <2>6 DEF g
<1>3. Bench!TotalConfusion(s) = [f \in Fields |-> Bench!Sum(seq(f))]
  BY Zenon DEF Bench!TotalConfusion, Fields
<1> HIDE DEF seq
<1>4. Bench!TotalConfusion(s) = [f \in Fields |-> a.c[f] + b.c[f]]
  BY <1>2, <1>3
<1> QED BY <1>4 DEF s

\* Regions that tile a page count every pixel of it once: what they get right
\* and wrong is in total what the page gets right and wrong.
THEOREM RegionsAddUpCorrect ==
  ASSUME NEW out, NEW truth, ArePair(out, truth) PROVE Bench!RegionsAddUp(out, truth)
<1> SUFFICES ASSUME NEW cut \in 1 .. truth.w - 1
             PROVE  LET left == [x |-> 0, y |-> 0, w |-> cut, h |-> truth.h]
                        right == [x |-> cut, y |-> 0, w |-> truth.w - cut, h |-> truth.h]
                        part(roi) == [c |-> Bench!Confusion(Bench!Crop(out, roi), Bench!Crop(truth, roi))]
                    IN  Bench!TotalConfusion(<<part(left), part(right)>>) = Bench!Confusion(out, truth)
  BY DEF Bench!RegionsAddUp
<1> DEFINE left == [x |-> 0, y |-> 0, w |-> cut, h |-> truth.h]
           right == [x |-> cut, y |-> 0, w |-> truth.w - cut, h |-> truth.h]
           whole == Bench!Confusion(out, truth)
           part(roi) == Bench!Confusion(Bench!Crop(out, roi), Bench!Crop(truth, roi))
           a == [c |-> part(left)]
           b == [c |-> part(right)]
           count(roi, o, t) == Cardinality(Agreeing(Bench!Crop(out, roi), Bench!Crop(truth, roi), o, t))
           total(o, t) == Cardinality(Agreeing(out, truth, o, t))
<1>1. \A roi : part(roi) = [tp |-> count(roi, TRUE, TRUE), fp |-> count(roi, TRUE, FALSE),
                            fn |-> count(roi, FALSE, TRUE), tn |-> count(roi, FALSE, FALSE)]
  BY ConfusionCounts
<1>2. whole = [tp |-> total(TRUE, TRUE), fp |-> total(TRUE, FALSE), fn |-> total(FALSE, TRUE), tn |-> total(FALSE, FALSE)]
  BY ConfusionCounts
<1>3. ASSUME NEW o \in BOOLEAN, NEW t \in BOOLEAN
      PROVE  count(left, o, t) \in Int /\ count(right, o, t) \in Int /\ count(left, o, t) + count(right, o, t) = total(o, t)
  BY CutCounts
<1> HIDE DEF left, right, whole, part, count, total
<1>4. \A f \in Fields : part(left)[f] \in Int /\ part(right)[f] \in Int /\ part(left)[f] + part(right)[f] = whole[f]
  <2>1. ASSUME NEW r PROVE /\ part(r)["tp"] = count(r, TRUE, TRUE) /\ part(r)["fp"] = count(r, TRUE, FALSE)
                           /\ part(r)["fn"] = count(r, FALSE, TRUE) /\ part(r)["tn"] = count(r, FALSE, FALSE)
    BY <1>1
  <2>2. /\ whole["tp"] = total(TRUE, TRUE) /\ whole["fp"] = total(TRUE, FALSE)
        /\ whole["fn"] = total(FALSE, TRUE) /\ whole["tn"] = total(FALSE, FALSE)
    BY <1>2
  <2>3. \A f \in Fields : \E o, t \in BOOLEAN :
          part(left)[f] = count(left, o, t) /\ part(right)[f] = count(right, o, t) /\ whole[f] = total(o, t)
    <3> SUFFICES ASSUME NEW f \in Fields
                 PROVE  \E o, t \in BOOLEAN : part(left)[f] = count(left, o, t) /\ part(right)[f] = count(right, o, t)
                                                /\ whole[f] = total(o, t)
      OBVIOUS
    <3>1. f = "tp" \/ f = "fp" \/ f = "fn" \/ f = "tn"
      BY DEF Fields
    <3> QED BY <2>1, <2>2, <3>1, Zenon
  <2> QED BY <1>3, <2>3, Zenon
<1>5. Bench!TotalConfusion(<<a, b>>) = [f \in Fields |-> part(left)[f] + part(right)[f]]
  <2>1. a.c = part(left) /\ b.c = part(right)
    OBVIOUS
  <2> HIDE DEF a, b
  <2>2. \A f \in Fields : a.c[f] \in Int /\ b.c[f] \in Int
    BY <1>4, <2>1
  <2> QED BY <2>1, <2>2, TotalOfTwo
<1>6. whole = [f \in Fields |-> whole[f]]
  BY <1>2 DEF Fields
<1>7. [f \in Fields |-> part(left)[f] + part(right)[f]] = [f \in Fields |-> whole[f]]
  BY <1>4
<1>8. Bench!TotalConfusion(<<a, b>>) = whole
  BY <1>5, <1>6, <1>7
<1> QED BY <1>8 DEF a, b, left, right, part, whole

-----------------------------------------------------------------------------
(* The review of bookmarks (BookmarkReviews).                               *)
Rev == INSTANCE BookmarkReviews

\* The size of a set is the same in BookmarkReviews.
LEMMA ReviewSize == ASSUME NEW S PROVE Rev!Cardinality(S) = Cardinality(S)
BY DEF Rev!Cardinality, Cardinality

\* An order in which every two positions come one after the other; the place of
\* a position, and the position at a place.
IsOrder(order, S) ==
  /\ \A k \in S : <<k, k>> \notin order
  /\ \A j, k \in S : j = k \/ <<j, k>> \in order \/ <<k, j>> \in order
  /\ \A i, j, k \in S : <<i, j>> \in order /\ <<j, k>> \in order => <<i, k>> \in order
RankOf(S, order, k) == Cardinality({j \in S : <<j, k>> \in order})
PositionAt(S, order, i) == CHOOSE k \in S : RankOf(S, order, k) = i - 1

\* Later positions have higher places.
LEMMA RanksGrow ==
  ASSUME NEW S, IsFiniteSet(S), NEW order, IsOrder(order, S), NEW k \in S
  PROVE  /\ RankOf(S, order, k) \in 0 .. Cardinality(S) - 1
         /\ \A j \in S : <<j, k>> \in order => RankOf(S, order, j) < RankOf(S, order, k)
<1> DEFINE B(j) == {i \in S : <<i, j>> \in order}
<1>1. \A j : IsFiniteSet(B(j)) /\ Cardinality(B(j)) \in Nat
  <2> TAKE j
  <2>1. B(j) \in SUBSET S
    OBVIOUS
  <2> HIDE DEF B
  <2> QED BY <2>1, FS_Subset, FS_CardinalityType
<1>2. Cardinality(S) \in Nat
  BY FS_CardinalityType
<1>3. ASSUME NEW T, IsFiniteSet(T), NEW j \in T, NEW U \in SUBSET T, j \notin U
      PROVE  Cardinality(U) < Cardinality(T)
  <2>1. Cardinality(U) <= Cardinality(T) /\ (Cardinality(T) = Cardinality(U) => T = U) /\ IsFiniteSet(U)
    BY <1>3, FS_Subset
  <2>2. Cardinality(U) \in Nat /\ Cardinality(T) \in Nat
    BY <1>3, <2>1, FS_CardinalityType
  <2> QED BY <1>3, <2>1, <2>2
<1>4. Cardinality(B(k)) < Cardinality(S)
  <2>1. B(k) \in SUBSET S /\ k \notin B(k)
    BY DEF IsOrder
  <2> HIDE DEF B
  <2> QED BY <1>3, <2>1
<1>5. ASSUME NEW j \in S, <<j, k>> \in order PROVE Cardinality(B(j)) < Cardinality(B(k))
  <2>1. B(j) \in SUBSET B(k) /\ j \in B(k) /\ j \notin B(j)
    BY <1>5 DEF IsOrder
  <2> HIDE DEF B
  <2> QED BY <1>1, <1>3, <2>1
<1> HIDE DEF B
<1>6. Cardinality(B(k)) \in 0 .. Cardinality(S) - 1
  BY <1>1, <1>2, <1>4
<1> QED BY <1>5, <1>6 DEF B, RankOf

\* Every place has its position, and every position its place.
LEMMA PositionsAre ==
  ASSUME NEW S, IsFiniteSet(S), NEW order, IsOrder(order, S)
  PROVE  LET n == Cardinality(S)
             at(i) == PositionAt(S, order, i)
         IN  /\ n \in Nat
             /\ \A i \in 1 .. n : at(i) \in S
             /\ \A k \in S : \E i \in 1 .. n : at(i) = k
             /\ \A i, j \in 1 .. n : i < j => <<at(i), at(j)>> \in order
             /\ \A i, j \in 1 .. n : at(i) = at(j) => i = j
<1> DEFINE n == Cardinality(S)
           T == 0 .. n - 1
           rank == [k \in S |-> RankOf(S, order, k)]
           at(i) == PositionAt(S, order, i)
<1>1. n \in Nat
  BY FS_CardinalityType
<1>2. \A k \in S : rank[k] \in T
  BY RanksGrow
<1>3. \A j, k \in S : <<j, k>> \in order => rank[j] < rank[k]
  BY RanksGrow
<1>4. \A j, k \in S : rank[j] = rank[k] => j = k
  <2> SUFFICES ASSUME NEW j \in S, NEW k \in S, rank[j] = rank[k] PROVE j = k
    OBVIOUS
  <2>1. j = k \/ <<j, k>> \in order \/ <<k, j>> \in order
    BY DEF IsOrder
  <2>2. rank[j] \in Int /\ rank[k] \in Int
    BY <1>2
  <2> HIDE DEF rank
  <2> QED BY <1>3, <2>1, <2>2
<1>5. IsFiniteSet(T) /\ Cardinality(T) = n
  <2> HIDE DEF n
  <2>1. IsFiniteSet(0 .. n - 1) /\ Cardinality(0 .. n - 1) = IF 0 > n - 1 THEN 0 ELSE (n - 1) - 0 + 1
    BY <1>1, FS_Interval, 0 \in Int, n - 1 \in Int
  <2> QED BY <1>1, <2>1
<1>6. rank \in Surjection(S, T)
  <2>1. rank \in [S -> T]
    BY <1>2
  <2> HIDE DEF rank, T
  <2>2. rank \in Injection(S, T)
    BY <1>4, <2>1 DEF Injection, IsInjective
  <2> QED BY <1>5, <2>2, FS_Injection DEF n
<1>7. ASSUME NEW i \in 1 .. n PROVE at(i) \in S /\ rank[at(i)] = i - 1
  <2>1. i - 1 \in T
    BY <1>1
  <2>2. \E k \in S : rank[k] = i - 1
    <3> HIDE DEF rank, T
    <3> QED BY <1>6, <2>1 DEF Surjection
  <2>3. at(i) = CHOOSE k \in S : rank[k] = i - 1
    BY Zenon DEF PositionAt
  <2> HIDE DEF at, rank
  <2> QED BY <2>2, <2>3
<1>8. ASSUME NEW k \in S PROVE rank[k] + 1 \in 1 .. n /\ at(rank[k] + 1) = k
  <2>1. rank[k] \in T
    BY <1>2
  <2> DEFINE i == rank[k] + 1
  <2>2. i \in 1 .. n /\ i - 1 = rank[k]
    <3> HIDE DEF rank, n
    <3> QED BY <1>1, <2>1
  <2> HIDE DEF i
  <2>3. at(i) \in S /\ rank[at(i)] = rank[k]
    BY <1>7, <2>2
  <2> HIDE DEF rank, at, n
  <2>4. at(i) = k
    BY <1>4, <2>3
  <2> QED BY <2>2, <2>4 DEF i
<1>9. ASSUME NEW i \in 1 .. n, NEW j \in 1 .. n, i < j PROVE <<at(i), at(j)>> \in order
  <2>1. at(i) = at(j) \/ <<at(i), at(j)>> \in order \/ <<at(j), at(i)>> \in order
    BY <1>7 DEF IsOrder
  <2>2. rank[at(i)] = i - 1 /\ rank[at(j)] = j - 1 /\ at(i) \in S /\ at(j) \in S
    BY <1>7
  <2> HIDE DEF rank, at
  <2>3. ~(rank[at(j)] < rank[at(i)]) /\ rank[at(i)] # rank[at(j)]
    BY <1>1, <1>9, <2>2
  <2> QED BY <1>3, <2>1, <2>2, <2>3
<1>10. \A i, j \in 1 .. n : at(i) = at(j) => i = j
  <2> SUFFICES ASSUME NEW i \in 1 .. n, NEW j \in 1 .. n, at(i) = at(j) PROVE i = j
    OBVIOUS
  <2>1. i - 1 = j - 1
    BY <1>7
  <2> QED BY <1>1, <2>1
<1> HIDE DEF rank, at, n
<1> QED BY <1>1, <1>7, <1>8, <1>9, <1>10 DEF at, n

\* Arranged has the elements at the positions, in their order.
LEMMA ArrangedIs ==
  ASSUME NEW seq, NEW S, NEW order
  PROVE  Rev!Arranged(seq, S, order) = [i \in 1 .. Cardinality(S) |-> seq[PositionAt(S, order, i)]]
BY Zenon DEF Rev!Arranged, PositionAt, RankOf, Rev!Cardinality, Cardinality

\* What a bookmark candidate is, apart from what validation asks of it.
CandidateFields == Rev!Kept \cup {"title", "level", "parent", "status"}
IsOptional(o) == o = <<>> \/ o = <<o[1]>>
IsCandidate(c) ==
  /\ c = [f \in CandidateFields |-> c[f]]
  /\ c.level \in Nat /\ c.index \in Nat /\ IsOptional(c.parent) /\ IsOptional(c.box)
  /\ c.box # <<>> => c.box[1].y \in Int /\ c.box[1].den \in Positive

\* Comparing fractions crosswise is an order.
LEMMA FractionsAreOrdered ==
  ASSUME NEW a, NEW b, NEW c, a.n \in Int, b.n \in Int, c.n \in Int,
         a.den \in Positive, b.den \in Positive, c.den \in Positive
  PROVE  /\ Rev!GapBetween(a, b) \in Int /\ Rev!GapBetween(b, a) = 0 - Rev!GapBetween(a, b)
         /\ Rev!GapBetween(a, b) <= 0 /\ Rev!GapBetween(b, c) <= 0
              => /\ Rev!GapBetween(a, c) <= 0
                 /\ Rev!GapBetween(a, c) = 0 => Rev!GapBetween(a, b) = 0 /\ Rev!GapBetween(b, c) = 0
<1> DEFINE p == a.n * b.den
           q == b.n * a.den
           r == b.n * c.den
           s == c.n * b.den
           t == a.n * c.den
           u == c.n * a.den
<1>1. p \in Int /\ q \in Int /\ r \in Int /\ s \in Int /\ t \in Int /\ u \in Int
  BY DEF Positive
<1>2. Rev!GapBetween(a, b) = p - q /\ Rev!GapBetween(b, a) = q - p /\ Rev!GapBetween(b, c) = r - s
      /\ Rev!GapBetween(a, c) = t - u
  BY DEF Rev!GapBetween
<1>3. q * c.den = r * a.den /\ p * c.den = t * b.den /\ s * a.den = u * b.den
  <2>1. \A i, j, k \in Int : (i * j) * k = (i * k) * j
    OBVIOUS
  <2> QED BY <2>1 DEF Positive
<1> HIDE DEF p, q, r, s, t, u
<1>4. ASSUME NEW i \in Int, NEW j \in Int, NEW k \in Positive PROVE i <= j <=> i * k <= j * k
  BY DEF Positive
<1>5. ASSUME p <= q, r <= s PROVE t <= u /\ (t = u => p = q /\ r = s)
  <2>1. p * c.den <= q * c.den /\ r * a.den <= s * a.den
    BY <1>1, <1>4, <1>5
  <2>2. t * b.den <= u * b.den
    <3>1. p * c.den \in Int /\ q * c.den \in Int /\ s * a.den \in Int
      BY <1>1 DEF Positive
    <3> QED BY <1>3, <2>1, <3>1
  <2>3. t <= u
    BY <1>1, <1>4, <2>2
  <2>4. ASSUME t = u PROVE p = q /\ r = s
    <3>1. q * c.den <= p * c.den /\ s * a.den <= r * a.den
      <4>1. p * c.den \in Int /\ q * c.den \in Int /\ s * a.den \in Int
        BY <1>1 DEF Positive
      <4> QED BY <1>3, <2>1, <2>4, <4>1
    <3>2. q <= p /\ s <= r
      BY <1>1, <1>4, <3>1
    <3> QED BY <1>1, <1>5, <3>2
  <2> QED BY <2>3, <2>4
<1>6. /\ p - q \in Int /\ q - p = 0 - (p - q)
      /\ (p - q <= 0 <=> p <= q) /\ (r - s <= 0 <=> r <= s) /\ (t - u <= 0 <=> t <= u)
      /\ (p - q = 0 <=> p = q) /\ (r - s = 0 <=> r = s) /\ (t - u = 0 <=> t = u)
  BY <1>1
<1> QED BY <1>2, <1>5, <1>6

\* A candidate does not come after another.
AtMost(c, e) == ~Rev!Precedes(e, c)

\* The heights of candidates are fractions.
LEMMA TopIs ==
  ASSUME NEW c, IsCandidate(c)
  PROVE  Rev!Top(c).n \in Int /\ Rev!Top(c).den \in Positive
<1>1. CASE c.box = <<>>
  BY <1>1 DEF Rev!Top, Positive
<1>2. CASE c.box # <<>>
  BY <1>2 DEF Rev!Top, IsCandidate
<1> QED BY <1>1, <1>2

\* Candidates compare by index, height and level.
LEMMA BeforeIs ==
  ASSUME NEW c, NEW e, IsCandidate(c), IsCandidate(e)
  PROVE  LET gap == Rev!GapBetween(Rev!Top(c), Rev!Top(e))
         IN  /\ gap \in Int
             /\ Rev!Precedes(c, e) <=> \/ c.index < e.index
                                       \/ c.index = e.index /\ gap < 0
                                       \/ c.index = e.index /\ gap = 0 /\ c.level < e.level
             /\ AtMost(c, e) <=> \/ c.index < e.index
                                 \/ c.index = e.index /\ gap < 0
                                 \/ c.index = e.index /\ gap = 0 /\ c.level <= e.level
<1> DEFINE gap == Rev!GapBetween(Rev!Top(c), Rev!Top(e))
           back == Rev!GapBetween(Rev!Top(e), Rev!Top(c))
<1>1. gap \in Int /\ back = 0 - gap
  BY TopIs, FractionsAreOrdered
<1>2. c.index \in Nat /\ e.index \in Nat /\ c.level \in Nat /\ e.level \in Nat
  BY DEF IsCandidate
<1>3. Rev!Precedes(c, e) <=> \/ c.index < e.index
                             \/ c.index = e.index /\ (gap < 0 \/ (gap = 0 /\ c.level < e.level))
  BY Zenon DEF Rev!Precedes, Rev!PrecedesOnPage
<1>4. AtMost(c, e) <=> ~(\/ e.index < c.index
                         \/ e.index = c.index /\ (back < 0 \/ (back = 0 /\ e.level < c.level)))
  BY Zenon DEF AtMost, Rev!Precedes, Rev!PrecedesOnPage
<1> HIDE DEF gap, back
<1> QED BY <1>1, <1>2, <1>3, <1>4 DEF gap

\* Every two candidates compare, and transitively.
LEMMA BeforeIsAnOrder ==
  ASSUME NEW a, NEW b, NEW c, IsCandidate(a), IsCandidate(b), IsCandidate(c)
  PROVE  /\ AtMost(a, b) \/ AtMost(b, a)
         /\ AtMost(a, b) /\ AtMost(b, c) => AtMost(a, c)
<1> DEFINE g == Rev!GapBetween(Rev!Top(a), Rev!Top(b))
           h == Rev!GapBetween(Rev!Top(b), Rev!Top(c))
           i == Rev!GapBetween(Rev!Top(a), Rev!Top(c))
<1>1. g \in Int /\ h \in Int /\ i \in Int /\ Rev!GapBetween(Rev!Top(b), Rev!Top(a)) = 0 - g
  BY TopIs, FractionsAreOrdered
<1>2. g <= 0 /\ h <= 0 => i <= 0 /\ (i = 0 => g = 0 /\ h = 0)
  BY TopIs, FractionsAreOrdered
<1>3. /\ a.index \in Nat /\ b.index \in Nat /\ c.index \in Nat
      /\ a.level \in Nat /\ b.level \in Nat /\ c.level \in Nat
  BY DEF IsCandidate
<1>4. AtMost(a, b) <=> a.index < b.index \/ (a.index = b.index /\ g < 0) \/ (a.index = b.index /\ g = 0 /\ a.level <= b.level)
  BY BeforeIs
<1>5. AtMost(b, c) <=> b.index < c.index \/ (b.index = c.index /\ h < 0) \/ (b.index = c.index /\ h = 0 /\ b.level <= c.level)
  BY BeforeIs
<1>6. AtMost(a, c) <=> a.index < c.index \/ (a.index = c.index /\ i < 0) \/ (a.index = c.index /\ i = 0 /\ a.level <= c.level)
  BY BeforeIs
<1>7. AtMost(b, a) <=> b.index < a.index \/ (b.index = a.index /\ 0 - g < 0) \/ (b.index = a.index /\ 0 - g = 0 /\ b.level <= a.level)
  BY <1>1, BeforeIs
<1> HIDE DEF g, h, i
<1>8. AtMost(a, b) \/ AtMost(b, a)
  BY <1>1, <1>3, <1>4, <1>7
<1>9. ASSUME AtMost(a, b), AtMost(b, c) PROVE AtMost(a, c)
  <2>1. CASE a.index < b.index \/ b.index < c.index
    BY <1>3, <1>4, <1>5, <1>6, <1>9, <2>1
  <2>2. CASE a.index = b.index /\ b.index = c.index
    <3>1. g <= 0 /\ h <= 0
      BY <1>1, <1>3, <1>4, <1>5, <1>9, <2>2
    <3>2. CASE i < 0
      BY <1>6, <2>2, <3>2
    <3>3. CASE i = 0
      <4>1. g = 0 /\ h = 0
        BY <1>2, <3>1, <3>3
      <4>2. a.level <= b.level /\ b.level <= c.level
        BY <1>3, <1>4, <1>5, <1>9, <2>2, <4>1
      <4> QED BY <1>3, <1>6, <2>2, <3>3, <4>2
    <3> QED BY <1>1, <1>2, <3>1, <3>2, <3>3
  <2> QED BY <1>3, <1>4, <1>5, <1>9, <2>1, <2>2
<1> QED BY <1>8, <1>9

\* So do the positions of a sequence of candidates, one order only.
LEMMA OrderIsAnOrder ==
  ASSUME NEW candidates, DOMAIN candidates \subseteq Int, \A k \in DOMAIN candidates : IsCandidate(candidates[k])
  PROVE  /\ IsOrder(Rev!Order(candidates), DOMAIN candidates)
         /\ \A j, k \in DOMAIN candidates :
              <<j, k>> \in Rev!Order(candidates) => ~Rev!Precedes(candidates[k], candidates[j])
<1> DEFINE D == DOMAIN candidates
           W(j, k) == AtMost(candidates[j], candidates[k])
           order == Rev!Order(candidates)
<1>1. ASSUME NEW j \in D, NEW k \in D PROVE <<j, k>> \in order <=> W(j, k) /\ (W(k, j) => j < k)
  <2>1. <<j, k>> \in order <=> ~W(k, j) \/ (W(j, k) /\ j < k)
    BY DEF Rev!Order, AtMost
  <2>2. W(j, k) \/ W(k, j)
    BY BeforeIsAnOrder
  <2> QED BY <2>1, <2>2
<1>2. \A j, k \in D : W(j, k) \/ W(k, j)
  BY BeforeIsAnOrder
<1>3. \A i, j, k \in D : W(i, j) /\ W(j, k) => W(i, k)
  BY BeforeIsAnOrder
<1>4. \A j, k \in D : <<j, k>> \in order => ~Rev!Precedes(candidates[k], candidates[j])
  <2> SUFFICES ASSUME NEW j \in D, NEW k \in D, <<j, k>> \in order PROVE W(j, k)
    BY DEF AtMost
  <2> HIDE DEF W, order, D
  <2> QED BY <1>1
<1> HIDE DEF W, order
<1>5. IsOrder(order, D)
  <2>1. \A k \in D : <<k, k>> \notin order
    BY <1>1, <1>2
  <2>2. ASSUME NEW j \in D, NEW k \in D PROVE j = k \/ <<j, k>> \in order \/ <<k, j>> \in order
    <3>1. j \in Int /\ k \in Int /\ (W(j, k) \/ W(k, j))
      BY <1>2
    <3>2. j = k \/ j < k \/ k < j
      BY <3>1
    <3>3. (<<j, k>> \in order <=> W(j, k) /\ (W(k, j) => j < k)) /\ (<<k, j>> \in order <=> W(k, j) /\ (W(j, k) => k < j))
      BY <1>1
    <3> QED BY <3>1, <3>2, <3>3
  <2>3. ASSUME NEW i \in D, NEW j \in D, NEW k \in D, <<i, j>> \in order, <<j, k>> \in order
        PROVE  <<i, k>> \in order
    <3>1. W(i, j) /\ W(j, k) /\ (W(j, i) => i < j) /\ (W(k, j) => j < k)
      BY <1>1, <2>3
    <3>2. W(i, k)
      BY <1>3, <3>1
    <3>3. ASSUME W(k, i) PROVE i < k
      <4>1. W(k, j) /\ W(j, i)
        BY <1>3, <3>1, <3>3
      <4> QED BY <3>1, <4>1
    <3> QED BY <1>1, <3>2, <3>3
  <2> HIDE DEF D
  <2> QED BY <2>1, <2>2, <2>3 DEF IsOrder
<1> QED BY <1>4, <1>5 DEF order

\* What a review asks for, apart from what its log asks of it.
ReviewKinds == {"confirm", "reject", "edit", "reparent"}
IsAction(a) == a.do \in ReviewKinds /\ IsOptional(a.parent) /\ a.level \in Nat

\* It changes the title, the verdict or the place of a candidate.
ReviewGives(e, c, a) ==
  /\ \A f \in Rev!Kept : e[f] = c[f]
  /\ e.title = IF a.do = "edit" THEN a.title ELSE c.title
  /\ e.status = IF a.do = "confirm" THEN "confirmed" ELSE IF a.do = "reject" THEN "rejected" ELSE c.status
  /\ \A f \in CandidateFields : e[f] \in {c[f], a.title, a.parent, a.level, "confirmed", "rejected"}
LEMMA ReviewedIs ==
  ASSUME NEW c, IsCandidate(c), NEW a, IsAction(a)
  PROVE  IsCandidate(Rev!Reviewed(c, a)) /\ ReviewGives(Rev!Reviewed(c, a), c, a)
<1>1. CASE a.do = "confirm"
  <2> DEFINE e == [c EXCEPT !.status = "confirmed"]
  <2>1. Rev!Reviewed(c, a) = e
    BY <1>1 DEF Rev!Reviewed
  <2>2. DOMAIN c = CandidateFields
    BY DEF IsCandidate
  <2>3. e = [f \in CandidateFields |-> e[f]]
    BY <2>2
  <2>4. IsCandidate(e)
    BY <2>2, <2>3 DEF IsCandidate, CandidateFields, Rev!Kept
  <2>5. ReviewGives(e, c, a)
    BY <1>1, <2>2 DEF ReviewGives, CandidateFields, Rev!Kept
  <2> QED BY <2>1, <2>4, <2>5
<1>2. CASE a.do = "reject"
  <2> DEFINE e == [c EXCEPT !.status = "rejected"]
  <2>1. Rev!Reviewed(c, a) = e
    BY <1>2 DEF Rev!Reviewed
  <2>2. DOMAIN c = CandidateFields
    BY DEF IsCandidate
  <2>3. e = [f \in CandidateFields |-> e[f]]
    BY <2>2
  <2>4. IsCandidate(e)
    BY <2>2, <2>3 DEF IsCandidate, CandidateFields, Rev!Kept
  <2>5. ReviewGives(e, c, a)
    BY <1>2, <2>2 DEF ReviewGives, CandidateFields, Rev!Kept
  <2> QED BY <2>1, <2>4, <2>5
<1>3. CASE a.do = "edit"
  <2> DEFINE e == [c EXCEPT !.title = a.title]
  <2>1. Rev!Reviewed(c, a) = e
    BY <1>3 DEF Rev!Reviewed
  <2>2. DOMAIN c = CandidateFields
    BY DEF IsCandidate
  <2>3. e = [f \in CandidateFields |-> e[f]]
    BY <2>2
  <2>4. IsCandidate(e)
    BY <2>2, <2>3 DEF IsCandidate, CandidateFields, Rev!Kept
  <2>5. ReviewGives(e, c, a)
    BY <1>3, <2>2 DEF ReviewGives, CandidateFields, Rev!Kept
  <2> QED BY <2>1, <2>4, <2>5
<1>4. CASE a.do = "reparent"
  <2> DEFINE e == [c EXCEPT !.parent = a.parent, !.level = a.level]
  <2>1. Rev!Reviewed(c, a) = e
    BY <1>4 DEF Rev!Reviewed
  <2>2. DOMAIN c = CandidateFields
    BY DEF IsCandidate
  <2>3. e = [f \in CandidateFields |-> e[f]]
    BY <2>2
  <2>4. IsCandidate(e)
    BY <2>2, <2>3 DEF IsCandidate, CandidateFields, Rev!Kept, IsAction
  <2>5. ReviewGives(e, c, a)
    BY <1>4, <2>2 DEF ReviewGives, CandidateFields, Rev!Kept
  <2> QED BY <2>1, <2>4, <2>5
<1> QED BY <1>1, <1>2, <1>3, <1>4 DEF IsAction, ReviewKinds

\* The last title and verdict that n reviews give a candidate.
ReviewsOn(c, operations, n, kinds) ==
  {k \in 1 .. n : operations[k].candidate = c.id /\ operations[k].action.do \in kinds}
TitleBy(c, operations, n) ==
  LET edits == ReviewsOn(c, operations, n, {"edit"})
  IN  IF edits = {} THEN c.title ELSE operations[Rev!Max(edits)].action.title
StatusBy(c, operations, n) ==
  LET verdicts == ReviewsOn(c, operations, n, Rev!Verdicts)
  IN  IF verdicts = {} THEN c.status
      ELSE IF operations[Rev!Max(verdicts)].action.do = "confirm" THEN "confirmed" ELSE "rejected"

\* The next review is the last one, if it is on the candidate.
LEMMA LastReview ==
  ASSUME NEW c, NEW operations, NEW n \in Nat, NEW kinds
  PROVE  LET now == ReviewsOn(c, operations, n + 1, kinds)
             op == operations[n + 1]
         IN  IF op.candidate = c.id /\ op.action.do \in kinds
             THEN now # {} /\ Rev!Max(now) = n + 1
             ELSE now = ReviewsOn(c, operations, n, kinds)
<1> DEFINE now == ReviewsOn(c, operations, n + 1, kinds)
           op == operations[n + 1]
<1>1. CASE op.candidate = c.id /\ op.action.do \in kinds
  <2>1. n + 1 \in now /\ now \subseteq 1 .. n + 1
    BY <1>1 DEF ReviewsOn
  <2> HIDE DEF now
  <2>2. \A x \in now : (\A y \in now : x >= y) <=> x = n + 1
    BY <2>1
  <2>3. Rev!Max(now) = n + 1
    BY <2>1, <2>2 DEF Rev!Max
  <2> QED BY <1>1, <2>1, <2>3 DEF now
<1>2. CASE ~(op.candidate = c.id /\ op.action.do \in kinds)
  <2>1. 1 .. n + 1 = (1 .. n) \cup {n + 1}
    OBVIOUS
  <2>2. now = ReviewsOn(c, operations, n, kinds)
    BY <1>2, <2>1 DEF ReviewsOn
  <2> QED BY <1>2, <2>2
<1> QED BY <1>1, <1>2

LEMMA TitleBySteps ==
  ASSUME NEW c, NEW operations, NEW n \in Nat
  PROVE  TitleBy(c, operations, n + 1) =
           IF operations[n + 1].candidate = c.id /\ operations[n + 1].action.do = "edit"
           THEN operations[n + 1].action.title ELSE TitleBy(c, operations, n)
<1> DEFINE now == ReviewsOn(c, operations, n + 1, {"edit"})
<1>1. IF operations[n + 1].candidate = c.id /\ operations[n + 1].action.do \in {"edit"}
      THEN now # {} /\ Rev!Max(now) = n + 1
      ELSE now = ReviewsOn(c, operations, n, {"edit"})
  BY LastReview
<1> HIDE DEF now
<1> QED BY <1>1 DEF TitleBy, now

LEMMA StatusBySteps ==
  ASSUME NEW c, NEW operations, NEW n \in Nat
  PROVE  StatusBy(c, operations, n + 1) =
           IF operations[n + 1].candidate = c.id /\ operations[n + 1].action.do = "confirm" THEN "confirmed"
           ELSE IF operations[n + 1].candidate = c.id /\ operations[n + 1].action.do = "reject" THEN "rejected"
           ELSE StatusBy(c, operations, n)
<1> DEFINE now == ReviewsOn(c, operations, n + 1, Rev!Verdicts)
<1>1. IF operations[n + 1].candidate = c.id /\ operations[n + 1].action.do \in Rev!Verdicts
      THEN now # {} /\ Rev!Max(now) = n + 1
      ELSE now = ReviewsOn(c, operations, n, Rev!Verdicts)
  BY LastReview
<1> HIDE DEF now
<1> QED BY <1>1 DEF StatusBy, now, Rev!Verdicts

\* What reviews leave of candidates: each shows its own part and its last
\* title and verdict.
Follows(e, c, operations, n) ==
  /\ IsCandidate(e) /\ \A f \in Rev!Kept : e[f] = c[f]
  /\ e.title = TitleBy(c, operations, n) /\ e.status = StatusBy(c, operations, n)
AreCandidates(candidates) == \A k \in DOMAIN candidates : IsCandidate(candidates[k])
AreReviews(operations) ==
  /\ Len(operations) \in Nat /\ DOMAIN operations = 1 .. Len(operations)
  /\ \A n \in 1 .. Len(operations) : IsAction(operations[n].action)
ReviewsOf(candidates, operations, after) ==
  after = [n \in 0 .. Len(operations) |->
             IF n = 0 THEN candidates ELSE Rev!Review(operations[n], after[n - 1])]

LEMMA ReviewFollows ==
  ASSUME NEW c, NEW operations, AreReviews(operations), NEW n \in Nat, n + 1 \in 1 .. Len(operations),
         NEW now, Follows(now, c, operations, n)
  PROVE  Follows(IF now.id = operations[n + 1].candidate THEN Rev!Reviewed(now, operations[n + 1].action) ELSE now,
                 c, operations, n + 1)
<1> DEFINE op == operations[n + 1]
           e == Rev!Reviewed(now, op.action)
<1>1. now.id = c.id
  BY DEF Follows, Rev!Kept
<1>2. IsAction(op.action)
  BY DEF AreReviews
<1>3. IsCandidate(now)
  BY DEF Follows
<1>4. IsCandidate(e) /\ ReviewGives(e, now, op.action)
  BY <1>2, <1>3, ReviewedIs
<1>5. TitleBy(c, operations, n + 1) =
        IF op.candidate = c.id /\ op.action.do = "edit" THEN op.action.title ELSE TitleBy(c, operations, n)
  BY TitleBySteps
<1>6. StatusBy(c, operations, n + 1) =
        IF op.candidate = c.id /\ op.action.do = "confirm" THEN "confirmed"
        ELSE IF op.candidate = c.id /\ op.action.do = "reject" THEN "rejected" ELSE StatusBy(c, operations, n)
  BY StatusBySteps
<1> HIDE DEF op, e
<1>7. CASE now.id = op.candidate
  <2>1. Follows(e, c, operations, n + 1)
    BY <1>1, <1>4, <1>5, <1>6, <1>7 DEF Follows, ReviewGives
  <2> QED BY <1>7, <2>1 DEF op, e
<1>8. CASE now.id # op.candidate
  <2>1. Follows(now, c, operations, n + 1)
    BY <1>1, <1>5, <1>6, <1>8 DEF Follows
  <2> QED BY <1>8, <2>1 DEF op, e
<1> QED BY <1>7, <1>8

\* There is such a sequence of candidates for every number of the reviews.
LEMMA ReviewsExist ==
  ASSUME NEW candidates, AreCandidates(candidates), candidates = [k \in DOMAIN candidates |-> candidates[k]],
         NEW operations, AreReviews(operations)
  PROVE  \E after : ReviewsOf(candidates, operations, after)
<1> DEFINE N == Len(operations)
           D == DOMAIN candidates
           X == {candidates[k][f] : k \in D, f \in CandidateFields}
                  \cup {operations[n].action.title : n \in 1 .. N}
                  \cup {operations[n].action.parent : n \in 1 .. N}
                  \cup {operations[n].action.level : n \in 1 .. N} \cup {"confirmed", "rejected"}
           W == {c \in [CandidateFields -> X] : IsCandidate(c)}
           V == [D -> W]
           step == [x \in (1 .. N) \X V |-> Rev!Review(operations[x[1]], x[2])]
<1>1. candidates \in V
  <2>1. ASSUME NEW k \in D PROVE candidates[k] \in W
    <3>1. IsCandidate(candidates[k])
      BY DEF AreCandidates
    <3>2. candidates[k] = [f \in CandidateFields |-> candidates[k][f]]
      BY <3>1 DEF IsCandidate
    <3>3. \A f \in CandidateFields : candidates[k][f] \in X
      OBVIOUS
    <3> HIDE DEF X
    <3> QED BY <3>1, <3>2, <3>3
  <2> HIDE DEF W
  <2> QED BY <2>1
<1>2. ASSUME NEW n \in 1 .. N, NEW c \in W PROVE Rev!Reviewed(c, operations[n].action) \in W
  <2> DEFINE a == operations[n].action
             e == Rev!Reviewed(c, a)
  <2>1. IsAction(a)
    BY DEF AreReviews
  <2>2. IsCandidate(e) /\ ReviewGives(e, c, a)
    BY <2>1, ReviewedIs
  <2>3. a.title \in X /\ a.parent \in X /\ a.level \in X /\ "confirmed" \in X /\ "rejected" \in X
    OBVIOUS
  <2> HIDE DEF X, a, e
  <2>4. \A f \in CandidateFields : e[f] \in X
    BY <2>2, <2>3 DEF ReviewGives
  <2>5. e = [f \in CandidateFields |-> e[f]]
    BY <2>2 DEF IsCandidate
  <2>6. e \in W
    BY <2>2, <2>4, <2>5
  <2> QED BY <2>6 DEF e, a
<1>3. ASSUME NEW n \in 1 .. N, NEW v \in V PROVE Rev!Review(operations[n], v) \in V
  <2> HIDE DEF W
  <2>1. \A k \in D : v[k] \in W /\ Rev!Reviewed(v[k], operations[n].action) \in W
    BY <1>2
  <2>2. DOMAIN v = D
    OBVIOUS
  <2> QED BY <2>1, <2>2 DEF Rev!Review
<1>4. step \in [(1 .. N) \X V -> V]
  <2> HIDE DEF V
  <2> QED BY <1>3
<1> HIDE DEF step, V
<1>5. PICK f \in [0 .. N -> V] : f[0] = candidates /\ \A n \in 1 .. N : f[n] = step[<<n, f[n - 1]>>]
  <2>1. Iterable(N, V, candidates, step)
    BY <1>1, <1>4 DEF Iterable, AreReviews
  <2> QED BY <2>1, Iteration DEF Iterates
<1>6. ASSUME NEW n \in 0 .. N PROVE f[n] = IF n = 0 THEN candidates ELSE Rev!Review(operations[n], f[n - 1])
  <2>1. CASE n = 0
    BY <1>5, <2>1
  <2>2. CASE n # 0
    <3>1. n \in 1 .. N /\ n - 1 \in 0 .. N
      BY <2>2 DEF AreReviews
    <3>2. <<n, f[n - 1]>> \in (1 .. N) \X V
      BY <1>5, <3>1
    <3>3. step[<<n, f[n - 1]>>] = Rev!Review(operations[n], f[n - 1])
      BY <3>2 DEF step
    <3> QED BY <1>5, <2>2, <3>1, <3>3
  <2> QED BY <2>1, <2>2
<1>7. f = [n \in 0 .. N |-> IF n = 0 THEN candidates ELSE Rev!Review(operations[n], f[n - 1])]
  BY <1>5, <1>6
<1> QED BY <1>7 DEF ReviewsOf

LEMMA AfterReviewsIs ==
  ASSUME NEW candidates, AreCandidates(candidates), candidates = [k \in DOMAIN candidates |-> candidates[k]],
         NEW operations, AreReviews(operations)
  PROVE  LET after == Rev!AfterReviews(candidates, operations)
         IN  /\ after = [k \in DOMAIN candidates |-> after[k]]
             /\ \A k \in DOMAIN candidates : /\ IsCandidate(after[k])
                                             /\ Rev!Shows(after[k], candidates[k], operations)
<1> DEFINE N == Len(operations)
           D == DOMAIN candidates
           after == CHOOSE f : ReviewsOf(candidates, operations, f)
<1>1. Rev!AfterReviews(candidates, operations) = after[N]
  BY Zenon DEF Rev!AfterReviews, ReviewsOf
<1>2. ReviewsOf(candidates, operations, after)
  BY ReviewsExist
<1> HIDE DEF after
<1>3. \A n \in 0 .. N : after[n] = IF n = 0 THEN candidates ELSE Rev!Review(operations[n], after[n - 1])
  BY <1>2 DEF ReviewsOf
<1>4. N \in Nat /\ DOMAIN operations = 1 .. N
  BY DEF AreReviews
<1> DEFINE Done(n) == /\ after[n] = [k \in D |-> after[n][k]]
                      /\ \A k \in D : Follows(after[n][k], candidates[k], operations, n)
           T == {n \in Nat : n <= N => Done(n)}
<1>5. 0 \in T
  <2>1. after[0] = candidates
    BY <1>3, <1>4
  <2>2. \A c : TitleBy(c, operations, 0) = c.title /\ StatusBy(c, operations, 0) = c.status
    BY DEF TitleBy, StatusBy, ReviewsOn
  <2> QED BY <2>1, <2>2 DEF Follows, AreCandidates
<1>6. ASSUME NEW n \in T PROVE n + 1 \in T
  <2> SUFFICES ASSUME n + 1 <= N PROVE Done(n + 1)
    OBVIOUS
  <2>1. Done(n) /\ n \in Nat /\ n + 1 \in 1 .. N /\ n + 1 \in 0 .. N /\ (n + 1) - 1 = n /\ n + 1 # 0
    BY <1>4
  <2> DEFINE now == after[n]
             op == operations[n + 1]
  <2>2. after[n + 1] = Rev!Review(op, now)
    BY <1>3, <2>1
  <2>3. DOMAIN now = D
    BY <2>1
  <2>4. after[n + 1] = [k \in D |-> IF now[k].id = op.candidate THEN Rev!Reviewed(now[k], op.action) ELSE now[k]]
    BY <2>2, <2>3 DEF Rev!Review
  <2>5. ASSUME NEW k \in D PROVE Follows(after[n + 1][k], candidates[k], operations, n + 1)
    <3>1. Follows(now[k], candidates[k], operations, n)
      BY <2>1
    <3>2. after[n + 1][k] = IF now[k].id = op.candidate THEN Rev!Reviewed(now[k], op.action) ELSE now[k]
      BY <2>4
    <3> HIDE DEF now
    <3> QED BY <2>1, <3>1, <3>2, ReviewFollows
  <2>6. after[n + 1] = [k \in D |-> after[n + 1][k]]
    <3> HIDE DEF now, op
    <3> QED BY <2>4
  <2> QED BY <2>5, <2>6
<1>7. T = Nat
  <2> HIDE DEF T
  <2>1. T \in SUBSET Nat
    BY DEF T
  <2> QED BY <1>5, <1>6, <2>1, Induction
<1>8. Done(N)
  <2>1. N \in T
    BY <1>4, <1>7
  <2> HIDE DEF Done, N
  <2> QED BY <1>4, <2>1
<1>9. ASSUME NEW e, NEW c, Follows(e, c, operations, N) PROVE Rev!Shows(e, c, operations)
  <2>1. \A kinds : ReviewsOn(c, operations, N, kinds) = Rev!OperationsOn(c, operations, kinds)
    BY <1>4 DEF ReviewsOn, Rev!OperationsOn
  <2>2. Rev!TitleAfter(c, operations) = TitleBy(c, operations, N)
    BY <2>1 DEF Rev!TitleAfter, TitleBy
  <2>3. Rev!StatusAfter(c, operations) = StatusBy(c, operations, N)
    BY <2>1 DEF Rev!StatusAfter, StatusBy
  <2> QED BY <1>9, <2>2, <2>3 DEF Follows, Rev!Shows
<1> QED BY <1>1, <1>8, <1>9 DEF Follows

\* One sequence has the elements of another in an order of its own.
Rearranges(v, candidates, at) ==
  LET n == Len(candidates)
  IN  /\ at \in [1 .. n -> 1 .. n] /\ Len(v) = n /\ v = [i \in 1 .. n |-> candidates[at[i]]]
      /\ \A k \in 1 .. n : \E i \in 1 .. n : at[i] = k
      /\ \A i, j \in 1 .. n : at[i] = at[j] => i = j
IsList(candidates) ==
  /\ Len(candidates) \in Nat
  /\ candidates = [k \in 1 .. Len(candidates) |-> candidates[k]]
  /\ AreCandidates(candidates)

\* A function from 1 .. n is a sequence of n elements.
LEMMA LengthIs == ASSUME NEW n \in Nat, NEW v, v = [i \in 1 .. n |-> v[i]] PROVE Len(v) = n
<1>1. v \in Seq({v[i] : i \in 1 .. n})
  OBVIOUS
<1> QED BY <1>1

\* The sort of candidates.
LEMMA SortIs ==
  ASSUME NEW candidates, IsList(candidates)
  PROVE  LET v == Rev!Sorted(candidates)
         IN  /\ \E at : Rearranges(v, candidates, at)
             /\ \A i, j \in 1 .. Len(candidates) : i < j => ~Rev!Precedes(v[j], v[i])
<1> DEFINE n == Len(candidates)
           D == 1 .. n
           order == Rev!Order(candidates)
           v == Rev!Sorted(candidates)
           at == [i \in D |-> PositionAt(D, order, i)]
<1>1. n \in Nat /\ DOMAIN candidates = D
  BY DEF IsList
<1>2. IsFiniteSet(D) /\ Cardinality(D) = n
  <2> HIDE DEF n
  <2> QED BY <1>1, FS_Interval, 1 \in Int, n \in Int
<1>3. IsOrder(order, D) /\ \A j, k \in D : <<j, k>> \in order => ~Rev!Precedes(candidates[k], candidates[j])
  <2> HIDE DEF D
  <2>1. D \subseteq Int
    BY DEF D
  <2>2. DOMAIN candidates \subseteq Int /\ \A k \in DOMAIN candidates : IsCandidate(candidates[k])
    BY <1>1, <2>1 DEF IsList, AreCandidates
  <2>3. /\ IsOrder(order, DOMAIN candidates)
        /\ \A j, k \in DOMAIN candidates : <<j, k>> \in order => ~Rev!Precedes(candidates[k], candidates[j])
    BY <2>2, OrderIsAnOrder
  <2> QED BY <1>1, <2>3
<1> HIDE DEF order
<1>4. /\ \A i \in D : PositionAt(D, order, i) \in D
      /\ \A k \in D : \E i \in D : PositionAt(D, order, i) = k
      /\ \A i, j \in D : i < j => <<PositionAt(D, order, i), PositionAt(D, order, j)>> \in order
      /\ \A i, j \in D : PositionAt(D, order, i) = PositionAt(D, order, j) => i = j
  <2> HIDE DEF D
  <2> DEFINE E == 1 .. Cardinality(D)
             place(i) == PositionAt(D, order, i)
  <2>1. D = E
    BY <1>2 DEF D
  <2>2. /\ \A i \in E : place(i) \in D
        /\ \A k \in D : \E i \in E : place(i) = k
        /\ \A i, j \in E : i < j => <<place(i), place(j)>> \in order
        /\ \A i, j \in E : place(i) = place(j) => i = j
    BY <1>2, <1>3, PositionsAre
  <2> HIDE DEF E, place
  <2>3. /\ \A i \in D : place(i) \in D
        /\ \A k \in D : \E i \in D : place(i) = k
        /\ \A i, j \in D : i < j => <<place(i), place(j)>> \in order
        /\ \A i, j \in D : place(i) = place(j) => i = j
    BY <2>1, <2>2
  <2> QED BY <2>3 DEF place
<1>5. v = [i \in 1 .. Cardinality(D) |-> candidates[PositionAt(D, order, i)]]
  <2>1. v = Rev!Arranged(candidates, D, order)
    BY <1>1 DEF Rev!Sorted, order
  <2> HIDE DEF v, D
  <2> QED BY <2>1, ArrangedIs
<1>6. v = [i \in D |-> candidates[at[i]]]
  <2> HIDE DEF v
  <2> QED BY <1>2, <1>5
<1>7. at \in [D -> D] /\ \A i \in D : at[i] = PositionAt(D, order, i)
  BY <1>4
<1> HIDE DEF v, at
<1>8. Len(v) = n
  <2>1. v = [i \in 1 .. n |-> v[i]]
    BY <1>6
  <2> HIDE DEF n
  <2> QED BY <1>1, <2>1, LengthIs
<1>9. Rearranges(v, candidates, at)
  BY <1>4, <1>6, <1>7, <1>8 DEF Rearranges
<1>10. ASSUME NEW i \in D, NEW j \in D, i < j PROVE ~Rev!Precedes(v[j], v[i])
  <2>1. v[i] = candidates[at[i]] /\ v[j] = candidates[at[j]] /\ at[i] \in D /\ at[j] \in D
    BY <1>6, <1>7
  <2>2. <<at[i], at[j]>> \in order
    BY <1>4, <1>7, <1>10
  <2> HIDE DEF D
  <2> QED BY <1>3, <2>1, <2>2
<1> QED BY <1>9, <1>10 DEF v

\* The effective view: the reviewed candidates, sorted.
IsLog(r) == AreReviews(r.operations)
LEMMA EffectiveIs ==
  ASSUME NEW s, IsList(s.candidates), NEW r, IsLog(r), Rev!Effective(s, r) # <<>>
  PROVE  LET after == Rev!AfterReviews(s.candidates, r.operations)
         IN  /\ Rev!ValidSnapshot(s) /\ r.base = s
             /\ \A n \in DOMAIN r.operations : Rev!Allowed(r.operations[n], s.candidates)
             /\ \A k \in DOMAIN after : Rev!IsChild(after[k], after)
             /\ Rev!Effective(s, r) = <<Rev!Sorted(after)>>
<1> DEFINE after == Rev!AfterReviews(s.candidates, r.operations)
<1>1. /\ Rev!ValidSnapshot(s) /\ r.base = s /\ Rev!Effective(s, r) = Rev!View(after)
      /\ \A n \in DOMAIN r.operations : Rev!Allowed(r.operations[n], s.candidates)
  BY Zenon DEF Rev!Effective, Rev!Every
<1> HIDE DEF after
<1>2. Rev!View(after) # <<>>
  BY <1>1
<1>3. Rev!View(after) = <<Rev!Sorted(after)>> /\ \A k \in DOMAIN after : Rev!IsChild(after[k], after)
  BY <1>2, Zenon DEF Rev!View, Rev!Every
<1> QED BY <1>1, <1>3 DEF after

\* Numbers of finitely many are bounded.
LEMMA BoundOf ==
  ASSUME NEW n \in Nat, NEW f, \A k \in 1 .. n : f[k] \in Nat
  PROVE  \E m \in Nat : \A k \in 1 .. n : f[k] <= m
<1> DEFINE Q(k) == \E m \in Nat : \A j \in 1 .. k : f[j] <= m
           T == {k \in Nat : k <= n => Q(k)}
<1>1. 0 \in T
  OBVIOUS
<1>2. ASSUME NEW k \in T PROVE k + 1 \in T
  <2> SUFFICES ASSUME k + 1 <= n PROVE Q(k + 1)
    OBVIOUS
  <2>1. PICK m \in Nat : \A j \in 1 .. k : f[j] <= m
    BY <1>2
  <2>2. f[k + 1] \in Nat
    BY <1>2
  <2> DEFINE l == IF f[k + 1] <= m THEN m ELSE f[k + 1]
  <2>3. l \in Nat /\ m <= l /\ f[k + 1] <= l
    BY <2>2
  <2> HIDE DEF l
  <2>4. ASSUME NEW j \in 1 .. k + 1 PROVE f[j] <= l
    <3>1. CASE j = k + 1
      BY <2>3, <3>1
    <3>2. CASE j # k + 1
      <4>1. j \in 1 .. k /\ f[j] \in Nat
        BY <1>2, <3>2
      <4>2. f[j] <= m
        BY <2>1, <4>1
      <4> QED BY <2>1, <2>3, <4>1, <4>2
    <3> QED BY <3>1, <3>2
  <2> QED BY <2>3, <2>4
<1>3. T = Nat
  <2> HIDE DEF T
  <2>1. T \in SUBSET Nat
    BY DEF T
  <2> QED BY <1>1, <1>2, <2>1, Induction
<1>4. n \in T
  BY <1>3
<1> HIDE DEF Q
<1>5. Q(n)
  BY <1>4
<1> QED BY <1>5 DEF Q

\* In a list whose ids are distinct and where each is deeper than its parent,
\* some of any candidates is above none of them.
IsHierarchy(v) ==
  /\ \A j, k \in DOMAIN v : v[j].id = v[k].id => j = k
  /\ \A k \in DOMAIN v : v[k].level \in Nat /\ IsOptional(v[k].parent)
  /\ \A j, k \in DOMAIN v : v[k].parent = <<v[j].id>> => v[j].level < v[k].level
AreOf(T, v) == T # {} /\ \A c \in T : \E k \in DOMAIN v : c = v[k]
IsAboveNone(c, T) == \A e \in T : ~(e.parent = <<c.id>>)
LEMMA NoCircle ==
  ASSUME NEW n \in Nat, NEW v, DOMAIN v = 1 .. n, IsHierarchy(v), NEW T, AreOf(T, v)
  PROVE  \E c \in T : IsAboveNone(c, T)
<1> USE DEF AreOf
<1> DEFINE f == [k \in 1 .. n |-> v[k].level]
           L == {f[k] : k \in {j \in 1 .. n : v[j] \in T}}
<1>1. \A k \in 1 .. n : f[k] \in Nat
  BY DEF IsHierarchy
<1>2. PICK m \in Nat : \A k \in 1 .. n : f[k] <= m
  <2> HIDE DEF f
  <2> QED BY <1>1, BoundOf
<1>3. L # {} /\ \A u \in L : u \in Int /\ u <= m
  <2>1. PICK k \in 1 .. n : v[k] \in T
    OBVIOUS
  <2>2. f[k] \in L
    BY <2>1
  <2>3. ASSUME NEW u \in L PROVE u \in Int /\ u <= m
    <3>1. PICK j \in 1 .. n : u = f[j]
      OBVIOUS
    <3> HIDE DEF f
    <3> QED BY <1>1, <1>2, <3>1
  <2> HIDE DEF L
  <2> QED BY <2>2, <2>3
<1>4. PICK u \in L : \A w \in L : w <= u
  <2> HIDE DEF L
  <2> QED BY <1>2, <1>3, GreatestIs, m \in Int
<1>5. PICK k \in 1 .. n : v[k] \in T /\ v[k].level = u
  BY <1>4
<1>6. ASSUME NEW j \in 1 .. n, v[j] \in T PROVE ~(v[j].parent = <<v[k].id>>)
  <2>1. f[j] \in L /\ f[j] = v[j].level
    BY <1>6
  <2>2. v[j].level <= u
    <3> HIDE DEF L, f
    <3> QED BY <1>4, <2>1
  <2>3. v[j].parent = <<v[k].id>> => v[k].level < v[j].level
    BY DEF IsHierarchy
  <2>4. v[j].level \in Nat /\ u \in Nat
    BY <1>5 DEF IsHierarchy
  <2> QED BY <1>5, <2>2, <2>3, <2>4
<1>7. ASSUME NEW e \in T PROVE ~(e.parent = <<v[k].id>>)
  <2>1. PICK j \in 1 .. n : e = v[j]
    OBVIOUS
  <2> QED BY <1>6, <2>1
<1> HIDE DEF L, f
<1> QED BY <1>5, <1>7 DEF IsAboveNone

\* The reviewed candidates are a hierarchy.
LEMMA ChildrenAreDeeper ==
  ASSUME NEW v, AreCandidates(v), \A j, k \in DOMAIN v : v[j].id = v[k].id => j = k,
         \A k \in DOMAIN v : Rev!IsChild(v[k], v)
  PROVE  IsHierarchy(v)
<1>1. ASSUME NEW j \in DOMAIN v, NEW k \in DOMAIN v, v[k].parent = <<v[j].id>>
      PROVE  v[j].level < v[k].level
  <2>1. v[k].parent # <<>> /\ v[k].parent[1] = v[j].id
    BY <1>1
  <2>2. PICK i \in DOMAIN v : v[i].id = v[k].parent[1] /\ v[i].level < v[k].level
    BY <2>1 DEF Rev!IsChild
  <2> QED BY <2>1, <2>2
<1>2. \A k \in DOMAIN v : v[k].level \in Nat /\ IsOptional(v[k].parent)
  BY DEF AreCandidates, IsCandidate
<1> QED BY <1>1, <1>2 DEF IsHierarchy

\* and stay one in another order.
LEMMA RearrangedHierarchy ==
  ASSUME NEW candidates, DOMAIN candidates = 1 .. Len(candidates), Len(candidates) \in Nat, IsHierarchy(candidates),
         NEW v, NEW at, Rearranges(v, candidates, at)
  PROVE  IsHierarchy(v)
<1> DEFINE D == 1 .. Len(candidates)
<1>1. /\ DOMAIN v = D
      /\ \A i \in D : v[i] = candidates[at[i]] /\ at[i] \in D
      /\ \A i, j \in D : at[i] = at[j] => i = j
  BY DEF Rearranges
<1>2. /\ \A j, k \in D : candidates[j].id = candidates[k].id => j = k
      /\ \A k \in D : candidates[k].level \in Nat /\ IsOptional(candidates[k].parent)
      /\ \A j, k \in D : candidates[k].parent = <<candidates[j].id>> => candidates[j].level < candidates[k].level
  BY DEF IsHierarchy
<1> HIDE DEF D
<1>3. \A j, k \in D : v[j].id = v[k].id => j = k
  BY <1>1, <1>2
<1>4. \A k \in D : v[k].level \in Nat /\ IsOptional(v[k].parent)
  BY <1>1, <1>2
<1>5. \A j, k \in D : v[k].parent = <<v[j].id>> => v[j].level < v[k].level
  BY <1>1, <1>2
<1> QED BY <1>1, <1>3, <1>4, <1>5 DEF IsHierarchy

\* What the reviewed candidates are.
LEMMA AfterIs ==
  ASSUME NEW s, IsList(s.candidates), NEW r, IsLog(r), Rev!Effective(s, r) # <<>>
  PROVE  LET after == Rev!AfterReviews(s.candidates, r.operations)
         IN  /\ Len(after) = Len(s.candidates) /\ IsList(after) /\ IsHierarchy(after)
             /\ \A k \in 1 .. Len(s.candidates) : Rev!Shows(after[k], s.candidates[k], r.operations)
<1> DEFINE candidates == s.candidates
           n == Len(candidates)
           after == Rev!AfterReviews(candidates, r.operations)
<1>1. n \in Nat /\ DOMAIN candidates = 1 .. n /\ AreCandidates(candidates)
      /\ candidates = [k \in DOMAIN candidates |-> candidates[k]]
  BY DEF IsList
<1>2. AreReviews(r.operations)
  BY DEF IsLog
<1> HIDE DEF after, candidates, n
<1>3. /\ after = [k \in DOMAIN candidates |-> after[k]]
      /\ \A k \in DOMAIN candidates : IsCandidate(after[k]) /\ Rev!Shows(after[k], candidates[k], r.operations)
  BY <1>1, <1>2, AfterReviewsIs DEF after
<1>4. after = [k \in 1 .. n |-> after[k]] /\ DOMAIN after = 1 .. n
  BY <1>1, <1>3
<1>5. Len(after) = n
  BY <1>1, <1>4, LengthIs
<1>6. AreCandidates(after)
  BY <1>1, <1>3, <1>4 DEF AreCandidates
<1>7. Rev!ValidSnapshot(s) /\ \A k \in DOMAIN after : Rev!IsChild(after[k], after)
  BY EffectiveIs DEF after, candidates
<1>8. ASSUME NEW j \in 1 .. n, NEW k \in 1 .. n, after[j].id = after[k].id PROVE j = k
  <2> DEFINE ids == [i \in DOMAIN candidates |-> candidates[i].id]
  <2>1. \A h, i \in DOMAIN ids : ids[h] = ids[i] => h = i
    BY <1>7 DEF Rev!ValidSnapshot, Rev!Distinct, candidates
  <2>2. after[j].id = candidates[j].id /\ after[k].id = candidates[k].id
    BY <1>1, <1>3 DEF Rev!Shows, Rev!Kept
  <2>3. ids[j] = candidates[j].id /\ ids[k] = candidates[k].id /\ DOMAIN ids = 1 .. n
    BY <1>1
  <2> HIDE DEF ids
  <2> QED BY <1>8, <2>1, <2>2, <2>3
<1>9. IsHierarchy(after)
  BY <1>4, <1>6, <1>7, <1>8, ChildrenAreDeeper
<1>10. IsList(after)
  BY <1>1, <1>4, <1>5, <1>6 DEF IsList
<1> QED BY <1>1, <1>3, <1>5, <1>9, <1>10 DEF after, candidates, n

\* What a view is.
LEMMA ViewIs ==
  ASSUME NEW s, IsList(s.candidates), NEW r, IsLog(r), Rev!Effective(s, r) # <<>>
  PROVE  LET view == Rev!Effective(s, r)[1]
         IN  /\ Rev!Effective(s, r) = <<view>>
             /\ Rev!ViewFollows(s, r.operations, view)
             /\ IsHierarchy(view) /\ Len(view) \in Nat /\ view = [k \in 1 .. Len(view) |-> view[k]]
<1> DEFINE candidates == s.candidates
           n == Len(candidates)
           after == Rev!AfterReviews(candidates, r.operations)
           view == Rev!Sorted(after)
<1>1. n \in Nat /\ DOMAIN candidates = 1 .. n
  BY DEF IsList
<1>2. Rev!Effective(s, r) = <<view>>
  BY EffectiveIs
<1>3. /\ Len(after) = n /\ IsList(after) /\ IsHierarchy(after)
      /\ \A k \in 1 .. n : Rev!Shows(after[k], candidates[k], r.operations)
  BY AfterIs
<1> HIDE DEF after, candidates, n
<1>4. DOMAIN after = 1 .. n
  BY <1>3 DEF IsList
<1>5. /\ \E at : Rearranges(view, after, at)
      /\ \A i, j \in 1 .. n : i < j => ~Rev!Precedes(view[j], view[i])
  BY <1>3, SortIs
<1>6. PICK at : Rearranges(view, after, at)
  BY <1>5
<1> HIDE DEF view
<1>7. /\ Len(view) = n /\ DOMAIN view = 1 .. n /\ view = [i \in 1 .. n |-> view[i]]
      /\ \A i \in 1 .. n : view[i] = after[at[i]] /\ at[i] \in 1 .. n
      /\ \A k \in 1 .. n : \E i \in 1 .. n : at[i] = k
  BY <1>3, <1>6 DEF Rearranges
<1>8. IsHierarchy(view)
  BY <1>1, <1>3, <1>4, <1>6, RearrangedHierarchy
<1>9. ASSUME NEW c \in Rev!ToSet(candidates) PROVE \E e \in Rev!ToSet(view) : Rev!Shows(e, c, r.operations)
  <2>1. PICK k \in 1 .. n : c = candidates[k]
    BY <1>1 DEF Rev!ToSet
  <2>2. PICK i \in 1 .. n : at[i] = k
    BY <1>7
  <2>3. view[i] = after[k] /\ view[i] \in Rev!ToSet(view)
    BY <1>7, <2>2 DEF Rev!ToSet
  <2> QED BY <1>3, <2>1, <2>3
<1>10. \A j, k \in DOMAIN view : /\ view[j].id = view[k].id => j = k
                                 /\ j < k => ~Rev!Precedes(view[k], view[j])
  BY <1>5, <1>7, <1>8 DEF IsHierarchy
<1>11. Rev!ToSet(view) = {view[k] : k \in 1 .. n}
  BY <1>7 DEF Rev!ToSet
<1>12. \A T \in SUBSET Rev!ToSet(view) :
         T # {} => ~(T \subseteq {c \in Rev!ToSet(view) : \E e \in T : e.parent = <<c.id>>})
  <2> SUFFICES ASSUME NEW T \in SUBSET Rev!ToSet(view), T # {}
               PROVE  ~(T \subseteq {c \in Rev!ToSet(view) : \E e \in T : e.parent = <<c.id>>})
    OBVIOUS
  <2>1. AreOf(T, view)
    BY <1>7, <1>11 DEF AreOf
  <2>2. n \in Nat /\ DOMAIN view = 1 .. n /\ IsHierarchy(view)
    BY <1>1, <1>7, <1>8
  <2>3. \E c \in T : IsAboveNone(c, T)
    BY <2>1, <2>2, NoCircle
  <2> QED BY <2>3 DEF IsAboveNone
<1>13. \A c, e \in Rev!ToSet(view) : c.parent = <<e.id>> => e.level < c.level
  <2> SUFFICES ASSUME NEW c \in Rev!ToSet(view), NEW e \in Rev!ToSet(view), c.parent = <<e.id>>
               PROVE  e.level < c.level
    OBVIOUS
  <2>1. PICK j \in DOMAIN view : e = view[j]
    BY <1>7, <1>11
  <2>2. PICK k \in DOMAIN view : c = view[k]
    BY <1>7, <1>11
  <2> QED BY <1>8, <2>1, <2>2 DEF IsHierarchy
<1>14. Rev!ViewFollows(s, r.operations, view)
  <2>1. Len(view) = Len(s.candidates) /\ \A c \in Rev!ToSet(s.candidates) : \E e \in Rev!ToSet(view) : Rev!Shows(e, c, r.operations)
    BY <1>7, <1>9 DEF candidates, n
  <2> QED BY <1>10, <1>12, <1>13, <2>1, Zenon DEF Rev!ViewFollows
<1>15. Rev!Effective(s, r)[1] = view
  BY <1>2
<1> QED BY <1>1, <1>2, <1>7, <1>8, <1>14, <1>15

\* Those confirmed among the candidates of a view are a forest.
LEMMA ConfirmedIsForest ==
  ASSUME NEW view, IsHierarchy(view), Len(view) \in Nat, view = [k \in 1 .. Len(view) |-> view[k]]
  PROVE  LET confirmed == Rev!Confirmed(view)
         IN  confirmed \in Seq({view[k] : k \in 1 .. Len(view)}) /\ Outline!IsForest(confirmed)
<1> DEFINE n == Len(view)
           X == {view[k] : k \in 1 .. n}
           S == {k \in DOMAIN view : view[k].status = "confirmed"}
           order == {p \in S \X S : p[1] < p[2]}
           confirmed == Rev!Confirmed(view)
           m == Cardinality(S)
           at(i) == PositionAt(S, order, i)
<1>1. DOMAIN view = 1 .. n /\ S \subseteq 1 .. n /\ n \in Nat
  OBVIOUS
<1>2. IsFiniteSet(S)
  <2> HIDE DEF n, S
  <2>1. IsFiniteSet(1 .. n)
    BY <1>1, FS_Interval, 1 \in Int, n \in Int
  <2> QED BY <1>1, <2>1, FS_Subset
<1>3. IsOrder(order, S)
  <2>1. \A k \in S : k \in Int
    BY <1>1
  <2> HIDE DEF S
  <2>2. \A j, k \in S : <<j, k>> \in order <=> j < k
    OBVIOUS
  <2> HIDE DEF order
  <2> QED BY <2>1, <2>2 DEF IsOrder
<1>4. confirmed = [i \in 1 .. m |-> view[at(i)]]
  <2>1. confirmed = Rev!Arranged(view, S, order)
    BY DEF Rev!Confirmed
  <2> HIDE DEF confirmed, S, order
  <2> QED BY <2>1, ArrangedIs
<1>5. /\ m \in Nat
      /\ \A i \in 1 .. m : at(i) \in S
      /\ \A i, j \in 1 .. m : at(i) = at(j) => i = j
  <2> HIDE DEF S, order
  <2> QED BY <1>2, <1>3, PositionsAre
<1> HIDE DEF at, m, confirmed
<1>6. \A i \in 1 .. m : at(i) \in 1 .. n /\ confirmed[i] = view[at(i)]
  BY <1>1, <1>4, <1>5
<1>7. DOMAIN confirmed = 1 .. m
  BY <1>4
<1> HIDE DEF S, order, n
<1>8. confirmed \in Seq(X)
  <2>1. \A i \in 1 .. m : view[at(i)] \in X
    BY <1>6
  <2> HIDE DEF X
  <2> QED BY <1>4, <1>5, <2>1
<1>9. /\ \A j, k \in 1 .. n : view[j].id = view[k].id => j = k
      /\ \A k \in 1 .. n : view[k].level \in Nat /\ IsOptional(view[k].parent)
      /\ \A j, k \in 1 .. n : view[k].parent = <<view[j].id>> => view[j].level < view[k].level
  BY <1>1 DEF IsHierarchy
<1>10. \A j, k \in 1 .. m : confirmed[j].id = confirmed[k].id => j = k
  BY <1>5, <1>6, <1>9
<1>11. \A k \in 1 .. m : confirmed[k].level \in Nat /\ IsOptional(confirmed[k].parent)
  BY <1>6, <1>9
<1>12. \A j, k \in 1 .. m : confirmed[k].parent = <<confirmed[j].id>> => confirmed[j].level < confirmed[k].level
  BY <1>6, <1>9
<1>13. Outline!IsForest(confirmed)
  BY <1>7, <1>10, <1>11, <1>12 DEF Outline!IsForest, IsOptional
<1> QED BY <1>8, <1>13 DEF X, confirmed, n

\* Through every review, the bookmarks that are confirmed are put into the PDF as
\* the tree their parents give.
THEOREM ReviewedOutlineIsTree ==
  ASSUME NEW s, IsList(s.candidates), NEW r, IsLog(r), Rev!Effective(s, r) # <<>>
  PROVE  LET confirmed == Rev!Confirmed(Rev!Effective(s, r)[1])
         IN  /\ Outline!IsForest(confirmed)
             /\ Outline!OutlineIsTree(confirmed, Outline!AddOutline(confirmed))
<1> DEFINE view == Rev!Effective(s, r)[1]
           confirmed == Rev!Confirmed(view)
           X == {view[k] : k \in 1 .. Len(view)}
<1>1. IsHierarchy(view) /\ Len(view) \in Nat /\ view = [k \in 1 .. Len(view) |-> view[k]]
  BY ViewIs
<1> HIDE DEF view
<1>2. confirmed \in Seq(X) /\ Outline!IsForest(confirmed)
  BY <1>1, ConfirmedIsForest
<1> HIDE DEF confirmed, X
<1>3. Outline!OutlineIsTree(confirmed, Outline!AddOutline(confirmed))
  BY <1>2, OutlineOfForestIsTree
<1> QED BY <1>2, <1>3 DEF confirmed, view

\* A log of reviews, and what a wanted review makes of it.
ReviewOf(candidate, action, n) ==
  [id |-> Rev!OperationId(candidate, action, n), candidate |-> candidate, action |-> action]
Logs(s, O) == [base : {s}, operations : Seq(O)]
AfterWish(s, wish, log) ==
  LET next == Rev!AppendReview(s, log, wish[1], wish[2]) IN IF next = <<>> THEN log ELSE next[1]
LogsOf(s, wanted, log) ==
  log = [n \in 0 .. Len(wanted) |->
           IF n = 0 THEN Rev!NoReviews(s) ELSE AfterWish(s, wanted[n], log[n - 1])]
AreWishes(wanted) == Len(wanted) \in Nat /\ \A n \in 1 .. Len(wanted) : IsAction(wanted[n][2])
Wishes(wanted) == {ReviewOf(wanted[n][1], wanted[n][2], m) : n \in 1 .. Len(wanted), m \in Nat}

\* The log goes on with the review, if it then has a view, and stays otherwise.
LEMMA AfterWishIs ==
  ASSUME NEW s, NEW O, NEW log \in Logs(s, O), NEW wish, ReviewOf(wish[1], wish[2], Len(log.operations)) \in O
  PROVE  /\ AfterWish(s, wish, log) \in Logs(s, O)
         /\ Rev!Effective(s, log) # <<>> => Rev!Effective(s, AfterWish(s, wish, log)) # <<>>
<1> DEFINE op == ReviewOf(wish[1], wish[2], Len(log.operations))
           next == [log EXCEPT !.operations = Append(@, op)]
           asked == Rev!AppendReview(s, log, wish[1], wish[2])
<1>1. asked = IF Rev!Effective(s, next) # <<>> THEN <<next>> ELSE <<>>
  BY Zenon DEF Rev!AppendReview, ReviewOf
<1>2. next \in Logs(s, O)
  <2>1. log.operations \in Seq(O) /\ op \in O
    BY DEF Logs
  <2> HIDE DEF op
  <2> QED BY <2>1 DEF Logs
<1> HIDE DEF next
<1>3. AfterWish(s, wish, log) = IF asked = <<>> THEN log ELSE asked[1]
  BY Zenon DEF AfterWish
<1> HIDE DEF asked
<1>4. CASE Rev!Effective(s, next) # <<>>
  <2>1. AfterWish(s, wish, log) = next
    BY <1>1, <1>3, <1>4
  <2> QED BY <1>2, <1>4, <2>1
<1>5. CASE Rev!Effective(s, next) = <<>>
  <2>1. AfterWish(s, wish, log) = log
    BY <1>1, <1>3, <1>5
  <2> QED BY <2>1
<1> QED BY <1>4, <1>5

\* There is such a log for every number of the wanted reviews.
LEMMA LogsExist ==
  ASSUME NEW s, NEW wanted, AreWishes(wanted)
  PROVE  \E log : LogsOf(s, wanted, log)
<1> DEFINE N == Len(wanted)
           O == Wishes(wanted)
           V == Logs(s, O)
           first == Rev!NoReviews(s)
           step == [x \in (1 .. N) \X V |-> AfterWish(s, wanted[x[1]], x[2])]
<1>1. first \in V
  <2> HIDE DEF O
  <2> QED BY DEF Logs, Rev!NoReviews
<1>2. ASSUME NEW n \in 1 .. N, NEW v \in V PROVE AfterWish(s, wanted[n], v) \in V
  <2>1. Len(v.operations) \in Nat
    <3> HIDE DEF O
    <3>1. v.operations \in Seq(O)
      BY DEF Logs
    <3> QED BY <3>1
  <2>2. ReviewOf(wanted[n][1], wanted[n][2], Len(v.operations)) \in O
    BY <2>1 DEF Wishes
  <2> HIDE DEF O
  <2> QED BY <2>2, AfterWishIs
<1>3. step \in [(1 .. N) \X V -> V]
  <2> HIDE DEF V
  <2> QED BY <1>2
<1> HIDE DEF step, V, first
<1>4. PICK f \in [0 .. N -> V] : f[0] = first /\ \A n \in 1 .. N : f[n] = step[<<n, f[n - 1]>>]
  <2>1. Iterable(N, V, first, step)
    BY <1>1, <1>3 DEF Iterable, AreWishes
  <2> QED BY <2>1, Iteration DEF Iterates
<1>5. ASSUME NEW n \in 0 .. N PROVE f[n] = IF n = 0 THEN first ELSE AfterWish(s, wanted[n], f[n - 1])
  <2>1. CASE n = 0
    BY <1>4, <2>1
  <2>2. CASE n # 0
    <3>1. n \in 1 .. N /\ n - 1 \in 0 .. N
      BY <2>2 DEF AreWishes
    <3>2. <<n, f[n - 1]>> \in (1 .. N) \X V
      BY <1>4, <3>1
    <3>3. step[<<n, f[n - 1]>>] = AfterWish(s, wanted[n], f[n - 1])
      BY <3>2 DEF step
    <3> QED BY <1>4, <2>2, <3>1, <3>3
  <2> QED BY <2>1, <2>2
<1>6. f = [n \in 0 .. N |-> IF n = 0 THEN first ELSE AfterWish(s, wanted[n], f[n - 1])]
  BY <1>4, <1>5
<1> QED BY <1>6 DEF LogsOf, first

\* A log of wanted reviews has a view when the log without any has one.
LEMMA ReplayIs ==
  ASSUME NEW s, NEW wanted, AreWishes(wanted), Rev!Effective(s, Rev!NoReviews(s)) # <<>>
  PROVE  LET log == Rev!Replay(s, wanted)
         IN  log \in Logs(s, Wishes(wanted)) /\ Rev!Effective(s, log) # <<>>
<1> DEFINE N == Len(wanted)
           O == Wishes(wanted)
           log == CHOOSE f : LogsOf(s, wanted, f)
<1>1. Rev!Replay(s, wanted) = log[N]
  BY Zenon DEF Rev!Replay, LogsOf, AfterWish
<1>2. LogsOf(s, wanted, log)
  BY LogsExist
<1> HIDE DEF log
<1>3. \A n \in 0 .. N : log[n] = IF n = 0 THEN Rev!NoReviews(s) ELSE AfterWish(s, wanted[n], log[n - 1])
  BY <1>2 DEF LogsOf
<1>4. N \in Nat
  BY DEF AreWishes
<1> DEFINE Fine(l) == l \in Logs(s, O) /\ Rev!Effective(s, l) # <<>>
           T == {n \in Nat : n <= N => Fine(log[n])}
<1>5. 0 \in T
  <2>1. log[0] = Rev!NoReviews(s)
    BY <1>3, <1>4
  <2>2. Rev!NoReviews(s) \in Logs(s, O)
    <3> HIDE DEF O
    <3> QED BY DEF Logs, Rev!NoReviews
  <2> HIDE DEF O
  <2> QED BY <2>1, <2>2
<1>6. ASSUME NEW n \in T PROVE n + 1 \in T
  <2> SUFFICES ASSUME n + 1 <= N PROVE Fine(log[n + 1])
    OBVIOUS
  <2>1. Fine(log[n]) /\ n + 1 \in 1 .. N /\ n + 1 \in 0 .. N /\ (n + 1) - 1 = n /\ n + 1 # 0
    BY <1>4
  <2> DEFINE k == n + 1
             wish == wanted[k]
             l == log[n]
  <2>2. log[k] = AfterWish(s, wish, l)
    BY <1>3, <2>1
  <2>3. Len(l.operations) \in Nat
    <3> HIDE DEF O, l
    <3>1. l.operations \in Seq(O)
      BY <2>1 DEF Logs, l
    <3> QED BY <3>1
  <2>4. ReviewOf(wish[1], wish[2], Len(l.operations)) \in O
    BY <2>1, <2>3 DEF Wishes
  <2>5. l \in Logs(s, O) /\ Rev!Effective(s, l) # <<>>
    BY <2>1
  <2> HIDE DEF O, k, wish, l, T
  <2>6. Fine(AfterWish(s, wish, l))
    BY <2>4, <2>5, AfterWishIs
  <2> QED BY <2>2, <2>6 DEF k
<1>7. T = Nat
  <2> HIDE DEF T
  <2>1. T \in SUBSET Nat
    BY DEF T
  <2> QED BY <1>5, <1>6, <2>1, Induction
<1>8. Fine(log[N])
  <2>1. N \in T
    BY <1>4, <1>7
  <2> HIDE DEF Fine, N
  <2> QED BY <1>4, <2>1
<1> QED BY <1>1, <1>8

\* ReviewsReplay, for any reviews of a snapshot that has a view: their log
\* replays, the view shows of every candidate its own part and its last title
\* and verdict, and the log has no view over a snapshot of other candidates.
THEOREM ReviewsReplayCorrect ==
  ASSUME NEW s, "candidates" \in DOMAIN s, IsList(s.candidates), NEW wanted, AreWishes(wanted),
         Rev!Effective(s, Rev!NoReviews(s)) # <<>>
  PROVE  Rev!ReviewsReplay(s, wanted)
<1> DEFINE log == Rev!Replay(s, wanted)
           O == Wishes(wanted)
           view == Rev!Effective(s, log)
           other == [s EXCEPT !.candidates = Tail(@)]
<1>1. log \in Logs(s, O) /\ view # <<>>
  BY ReplayIs
<1> HIDE DEF log
<1>2. \A o \in O : IsAction(o.action)
  BY DEF Wishes, ReviewOf, AreWishes
<1> HIDE DEF O
<1>3. log.operations \in Seq(O) /\ log.base = s
  BY <1>1 DEF Logs
<1>4. IsLog(log)
  <2> DEFINE ops == log.operations
  <2>1. Len(ops) \in Nat /\ DOMAIN ops = 1 .. Len(ops) /\ \A n \in 1 .. Len(ops) : ops[n] \in O
    BY <1>3
  <2> HIDE DEF ops
  <2>2. AreReviews(ops)
    BY <1>2, <2>1 DEF AreReviews
  <2> QED BY <2>2 DEF IsLog, ops
<1>5. view = <<view[1]>> /\ Rev!ViewFollows(s, log.operations, view[1])
  BY <1>1, <1>4, ViewIs
<1>6. ASSUME log.operations # <<>> PROVE Rev!Effective(other, log) = <<>>
  <2>1. 1 \in DOMAIN log.operations
    BY <1>3, <1>6
  <2>2. Rev!Allowed(log.operations[1], s.candidates)
    BY <1>1, <1>4, <2>1, EffectiveIs
  <2>3. DOMAIN s.candidates # {}
    BY <2>2 DEF Rev!Allowed
  <2> DEFINE candidates == s.candidates
             n == Len(candidates)
             X == {candidates[k] : k \in 1 .. n}
  <2>4. n \in Nat /\ candidates = [k \in 1 .. n |-> candidates[k]] /\ DOMAIN candidates # {}
    BY <2>3 DEF IsList
  <2> HIDE DEF candidates
  <2>5. candidates \in Seq(X) /\ candidates # <<>>
    BY <2>4
  <2>6. Len(Tail(candidates)) = n - 1
    <3> HIDE DEF X
    <3> QED BY <2>5
  <2>7. Tail(candidates) # candidates
    <3> SUFFICES ASSUME Tail(candidates) = candidates PROVE FALSE
      OBVIOUS
    <3>1. n = n - 1
      BY <2>6
    <3> HIDE DEF n
    <3> QED BY <2>4, <3>1
  <2>8. other.candidates = Tail(s.candidates)
    OBVIOUS
  <2>9. log.base # other
    BY <1>3, <2>7, <2>8 DEF candidates
  <2> HIDE DEF other
  <2> QED BY <2>9, Zenon DEF Rev!Effective
<1>7. \A shown \in Rev!ToSet(view) : Rev!ViewFollows(s, log.operations, shown)
  <2> HIDE DEF view
  <2>1. Rev!ToSet(view) = {view[1]}
    BY <1>5 DEF Rev!ToSet
  <2> QED BY <1>5, <2>1
<1> QED BY <1>1, <1>6, <1>7, Zenon DEF Rev!ReviewsReplay, log

\* The candidates that are less deep than one of them.
LessDeep(v, k) == {i \in DOMAIN v : v[i].level < v[k].level}
\* An optional id of a candidate, and that of the parent of one.
Ids(v) == {<<>>} \cup {<<v[k].id>> : k \in DOMAIN v}
ParentAbove(v, id) == v[Rev!Min({k \in DOMAIN v : v[k].id = id})].parent
NextUp(v, o) == IF o = <<>> THEN <<>> ELSE ParentAbove(v, o[1])
ParentsOf(c, v, up) ==
  up = [n \in 0 .. Len(v) |-> IF n = 0 THEN c.parent ELSE NextUp(v, up[n - 1])]

\* Every parent of the list is in it, and less deep.
AreChildren(v) ==
  /\ IsList(v) /\ \A j, k \in DOMAIN v : v[j].id = v[k].id => j = k
  /\ \A k \in DOMAIN v : Rev!IsChild(v[k], v)

\* The parent of a candidate is none, or another one with fewer above it.
LEMMA ParentIs ==
  ASSUME NEW v, AreChildren(v), NEW k \in DOMAIN v, v[k].parent # <<>>
  PROVE  \E j \in DOMAIN v : v[k].parent = <<v[j].id>> /\ Cardinality(LessDeep(v, j)) < Cardinality(LessDeep(v, k))
<1>1. IsCandidate(v[k]) /\ DOMAIN v = 1 .. Len(v) /\ Len(v) \in Nat
  BY DEF AreChildren, IsList, AreCandidates
<1>2. PICK j \in DOMAIN v : v[j].id = v[k].parent[1] /\ v[j].level < v[k].level
  BY DEF AreChildren, Rev!IsChild
<1>3. v[k].parent = <<v[j].id>>
  BY <1>1, <1>2 DEF IsCandidate, IsOptional
<1> DEFINE A == LessDeep(v, j)
           B == LessDeep(v, k)
<1>4. \A i \in DOMAIN v : v[i].level \in Nat
  BY DEF AreChildren, IsList, AreCandidates, IsCandidate
<1>5. A \subseteq B /\ j \in B /\ j \notin A /\ B \subseteq DOMAIN v
  BY <1>2, <1>4 DEF LessDeep
<1> HIDE DEF A, B
<1>6. IsFiniteSet(DOMAIN v)
  <2>1. IsFiniteSet(1 .. Len(v))
    BY <1>1, FS_Interval, 1 \in Int, Len(v) \in Int
  <2> QED BY <1>1, <2>1
<1>7. IsFiniteSet(B) /\ IsFiniteSet(A)
  BY <1>5, <1>6, FS_Subset
<1>8. Cardinality(A) <= Cardinality(B) /\ (Cardinality(B) = Cardinality(A) => A = B)
  BY <1>5, <1>7, FS_Subset
<1>9. Cardinality(A) \in Nat /\ Cardinality(B) \in Nat /\ A # B
  BY <1>5, <1>7, FS_CardinalityType
<1> QED BY <1>3, <1>8, <1>9 DEF A, B

\* The parent of an id that is there.
LEMMA ParentAboveIs ==
  ASSUME NEW v, AreChildren(v), NEW k \in DOMAIN v
  PROVE  ParentAbove(v, v[k].id) = v[k].parent
<1> DEFINE S == {j \in DOMAIN v : v[j].id = v[k].id}
<1>1. S = {k} /\ k \in Int
  BY DEF AreChildren, IsList
<1>2. \A x \in S : (\A y \in S : x <= y) <=> x = k
  BY <1>1
<1>3. Rev!Min(S) = k
  <2> HIDE DEF S
  <2> QED BY <1>1, <1>2 DEF Rev!Min
<1> QED BY <1>3 DEF ParentAbove

\* From parent to parent one comes to the end: there are fewer and fewer above.
LEMMA ChildrenAreRooted ==
  ASSUME NEW v, AreChildren(v), NEW k \in DOMAIN v
  PROVE  Rev!IsRooted(v[k], v)
<1> DEFINE N == Len(v)
           V == Ids(v)
           c == v[k]
           step == [x \in (1 .. N) \X V |-> NextUp(v, x[2])]
           up == CHOOSE f : ParentsOf(c, v, f)
<1>1. Rev!IsRooted(c, v) <=> up[N] = <<>>
  BY Zenon DEF Rev!IsRooted, ParentsOf, NextUp, ParentAbove
<1>2. N \in Nat /\ DOMAIN v = 1 .. N
  BY DEF AreChildren, IsList
<1>3. \A j \in DOMAIN v : v[j].parent \in V
  <2> TAKE j \in DOMAIN v
  <2>1. CASE v[j].parent = <<>>
    BY <2>1 DEF Ids
  <2>2. CASE v[j].parent # <<>>
    <3>1. PICK i \in DOMAIN v : v[j].parent = <<v[i].id>>
      BY <2>2, ParentIs
    <3> QED BY <3>1 DEF Ids
  <2> QED BY <2>1, <2>2
<1>4. \A o \in V : NextUp(v, o) \in V
  <2> TAKE o \in V
  <2>1. CASE o = <<>>
    BY <2>1 DEF NextUp
  <2>2. CASE o # <<>>
    <3>1. PICK j \in DOMAIN v : o = <<v[j].id>>
      BY <2>2 DEF Ids
    <3>2. NextUp(v, o) = v[j].parent
      BY <3>1, ParentAboveIs DEF NextUp
    <3> QED BY <1>3, <3>2
  <2> QED BY <2>1, <2>2
<1>5. step \in [(1 .. N) \X V -> V] /\ c.parent \in V
  <2> HIDE DEF V
  <2> QED BY <1>3, <1>4
<1> HIDE DEF step, V, c, N
<1>6. \E f : ParentsOf(c, v, f)
  <2>1. PICK f \in [0 .. N -> V] : f[0] = c.parent /\ \A n \in 1 .. N : f[n] = step[<<n, f[n - 1]>>]
    <3>1. Iterable(N, V, c.parent, step)
      BY <1>2, <1>5 DEF Iterable
    <3> QED BY <3>1, Iteration DEF Iterates
  <2>2. ASSUME NEW n \in 0 .. N PROVE f[n] = IF n = 0 THEN c.parent ELSE NextUp(v, f[n - 1])
    <3>1. CASE n = 0
      BY <2>1, <3>1
    <3>2. CASE n # 0
      <4>1. n \in 1 .. N /\ n - 1 \in 0 .. N
        BY <1>2, <3>2
      <4>2. <<n, f[n - 1]>> \in (1 .. N) \X V
        BY <2>1, <4>1
      <4>3. step[<<n, f[n - 1]>>] = NextUp(v, f[n - 1])
        BY <4>2 DEF step
      <4> QED BY <2>1, <3>2, <4>1, <4>3
    <3> QED BY <3>1, <3>2
  <2>3. f = [n \in 0 .. N |-> IF n = 0 THEN c.parent ELSE NextUp(v, f[n - 1])]
    BY <2>1, <2>2
  <2> QED BY <2>3 DEF ParentsOf, N
<1>7. ParentsOf(c, v, up)
  BY <1>6
<1> HIDE DEF up
<1>8. \A n \in 0 .. N : up[n] = IF n = 0 THEN c.parent ELSE NextUp(v, up[n - 1])
  BY <1>7 DEF ParentsOf, N
<1>9. \A j \in DOMAIN v : Cardinality(LessDeep(v, j)) \in 0 .. N
  <2> TAKE j \in DOMAIN v
  <2>1. LessDeep(v, j) \subseteq 1 .. N
    BY <1>2 DEF LessDeep
  <2>2. IsFiniteSet(1 .. N) /\ Cardinality(1 .. N) = IF 1 > N THEN 0 ELSE N - 1 + 1
    BY <1>2, FS_Interval, 1 \in Int, N \in Int
  <2>3. Cardinality(LessDeep(v, j)) <= Cardinality(1 .. N) /\ IsFiniteSet(LessDeep(v, j))
    BY <2>1, <2>2, FS_Subset
  <2>4. Cardinality(LessDeep(v, j)) \in Nat
    BY <2>3, FS_CardinalityType
  <2> QED BY <1>2, <2>2, <2>3, <2>4
<1> DEFINE Climbs(n) == up[n] = <<>> \/ \E j \in DOMAIN v : up[n] = <<v[j].id>> /\ Cardinality(LessDeep(v, j)) + n < N
           T == {n \in Nat : n <= N => Climbs(n)}
<1>10. 0 \in T
  <2>1. up[0] = v[k].parent
    BY <1>2, <1>8 DEF c
  <2>2. CASE v[k].parent = <<>>
    BY <2>1, <2>2
  <2>3. CASE v[k].parent # <<>>
    <3>1. PICK j \in DOMAIN v : v[k].parent = <<v[j].id>> /\ Cardinality(LessDeep(v, j)) < Cardinality(LessDeep(v, k))
      BY <2>3, ParentIs
    <3>2. Cardinality(LessDeep(v, j)) + 0 < N
      BY <1>2, <1>9, <3>1
    <3> QED BY <2>1, <3>1, <3>2
  <2> QED BY <2>2, <2>3
<1>11. ASSUME NEW n \in T PROVE n + 1 \in T
  <2> SUFFICES ASSUME n + 1 <= N PROVE Climbs(n + 1)
    OBVIOUS
  <2>1. Climbs(n) /\ n + 1 \in 0 .. N /\ (n + 1) - 1 = n /\ n + 1 # 0
    BY <1>2
  <2>2. up[n + 1] = NextUp(v, up[n])
    BY <1>8, <2>1
  <2>3. CASE up[n] = <<>>
    BY <2>2, <2>3 DEF NextUp
  <2>4. CASE up[n] # <<>>
    <3>1. PICK j \in DOMAIN v : up[n] = <<v[j].id>> /\ Cardinality(LessDeep(v, j)) + n < N
      BY <2>1, <2>4
    <3>2. up[n + 1] = v[j].parent
      BY <2>2, <3>1, ParentAboveIs DEF NextUp
    <3>3. CASE v[j].parent = <<>>
      BY <3>2, <3>3
    <3>4. CASE v[j].parent # <<>>
      <4>1. PICK i \in DOMAIN v : v[j].parent = <<v[i].id>> /\ Cardinality(LessDeep(v, i)) < Cardinality(LessDeep(v, j))
        BY <3>4, ParentIs
      <4>2. Cardinality(LessDeep(v, i)) \in Nat /\ Cardinality(LessDeep(v, j)) \in Nat
        BY <1>9
      <4>3. Cardinality(LessDeep(v, i)) + (n + 1) < N
        BY <1>2, <3>1, <4>1, <4>2
      <4> QED BY <3>2, <4>1, <4>3
    <3> QED BY <3>3, <3>4
  <2> QED BY <2>3, <2>4
<1>12. T = Nat
  <2> HIDE DEF T
  <2>1. T \in SUBSET Nat
    BY DEF T
  <2> QED BY <1>10, <1>11, <2>1, Induction
<1>13. Climbs(N)
  <2>1. N \in T
    BY <1>2, <1>12
  <2> HIDE DEF Climbs
  <2> QED BY <1>2, <2>1
<1>14. up[N] = <<>>
  BY <1>2, <1>9, <1>13
<1> QED BY <1>1, <1>14 DEF c

\* So a view is refused only for a parent that is not there or not less deep.
LEMMA ChildrenHaveView ==
  ASSUME NEW v, AreChildren(v)
  PROVE  Rev!View(v) # <<>>
<1>1. \A k \in DOMAIN v : Rev!IsChild(v[k], v) /\ Rev!IsRooted(v[k], v)
  BY ChildrenAreRooted DEF AreChildren
<1>2. Rev!View(v) = <<Rev!Sorted(v)>>
  BY <1>1, Zenon DEF Rev!View, Rev!Every
<1> QED BY <1>2

\* What the parents are given to: candidates with ids of their own, at the level
\* of their source.
AreLevelled(candidates) ==
  /\ IsList(candidates)
  /\ \A j, k \in DOMAIN candidates : candidates[j].id = candidates[k].id => j = k
  /\ \A k \in DOMAIN candidates : candidates[k].level = candidates[k].sourceLevel

\* The parent is an earlier candidate that is less deep.
LEMMA ParentsAreAbove ==
  ASSUME NEW candidates, AreLevelled(candidates)
  PROVE  AreChildren(Rev!WithParents(candidates))
<1> DEFINE n == Len(candidates)
           D == 1 .. n
           v == Rev!WithParents(candidates)
           above(k) == {j \in 1 .. k - 1 : candidates[j].sourceLevel < candidates[k].sourceLevel}
           parent(k) == IF above(k) = {} THEN <<>> ELSE <<candidates[Rev!Max(above(k))].id>>
<1>1. n \in Nat /\ DOMAIN candidates = D /\ \A k \in D : IsCandidate(candidates[k])
  BY DEF AreLevelled, IsList, AreCandidates
<1>2. v = [k \in D |-> [candidates[k] EXCEPT !.sourceParent = parent(k), !.parent = parent(k)]]
  BY <1>1 DEF Rev!WithParents
<1> HIDE DEF v
<1>3. ASSUME NEW k \in D, above(k) # {} PROVE Rev!Max(above(k)) \in above(k)
  <2> DEFINE A == above(k)
  <2>1. A # {} /\ \A u \in A : u \in Int /\ u <= k
    BY <1>3
  <2> HIDE DEF A
  <2>2. k \in Int
    OBVIOUS
  <2>3. Img!Greatest(A) \in A /\ \A u \in A : u <= Img!Greatest(A)
    BY <2>1, <2>2, GreatestIs
  <2>4. \E x \in A : \A y \in A : x >= y
    BY <2>1, <2>3
  <2>5. Rev!Max(A) \in A
    BY <2>4 DEF Rev!Max
  <2> QED BY <2>5 DEF A
<1>4. ASSUME NEW k \in D
      PROVE  parent(k) = <<>> \/ \E j \in D : parent(k) = <<candidates[j].id>> /\ candidates[j].level < candidates[k].level
  <2>1. CASE above(k) = {}
    BY <2>1
  <2>2. CASE above(k) # {}
    <3> DEFINE j == Rev!Max(above(k))
    <3>1. j \in above(k)
      BY <1>3, <2>2
    <3>2. parent(k) = <<candidates[j].id>>
      BY <2>2
    <3> HIDE DEF j, parent
    <3>3. j \in D /\ candidates[j].sourceLevel < candidates[k].sourceLevel
      BY <1>1, <3>1
    <3>4. candidates[j].level < candidates[k].level
      BY <1>1, <3>3 DEF AreLevelled
    <3> QED BY <3>2, <3>3, <3>4
  <2> QED BY <2>1, <2>2
<1> HIDE DEF parent
<1>5. ASSUME NEW k \in D
      PROVE  /\ IsCandidate(v[k]) /\ v[k].id = candidates[k].id /\ v[k].level = candidates[k].level
             /\ v[k].parent = parent(k)
  <2> DEFINE c == candidates[k]
             e == [c EXCEPT !.sourceParent = parent(k), !.parent = parent(k)]
  <2>1. v[k] = e
    BY <1>2
  <2>2. IsCandidate(c)
    BY <1>1
  <2>3. IsOptional(parent(k))
    BY <1>4 DEF IsOptional
  <2> HIDE DEF c
  <2>4. DOMAIN c = CandidateFields
    BY <2>2 DEF IsCandidate
  <2>5. e = [f \in CandidateFields |-> e[f]]
    BY <2>4
  <2>6. /\ e.id = c.id /\ e.level = c.level /\ e.index = c.index /\ e.box = c.box
        /\ e.parent = parent(k)
    BY <2>4 DEF CandidateFields, Rev!Kept
  <2> HIDE DEF e
  <2>7. IsCandidate(e)
    BY <2>2, <2>3, <2>5, <2>6 DEF IsCandidate
  <2> QED BY <2>1, <2>6, <2>7 DEF c
<1>6. v = [k \in D |-> v[k]]
  BY <1>2
<1> HIDE DEF n
<1>7. Len(v) = n /\ DOMAIN v = D
  BY <1>1, <1>6, LengthIs
<1>8. IsList(v)
  BY <1>1, <1>5, <1>6, <1>7 DEF IsList, AreCandidates
<1>9. \A j, k \in D : v[j].id = v[k].id => j = k
  BY <1>1, <1>5 DEF AreLevelled
<1>10. ASSUME NEW k \in D PROVE Rev!IsChild(v[k], v)
  <2> SUFFICES ASSUME v[k].parent # <<>>
               PROVE  \E j \in D : v[j].id = v[k].parent[1] /\ v[j].level < v[k].level
    BY <1>7 DEF Rev!IsChild
  <2>1. PICK j \in D : parent(k) = <<candidates[j].id>> /\ candidates[j].level < candidates[k].level
    BY <1>4, <1>5
  <2>2. v[k].parent[1] = candidates[j].id
    BY <1>5, <2>1
  <2> QED BY <1>5, <2>1, <2>2
<1> QED BY <1>7, <1>8, <1>9, <1>10 DEF AreChildren, v

\* Without reviews candidates are as they are.
LEMMA NothingReviewed ==
  ASSUME NEW candidates, IsList(candidates)
  PROVE  Rev!AfterReviews(candidates, <<>>) = candidates
<1> DEFINE after == CHOOSE f : ReviewsOf(candidates, <<>>, f)
<1>1. Rev!AfterReviews(candidates, <<>>) = after[Len(<<>>)]
  BY Zenon DEF Rev!AfterReviews, ReviewsOf
<1>2. AreReviews(<<>>) /\ Len(<<>>) = 0
  BY DEF AreReviews
<1>3. AreCandidates(candidates) /\ candidates = [k \in DOMAIN candidates |-> candidates[k]]
  BY DEF IsList
<1>4. ReviewsOf(candidates, <<>>, after)
  <2>1. \E f : ReviewsOf(candidates, <<>>, f)
    BY <1>2, <1>3, ReviewsExist
  <2> QED BY <2>1
<1> HIDE DEF after
<1>5. after[0] = candidates
  BY <1>2, <1>4 DEF ReviewsOf
<1> QED BY <1>1, <1>2, <1>5

\* generate: a valid snapshot whose candidates have the parents their levels give
\* them has a view before it is reviewed, so that ReviewsReplayCorrect is about it.
THEOREM GeneratedSnapshotsHaveViews ==
  ASSUME NEW candidates, AreLevelled(candidates),
         NEW s, s.candidates = Rev!WithParents(candidates), Rev!ValidSnapshot(s)
  PROVE  IsList(s.candidates) /\ Rev!Effective(s, Rev!NoReviews(s)) # <<>>
<1> DEFINE v == s.candidates
           r == Rev!NoReviews(s)
<1>1. AreChildren(v)
  BY ParentsAreAbove
<1>2. r.operations = <<>> /\ r.base = s
  BY DEF Rev!NoReviews
<1> HIDE DEF r
<1>3. Rev!ValidReviews(r)
  BY <1>2 DEF Rev!ValidReviews, Rev!Distinct, Rev!MaxReviews
<1>4. Rev!AfterReviews(v, r.operations) = v
  BY <1>1, <1>2, NothingReviewed DEF AreChildren
<1>5. Rev!View(v) # <<>>
  BY <1>1, ChildrenHaveView
<1>6. \A n \in DOMAIN r.operations : Rev!Allowed(r.operations[n], v)
  BY <1>2
<1>7. Rev!Effective(s, r) = Rev!View(Rev!AfterReviews(v, r.operations))
  BY <1>2, <1>3, <1>6, Zenon DEF Rev!Effective, Rev!Every
<1>8. Rev!Effective(s, r) # <<>>
  BY <1>4, <1>5, <1>7
<1> QED BY <1>1, <1>8 DEF AreChildren, r
=============================================================================
