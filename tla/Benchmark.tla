------------------------------ MODULE Benchmark ------------------------------
(***************************************************************************)
(* The benchmark of the page processing against ground truth               *)
(* (mpdf-core/src/benchmark/): which datasets and profiles load, what a    *)
(* page scores, and how scores are summed up.                              *)
(*                                                                         *)
(* Masks are those of ImageStages.  Scores are fractions; a PSNR is the    *)
(* fraction of pixels per wrong pixel whose logarithm it is, so that a     *)
(* mean of PSNRs is a product.  The weights 1/distance of the DRD are in   *)
(* hundredths and not divided by their sum.  Counters cannot saturate      *)
(* within the size limits.                                                 *)
(***************************************************************************)
EXTENDS Integers, Sequences, FiniteSets, SequencesExt, FiniteSetsExt, Functions

Stages == INSTANCE ImageStages

Ratio(n, d) == [n |-> n, d |-> d]
LessEq(a, b) == a.n * b.d <= b.n * a.d
SameRatio(a, b) == a.n * b.d = b.n * a.d
Add(a, b) == Ratio(a.n * b.d + b.n * a.d, a.d * b.d)
Sum(seq) == SumFunctionOnSet(seq, DOMAIN seq)
Mean(seq) ==
  LET sum == FoldLeft(Add, Ratio(0, 1), seq)
  IN  Ratio(sum.n, sum.d * Len(seq))

-----------------------------------------------------------------------------
\* LoadedDataset::load.  A path is the sequence of directories it resolves to,
\* links followed; <<>> when there is no such file.
MaxDatasetPages == 10000
MaxRoisPerPage == 64
DistinctIds(seq) == \A j, k \in DOMAIN seq : seq[j].id = seq[k].id => j = k
Contained(root, path) == path # <<>> /\ IsPrefix(root, path)
LoadsDataset(dataset) ==
  /\ dataset.schema = "1.0"
  /\ Len(dataset.pages) \in 1 .. MaxDatasetPages /\ DistinctIds(dataset.pages)
  /\ \A k \in DOMAIN dataset.pages :
       LET page == dataset.pages[k]
       IN  /\ Len(page.rois) <= MaxRoisPerPage /\ DistinctIds(page.rois)
           /\ Contained(dataset.root, page.inputPath) /\ Contained(dataset.root, page.truthPath)

\* RunConfig::to_processing_settings: "unset" is a parameter the profile omits.
Unset == "unset"
OrElse(v, default) == IF v = Unset THEN default ELSE v
AcceptsRun(run) ==
  /\ run.threshold # Unset <=> run.method = "manual"
  /\ run.window # Unset => run.method = "sauvola"
  /\ run.radius # Unset => run.normalize
DefaultWindow == 33
DefaultRadius == 31
SettingsOf(run) ==
  [dpi |-> run.dpi, contrast |-> run.contrast, method |-> run.method,
   threshold |-> OrElse(run.threshold, 0),
   prm |-> [window |-> OrElse(run.window, DefaultWindow), kn |-> 1, kd |-> 5, R |-> 128],
   normalize |-> run.normalize, radius |-> OrElse(run.radius, DefaultRadius),
   denoise |-> run.denoise, despeckle |-> OrElse(run.despeckle, "off"), limit |-> 0]
MaxProfileRuns == 256
LoadsProfile(profile) ==
  /\ profile.schema = "1.0"
  /\ Len(profile.runs) \in 1 .. MaxProfileRuns /\ DistinctIds(profile.runs)
  /\ \A k \in DOMAIN profile.runs :
       AcceptsRun(profile.runs[k]) /\ Stages!ValidSettings(SettingsOf(profile.runs[k]))

\* check_dimensions.
MaxImageDimension == 20000
MaxImagePixels == 200000000
AcceptsSize(w, h) ==
  /\ w \in 1 .. MaxImageDimension /\ h \in 1 .. MaxImageDimension
  /\ w * h <= MaxImagePixels

\* load_ground_truth_mask: gray values after their conversion to 8 bits, so
\* that 16-bit values near black or white count as black or white.
To8Bits(v, bits) == IF bits = 16 THEN (v + 128) \div 257 ELSE v
Unusable == Stages!Image(0, 0, <<>>)
GroundTruth(png, polarity) ==
  LET px == [at \in DOMAIN png.px |-> To8Bits(png.px[at], png.bits)]
  IN  IF /\ AcceptsSize(png.w, png.h) /\ png.color = "gray" /\ png.opaque
         /\ \A at \in DOMAIN px : px[at] \in {0, 255}
      THEN Stages!Image(png.w, png.h,
             [at \in DOMAIN px |-> (px[at] = 0) = (polarity = "black_is_0")])
      ELSE Unusable

-----------------------------------------------------------------------------
\* Roi::validate and Roi::crop.
MaxU32 == 2147483647 \* the largest value TLC has; the code's is 2^32 - 1
ValidRoi(roi, w, h) ==
  /\ roi.w > 0 /\ roi.h > 0
  /\ roi.x <= MaxU32 - roi.w /\ roi.y <= MaxU32 - roi.h
  /\ roi.x + roi.w <= w /\ roi.y + roi.h <= h
Crop(mask, roi) ==
  Stages!Image(roi.w, roi.h,
    [at \in Stages!Pixels(roi.w, roi.h) |-> mask.px[<<roi.x + at[1], roi.y + at[2]>>]])

\* confusion_matrix, of masks of one size.
Confusion(out, truth) ==
  LET count(o, t) == Cardinality({at \in DOMAIN truth.px : out.px[at] = o /\ truth.px[at] = t})
  IN  [tp |-> count(TRUE, TRUE), fp |-> count(TRUE, FALSE),
       fn |-> count(FALSE, TRUE), tn |-> count(FALSE, FALSE)]

\* f_measure: a page without ink in either mask is perfect.
PrecisionFaulty(c) == IF c.tp + c.fp = 0 THEN Ratio(0, 1) ELSE Ratio(c.tp, c.tp + c.fp)
Precision(c) ==
  IF c.tp + c.fp = 0 THEN Ratio(IF c.tp + c.fn = 0 THEN 1 ELSE 0, 1) ELSE Ratio(c.tp, c.tp + c.fp)
Recall(c) == IF c.tp + c.fn = 0 THEN Ratio(1, 1) ELSE Ratio(c.tp, c.tp + c.fn)
HarmonicMean(p, r) ==
  LET sum == Add(p, r) IN IF sum.n = 0 THEN Ratio(0, 1) ELSE Ratio(2 * p.n * r.n * sum.d, p.d * r.d * sum.n)
F1(c) == HarmonicMean(Precision(c), Recall(c))

\* psnr.
\* No wrong pixel: JSON has no infinity, so this is a case of its own.
Perfect == Ratio(1, 0)
Psnr(c) ==
  IF c.fp + c.fn = 0 THEN Perfect ELSE Ratio(c.tp + c.fp + c.fn + c.tn, c.fp + c.fn)

(***************************************************************************)
(* drd: every wrong pixel is weighed by the ground truth around it, white  *)
(* beyond the border; the sum is divided by the number of 8 x 8 blocks of  *)
(* the ground truth that are neither all ink nor all paper.                *)
(***************************************************************************)
Offsets == (-2 .. 2) \X (-2 .. 2)
Weight(o) ==
  LET squared == o[1] * o[1] + o[2] * o[2]
  IN  CASE squared = 0 -> 0 [] squared = 1 -> 100 [] squared = 2 -> 71
        [] squared = 4 -> 50 [] squared = 5 -> 45 [] squared = 8 -> 35
InkAt(mask, x, y) == <<x, y>> \in DOMAIN mask.px /\ mask.px[<<x, y>>]
Distortion(out, truth, at) ==
  SumFunctionOnSet([o \in Offsets |-> Weight(o)],
                   {o \in Offsets : InkAt(truth, at[1] + o[1], at[2] + o[2]) # out.px[at]})
Block == 8
NonUniformBlocks(mask) ==
  LET block(at) == <<at[1] \div Block, at[2] \div Block>>
      blocks == {block(at) : at \in DOMAIN mask.px}
      inks(b) == {mask.px[at] : at \in {q \in DOMAIN mask.px : block(q) = b}}
  IN  Cardinality({b \in blocks : inks(b) = BOOLEAN})
Drd(out, truth) ==
  LET wrong == {at \in DOMAIN truth.px : out.px[at] # truth.px[at]}
      total == SumFunctionOnSet([at \in wrong |-> Distortion(out, truth, at)], wrong)
      blocks == NonUniformBlocks(truth)
  IN  Ratio(total, IF blocks = 0 THEN 1 ELSE blocks)

-----------------------------------------------------------------------------
\* What run_one_page_set reports of a mask, of a page and of its regions.
ScoresOf(c, drd) ==
  [c |-> c, precision |-> Precision(c), recall |-> Recall(c), f1 |-> F1(c), psnr |-> Psnr(c), drd |-> drd]
Scores(out, truth) == ScoresOf(Confusion(out, truth), Drd(out, truth))
RoiResults(page, out, truth) ==
  [k \in DOMAIN page.rois |->
     [tag |-> page.rois[k].tag, s |-> Scores(Crop(out, page.rois[k]), Crop(truth, page.rois[k]))]]
PageResult(page, out, truth, measured) ==
  [id |-> page.id, category |-> page.category, s |-> Scores(out, truth),
   bytes |-> measured.bytes, duration |-> measured.duration,
   rois |-> RoiResults(page, out, truth)]

\* One run over all pages: the first page that fails fails the benchmark.
RunPageSet(dataset, settings, measured) ==
  LET out(k) == Stages!Unpack(Stages!ProcessPage(dataset.pages[k].input, settings))
      truth(k) == GroundTruth(dataset.pages[k].truth, dataset.polarity)
      fails(k) ==
        LET page == dataset.pages[k]
        IN  \/ ~AcceptsSize(page.input.w, page.input.h)
            \/ truth(k) = Unusable
            \/ <<page.input.w, page.input.h>> # <<truth(k).w, truth(k).h>>
            \/ \E r \in DOMAIN page.rois : ~ValidRoi(page.rois[r], page.input.w, page.input.h)
  IN  IF \E k \in DOMAIN dataset.pages : fails(k) THEN "refused"
      ELSE [k \in DOMAIN dataset.pages |-> PageResult(dataset.pages[k], out(k), truth(k), measured[k])]

-----------------------------------------------------------------------------
\* aggregate_pages and aggregate_fmeasure_triples, of a sequence of scores.
Column(scores, f) == [k \in DOMAIN scores |-> scores[k][f]]
TotalConfusion(scores) ==
  [f \in {"tp", "fp", "fn", "tn"} |-> Sum([k \in DOMAIN scores |-> scores[k].c[f]])]
ByRatio(seq) == SortSeq(seq, LAMBDA a, b : a.n * b.d < b.n * a.d)
MiddleRatio(s, mid) == IF Len(s) % 2 = 1 THEN s[mid + 1] ELSE Mean(<<s[mid], s[mid + 1]>>)
MedianRatio(seq) == MiddleRatio(ByRatio(seq), Len(seq) \div 2)
AggregateOf(scores, drds, finite) ==
  [count |-> Len(scores),
   macroF1 |-> Mean(Column(scores, "f1")),
   microF1 |-> F1(TotalConfusion(scores)),
   precision |-> Mean(Column(scores, "precision")),
   recall |-> Mean(Column(scores, "recall")),
   psnr |-> IF finite = <<>> THEN Perfect
            ELSE FoldLeft(LAMBDA a, b : Ratio(a.n * b.n, a.d * b.d), Ratio(1, 1), finite),
   perfect |-> Len(scores) - Len(finite),
   drd |-> Mean(drds), medianDrd |-> MedianRatio(drds), maxDrd |-> Last(ByRatio(drds))]
Aggregate(scores) ==
  AggregateOf(scores, Column(scores, "drd"), SelectSeq(Column(scores, "psnr"), LAMBDA p : p # Perfect))

\* aggregate_by_category and aggregate_by_roi_tag; a region may have no tag.
Untagged == ""
GroupBy(seq, key(_)) ==
  [g \in {key(seq[k]) : k \in DOMAIN seq} |-> SelectSeq(seq, LAMBDA e : key(e) = g)]
AggregatesOf(groups) == [g \in DOMAIN groups |-> Aggregate(Column(groups[g], "s"))]
ByCategory(pages) == AggregatesOf(GroupBy(pages, LAMBDA p : p.category))
ByRoiTag(pages) ==
  LET tagged == SelectSeq(FlattenSeq(Column(pages, "rois")), LAMBDA r : r.tag # Untagged)
  IN  AggregatesOf(GroupBy(tagged, LAMBDA r : r.tag))

\* worst_pages: the first of the lowest, the last of the highest.
WorstPages(pages) ==
  LET atLeast(k, j, a, b) == LessEq(b, a) /\ (SameRatio(a, b) => j <= k)
      atMost(k, j, a, b) == LessEq(a, b) /\ (SameRatio(a, b) => k <= j)
      whole(n) == Ratio(n, 1)
  IN  [lowestF1 |-> CHOOSE k \in DOMAIN pages : \A j \in DOMAIN pages :
                      atMost(k, j, pages[k].s.f1, pages[j].s.f1),
       highestDrd |-> CHOOSE k \in DOMAIN pages : \A j \in DOMAIN pages :
                        atLeast(k, j, pages[k].s.drd, pages[j].s.drd),
       largest |-> CHOOSE k \in DOMAIN pages : \A j \in DOMAIN pages :
                     atLeast(k, j, whole(pages[k].bytes), whole(pages[j].bytes)),
       slowest |-> CHOOSE k \in DOMAIN pages : \A j \in DOMAIN pages :
                     atLeast(k, j, whole(pages[k].duration), whole(pages[j].duration))]

Report(pages) ==
  [aggregate |-> Aggregate(Column(pages, "s")), byCategory |-> ByCategory(pages),
   byRoiTag |-> ByRoiTag(pages), worst |-> WorstPages(pages)]

-----------------------------------------------------------------------------
\* The scores agree on what is perfect: F1 is 1, and the PSNR a match, exactly
\* for the ground truth itself (blank pages included), and then the DRD is 0.
PerfectionAgrees(out, truth) ==
  \A s \in {Scores(out, truth)} :
    /\ SameRatio(s.f1, Ratio(1, 1)) <=> out = truth
    /\ s.psnr = Perfect <=> out = truth
    /\ out = truth => s.drd.n = 0
    /\ LessEq(Ratio(0, 1), s.f1) /\ LessEq(s.f1, Ratio(1, 1))

\* Regions that tile a page count every pixel of it once.
RegionsAddUp(out, truth) ==
  \A cut \in 1 .. truth.w - 1 :
    LET left == [x |-> 0, y |-> 0, w |-> cut, h |-> truth.h]
        right == [x |-> cut, y |-> 0, w |-> truth.w - cut, h |-> truth.h]
        part(roi) == [c |-> Confusion(Crop(out, roi), Crop(truth, roi))]
    IN  TotalConfusion(<<part(left), part(right)>>) = Confusion(out, truth)

\* A report agrees with its pages: micro and macro F1 lie between the worst and
\* the best page although blank pages count in one of them only; categories
\* split the pages; regions of whole pages are summed up as the pages are.
ReportAgreesWithPages(pages) ==
  LET of(g) == SelectSeq(pages, LAMBDA p : p.category = g)
  IN  \A report \in {Report(pages)} : \A all \in {DOMAIN report.byCategory} :
        /\ \A f1 \in {report.aggregate.microF1, report.aggregate.macroF1} :
             /\ LessEq(pages[report.worst.lowestF1].s.f1, f1)
             /\ \E k \in DOMAIN pages : LessEq(f1, pages[k].s.f1)
        /\ \A k \in DOMAIN pages : LessEq(pages[k].s.drd, pages[report.worst.highestDrd].s.drd)
        /\ LessEq(report.aggregate.medianDrd, report.aggregate.maxDrd)
        /\ SumFunctionOnSet([g \in all |-> report.byCategory[g].count], all) = Len(pages)
        /\ SumFunctionOnSet([g \in all |-> report.byCategory[g].perfect], all) = report.aggregate.perfect
        /\ TotalConfusion(SetToSeq({[c |-> TotalConfusion(Column(of(g), "s")), g |-> g] : g \in all}))
             = TotalConfusion(Column(pages, "s"))
        /\ (\A k \in DOMAIN pages : Len(pages[k].rois) = 1 /\ pages[k].rois[1].tag = pages[k].category)
             => report.byRoiTag = report.byCategory
=============================================================================
