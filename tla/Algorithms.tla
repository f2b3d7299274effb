----------------------------- MODULE Algorithms -----------------------------
(***************************************************************************)
(* The pure algorithms of mpdf-core and mpdf-api-client and what they      *)
(* promise of every input: the records remote OCR is bound by (RemotePlan),*)
(* pages as numbers (PageMath) and the stages of a page's image            *)
(* (ImageStages).                                                          *)
(*                                                                         *)
(* A behaviour is one step from the start to one input of one algorithm;   *)
(* the invariants say what holds of it.  The inputs are parameters, and    *)
(* the assumptions say which ones the code can be given.                   *)
(***************************************************************************)
EXTENDS Integers, Sequences, FiniteSets

Plan == INSTANCE RemotePlan
Math == INSTANCE PageMath
Img == INSTANCE ImageStages

CONSTANTS
  PlanFields,       \* what plans are made of
  Packages,         \* documents: their digest and page count
  Results,          \* results of a service
  Selections,       \* parsed terms and a page count
  Samples,          \* page counts and requested sample sizes
  QuartileValues,   \* encoded sizes of sampled pages
  Estimates,        \* the pages of a document and a sample size
  Containers,       \* what a PDF adds to its pages
  PageReports,      \* what a conversion measures of its pages
  Contrasts,        \* in quarters
  OtsuImages, SauvolaImages, SauvolaParams,
  Masks, Limits,    \* inputs of the despeckling
  PackedMasks,
  Pages, Settings,  \* inputs of process_rendered_page
  Rivals            \* pairs of settings

IsImage(image, values) ==
  /\ image = Img!Image(image.w, image.h, image.px)
  /\ image.w \in Nat \ {0} /\ image.h \in Nat \ {0}
  /\ image.px \in [Img!Pixels(image.w, image.h) -> values]

\* A plan is made for a document with bytes and pages, a result has page
\* indexes.
ASSUME PlansAssumption ==
  /\ \A f \in PlanFields : f.bytes \in Nat \ {0} /\ f.pages \in Nat \ {0}
  /\ \A d \in Packages : d.pages \in Nat
  /\ \A r \in Results : r.pages \in Seq(Nat)

\* Terms are numbers or ranges of numbers, a sample is at most MaxSampleCount
\* pages, and a page that was rendered and encoded has pixels and a size.
ASSUME PagesAssumption ==
  /\ Selections \subseteq Seq([kind : STRING, from : Nat, to : Nat]) \X Nat
  /\ Samples \subseteq (Nat \ {0}) \X (1 .. Math!MaxSampleCount)
  /\ QuartileValues \subseteq Seq(Nat) \ {<<>>}
  /\ Estimates \subseteq (Seq([pixels : Nat \ {0}, bytes : Nat]) \ {<<>>}) \X (Nat \ {0})
  /\ Containers \subseteq [fixed : Nat, perPage : Nat]
  /\ PageReports \subseteq Seq([bytes : Nat, duration : Nat, pixels : Nat, black : Nat]) \ {<<>>}

\* The validated range of the contrast, gray images, and windows that are odd.
ASSUME ThresholdsAssumption ==
  /\ Contrasts \subseteq -4 .. 4
  /\ \A image \in OtsuImages \cup SauvolaImages : IsImage(image, Img!Grays)
  /\ \A prm \in SauvolaParams : prm.window \in Nat \ {0} /\ prm.window % 2 = 1

\* Masks, gray pages, and settings as the types of the code allow them; a limit
\* of 0 stands for the level's own.
IsSettings(s) ==
  /\ s.method \in {"otsu", "manual", "sauvola"}
  /\ s.despeckle \in {"off", "conservative", "strong"} /\ s.limit \in Nat
ASSUME MasksAssumption ==
  /\ \A mask \in Masks \cup PackedMasks : IsImage(mask, BOOLEAN)
  /\ Limits \subseteq Nat
  /\ \A image \in Pages : IsImage(image, Img!Grays)
  /\ \A s \in Settings : IsSettings(s)
  /\ \A r \in Rivals : IsSettings(r[1]) /\ IsSettings(r[2])

VARIABLE probe

Probe(name, S) ==
  /\ probe.of = "start" /\ probe.in = name
  /\ \E in \in S : probe' = [of |-> name, in |-> in]

-----------------------------------------------------------------------------
Plans == {Plan!NewPlan(f) : f \in PlanFields}
ProbePlans == Probe("plans", Plans \X Plans)
ProbeResults == Probe("result", Packages \X Results)

\* A consent, a receipt and a request stand for one plan, and a result that is
\* installed has every page of the document.
PlansBind ==
  /\ probe.of = "plans" =>
       LET p == probe.in[1]
           q == probe.in[2]
       IN  Plan!ConsentCoversPlan(p, q) /\ Plan!ReceiptRestoresPlan(p, q) /\ Plan!KeysAreDistinct(p, q)
  /\ probe.of = "result" => Plan!InstalledResultIsWhole(probe.in[1], probe.in[2])

-----------------------------------------------------------------------------
ProbeSelection == Probe("selection", Selections)
ProbeSample == Probe("sample", Samples)
ProbeQuartiles == Probe("quartiles", QuartileValues)
ProbeEstimate == Probe("estimate", Estimates \X Containers)
ProbeOutliers == Probe("outliers", PageReports)

\* Selections and samples name the pages they should, quartiles divide the
\* values, and outlier flags and estimates fit the pages they are about.
PagesAreExact ==
  CASE probe.of = "selection" -> Math!SelectionIsExact(probe.in[1], probe.in[2])
    [] probe.of = "sample" -> Math!SampleIsEven(probe.in[1], probe.in[2])
    [] probe.of = "quartiles" -> Math!QuartilesDivide(probe.in)
    [] probe.of = "estimate" -> Math!EstimateIsCalibrated(probe.in[1][1], probe.in[1][2], probe.in[2])
    [] probe.of = "outliers" -> Math!OutliersAreExtreme(probe.in)
    [] OTHER -> TRUE

-----------------------------------------------------------------------------
ProbeContrast == Probe("contrast", Contrasts)
ProbeOtsu == Probe("otsu", OtsuImages)
ProbeSauvola == Probe("sauvola", SauvolaImages \X SauvolaParams)

\* The thresholds are those of their definitions, at the borders too, and the
\* contrast before them keeps the order of the grays.
ThresholdsAreRight ==
  CASE probe.of = "contrast" -> Img!ContrastKeepsOrder(probe.in)
    [] probe.of = "otsu" -> Img!OtsuIsBest(probe.in)
    [] probe.of = "sauvola" -> Img!SauvolaMatchesReference(probe.in[1], probe.in[2])
    [] OTHER -> TRUE

-----------------------------------------------------------------------------
ProbeDespeckle == Probe("despeckle", Masks \X Limits)
ProbePacking == Probe("packing", PackedMasks)
ProbeProcess == Probe("process", Pages \X Settings)
ProbeFingerprint == Probe("fingerprint", Rivals \X Pages)

\* From the mask to the encoded page no pixel is lost or invented, whatever the
\* width, and cleanup removes the small marks and nothing else; settings with
\* one fingerprint make one page.
PackedPageIsClean ==
  CASE probe.of = "despeckle" -> Img!DespeckleRemovesSmallComponents(probe.in[1], probe.in[2])
    [] probe.of = "packing" -> Img!PackingIsLossless(probe.in)
    [] probe.of = "process" -> Img!NoSpeckleIsPacked(probe.in[1], probe.in[2])
    [] probe.of = "fingerprint" ->
         Img!FingerprintDecidesPage(probe.in[2], probe.in[1][1], probe.in[1][2])
    [] OTHER -> TRUE

-----------------------------------------------------------------------------
Algorithms ==
  {"plans", "result", "selection", "sample", "quartiles", "estimate", "outliers", "contrast",
   "otsu", "sauvola", "despeckle", "packing", "process", "fingerprint"}
ProbeInit == \E a \in Algorithms : probe = [of |-> "start", in |-> a]
ProbeNext ==
  \/ ProbePlans \/ ProbeResults
  \/ ProbeSelection \/ ProbeSample \/ ProbeQuartiles \/ ProbeEstimate \/ ProbeOutliers
  \/ ProbeContrast \/ ProbeOtsu \/ ProbeSauvola
  \/ ProbeDespeckle \/ ProbePacking \/ ProbeProcess \/ ProbeFingerprint
ProbeSpec == ProbeInit /\ [][ProbeNext]_probe
=============================================================================
