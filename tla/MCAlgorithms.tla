---------------------------- MODULE MCAlgorithms ----------------------------
(***************************************************************************)
(* Small inputs of the algorithms of Algorithms, of the benchmark and, in  *)
(* MCDocuments, of the document algorithms.                                *)
(***************************************************************************)
EXTENDS MCDocuments

Bench == INSTANCE Benchmark

-----------------------------------------------------------------------------
\* Plans that differ in up to two fields, and results of up to three pages.
BasePlan == [origin |-> "o1", provider |-> "x", model |-> "y", source |-> "s1", bytes |-> 10,
             pages |-> 2, retention |-> 0, cost |-> 5, currency |-> "USD"]
OtherValue == [origin |-> "o2", provider |-> "y", model |-> "x", source |-> "s2", bytes |-> 11,
               pages |-> 3, retention |-> 1, cost |-> 6, currency |-> "EUR"]
MCPlanFields ==
  {[f \in DOMAIN BasePlan |-> IF f \in F THEN OtherValue[f] ELSE BasePlan[f]] :
     F \in {G \in SUBSET DOMAIN BasePlan : Cardinality(G) <= 2}}
MCPackages == {[source |-> "s1", pages |-> n] : n \in 1 .. 3}
MCResults ==
  {[source |-> "s1", raw |-> "r", digest |-> <<d>>, pages |-> p] :
     d \in {"r", "other"}, p \in Seqs(0 .. 3, 0, 3)}

-----------------------------------------------------------------------------
Terms == {Math!Number(n) : n \in 0 .. 4} \cup {Math!RangeOf(a, b) : a, b \in 0 .. 4}
           \cup {Math!Other(k) : k \in {"all", "empty", "word"}}
MCSelections == Seqs(Terms, 1, 2) \X (1 .. 3)
MCSamples == (1 .. 40) \X (1 .. 12)
MCQuartileValues == Seqs({1, 2, 5, 9}, 1, 5)
MCContainers == {[fixed |-> 7, perPage |-> 3]}
Sheets == {[pixels |-> x, bytes |-> b] : x \in {2, 3}, b \in {1, 4, 9}}
MCEstimates ==
  Seqs(Sheets, 1, 3) \X (1 .. 3) \cup Seqs(Sheets, 4, 4) \X {4}
    \cup {<<<<[pixels |-> 49, bytes |-> 4]>>, 1>>}   \* 4.0 / 49.0 * 49.0 is less than 4
PageStats == {[bytes |-> b, duration |-> d, pixels |-> 1, black |-> k] :
                b \in {0, 1, 3}, d \in {1, 5}, k \in {0, 20, 50}}
MCPageReports == Seqs(PageStats, 1, 3)

-----------------------------------------------------------------------------
Images(w, h, values) == {Img!Image(w, h, px) : px \in [Img!Pixels(w, h) -> values]}
MasksOf(w, h) == Images(w, h, BOOLEAN)
MCContrasts == -4 .. 4
MCOtsuImages == Images(2, 2, {0, 1, 2, 255}) \cup Images(3, 1, {0, 1, 100, 200})
MCSauvolaImages == Images(2, 3, {0, 3, 7}) \cup Images(4, 1, {0, 3, 7})
MCSauvolaParams == {[window |-> n, kn |-> 1, kd |-> 5, R |-> 4] : n \in {1, 3, 5}}
MCMasks == MasksOf(4, 2) \cup MasksOf(2, 3)
MCPackedMasks == MasksOf(9, 1) \cup MasksOf(8, 1) \cup MasksOf(7, 1) \cup MasksOf(3, 3)
MCSettings ==
  {[dpi |-> 300, contrast |-> q, method |-> m, threshold |-> 90,
    prm |-> [window |-> 3, kn |-> 1, kd |-> 5, R |-> 128], normalize |-> n, radius |-> 1,
    denoise |-> d, despeckle |-> c, limit |-> l] :
     q \in {0, 2}, m \in {"otsu", "manual"}, n \in BOOLEAN, d \in BOOLEAN,
     c \in {"off", "conservative"}, l \in {0, 1, 2}}
OtherSettings ==
  [threshold |-> {20, 200}, contrast |-> {0, 1}, radius |-> {1, 2}, normalize |-> BOOLEAN,
   despeckle |-> {"off", "strong"}, limit |-> {0, 1}]
Neighbours(s) == UNION {{[s EXCEPT ![f] = v] : v \in OtherSettings[f]} : f \in DOMAIN OtherSettings}
MCRivals == UNION {{s} \X Neighbours(s) : s \in MCSettings}
MCPages == Images(3, 1, {0, 100, 255})

-----------------------------------------------------------------------------
ProbeScores == Probe("scores", MasksOf(3, 2) \X MasksOf(3, 2))
Dataset(seq) ==
  [root |-> <<"d">>, schema |-> "1.0", polarity |-> "black_is_0",
   pages |-> [k \in DOMAIN seq |->
     [id |-> k, category |-> seq[k].category, inputPath |-> <<"d", "in">>,
      truthPath |-> <<"d", "gt">>, input |-> seq[k].input,
      truth |-> [w |-> 3, h |-> 1, color |-> "gray", opaque |-> TRUE, bits |-> 8, px |-> seq[k].truth.px],
      rois |-> <<[id |-> 1, tag |-> seq[k].category, x |-> 0, y |-> 0, w |-> 3, h |-> 1]>>]]]
Pairs == {[category |-> c, input |-> i, truth |-> t] :
            c \in {"a", "b"}, i \in Images(3, 1, {0, 200}), t \in Images(3, 1, {0, 255})}
Measured == <<[bytes |-> 3, duration |-> 2], [bytes |-> 3, duration |-> 4]>>
Otsu == [id |-> 1, dpi |-> 300, contrast |-> 0, method |-> "otsu", threshold |-> "unset",
         window |-> "unset", radius |-> "unset", normalize |-> FALSE, denoise |-> FALSE,
         despeckle |-> "unset"]
ProbeReports == Probe("report", {s \in Pairs : s.category = "a"}
                                 \X {s \in Pairs : s.input.px[<<0, 0>>] = 0 /\ s.truth.px[<<2, 0>>] = 255})

\* Scores, regions and the sums of a report agree with the masks they measure.
ScoresAgree ==
  CASE probe.of = "scores" ->
           /\ Bench!PerfectionAgrees(probe.in[1], probe.in[2])
           /\ Bench!RegionsAddUp(probe.in[1], probe.in[2])
      [] probe.of = "report" ->
           \A dataset \in {Dataset(probe.in)}, settings \in {Bench!SettingsOf(Otsu)} :
             /\ Bench!LoadsDataset(dataset)
             /\ Bench!LoadsProfile([schema |-> "1.0", runs |-> <<Otsu>>])
             /\ \A pages \in {Bench!RunPageSet(dataset, settings, Measured)} : Bench!ReportAgreesWithPages(pages)
      [] OTHER -> TRUE

-----------------------------------------------------------------------------
MCInit ==
  \/ ProbeInit
  \/ \E a \in {"scores", "report"} \cup DocumentProbes : probe = [of |-> "start", in |-> a]
MCNext == ProbeNext \/ ProbeScores \/ ProbeReports \/ ProbeDocuments
MCSpec == MCInit /\ [][MCNext]_probe
=============================================================================
