------------------------------ MODULE PageMath ------------------------------
(***************************************************************************)
(* Pages as numbers: which pages a selection or a sample names             *)
(* (mpdf-core/src/page_selection.rs, estimation.rs), how large a page is   *)
(* in pixels (page_geometry.rs), what an estimate extrapolates from the    *)
(* sample, and what the reports say of a set of pages (pipeline.rs,        *)
(* analysis.rs).                                                           *)
(*                                                                         *)
(* A quartile is four times its value, an average is a pair of sum and     *)
(* count, bytes per pixel is a fraction.  Where floating point is cut to a *)
(* whole number the result is any that rounding can leave (Truncations).   *)
(* "refused" is an error of the operation.                                 *)
(***************************************************************************)
EXTENDS Integers, Sequences, FiniteSets, SequencesExt, FiniteSetsExt, Functions

Sorted(S) ==
  [k \in 1 .. Cardinality(S) |-> CHOOSE p \in S : Cardinality({q \in S : q < p}) = k - 1]
SortedValues(seq) ==
  [k \in DOMAIN seq |->
     CHOOSE v \in Range(seq) : /\ Cardinality({j \in DOMAIN seq : seq[j] < v}) < k
                               /\ k <= Cardinality({j \in DOMAIN seq : seq[j] <= v})]
Total(seq) == SumFunctionOnSet(seq, DOMAIN seq)
Smaller(a, b) == IF a < b THEN a ELSE b
Larger(a, b) == IF a > b THEN a ELSE b

\* Fractions with a positive denominator.
Ratio(n, d) == [n |-> n, d |-> d]
LessEq(a, b) == a.n * b.d <= b.n * a.d

-----------------------------------------------------------------------------
(***************************************************************************)
(* PageSelection::parse.  A term is "all", or what stands between two      *)
(* commas: empty, a word, a number or a range of numbers.                  *)
(***************************************************************************)
MaxTerms == 10000
MaxRangeWidth == 1000000
Number(n) == [kind |-> "number", from |-> n, to |-> n]
RangeOf(a, b) == [kind |-> "range", from |-> a, to |-> b]
Other(kind) == [kind |-> kind, from |-> 0, to |-> 0]

\* parse_one_based, check_in_range and the checks of a range.
AcceptsTerm(t, pageCount) ==
  /\ t.kind \in {"number", "range"}
  /\ t.from > 0 /\ t.to > 0
  /\ t.to >= t.from /\ t.to - t.from + 1 <= MaxRangeWidth
  /\ t.to <= pageCount

\* No selection names page -1.
Refused == <<-1>>
Parse(terms, pageCount) ==
  LET listed[n \in 0 .. Len(terms)] ==
        IF n = 0 THEN <<>>
        ELSE LET pages == listed[n - 1]
                 t == terms[n]
             IN  IF pages = Refused \/ ~AcceptsTerm(t, pageCount) THEN Refused
                 ELSE pages \o [k \in 1 .. t.to - t.from + 1 |-> t.from + k - 2]
      named == listed[Len(terms)]
  IN  CASE terms = <<Other("all")>> -> [k \in 1 .. pageCount |-> k - 1]
        [] Len(terms) > MaxTerms -> Refused
        [] OTHER -> IF named = Refused THEN Refused ELSE Sorted(Range(named))

\* A selection is refused as a whole or names exactly the pages it lists, once
\* each, in order, and never a page the document does not have.
SelectionIsExact(terms, pageCount) ==
  \A pages \in {Parse(terms, pageCount)} :
    \/ pages = Refused
    \/ terms = <<Other("all")>> /\ pages = [k \in 1 .. pageCount |-> k - 1]
    \/ /\ \A k \in DOMAIN pages : pages[k] \in 0 .. pageCount - 1
       /\ \A j, k \in DOMAIN pages : j < k => pages[j] < pages[k]
       /\ Range(pages) = UNION {terms[k].from - 1 .. terms[k].to - 1 : k \in DOMAIN terms}

-----------------------------------------------------------------------------
\* resolve_sample_count and select_sample_pages.
MaxSampleCount == 32
ResolveSampleCount(requested, pageCount) ==
  IF requested \notin 1 .. MaxSampleCount THEN "refused"
  ELSE Smaller(requested, Larger(pageCount, 1))
SamplePagesFaulty(pageCount, count) ==
  LET n == Larger(1, Smaller(count, pageCount))
  IN  IF n >= pageCount THEN [k \in 1 .. pageCount |-> k - 1]
      ELSE Sorted({((i * pageCount) \div n) : i \in 0 .. n - 1})
SamplePages(pageCount, count) ==
  LET n == Larger(1, Smaller(count, pageCount))
      last == pageCount - 1
  IN  CASE n >= pageCount -> [k \in 1 .. pageCount |-> k - 1]
        [] n = 1 -> <<0>>
        [] OTHER -> Sorted({(i * last + (n - 1) \div 2) \div (n - 1) : i \in 0 .. n - 1})

\* As many pages as asked for or the document has, no fewer; the first and the
\* last among them; and the gaps between them differ by at most one page.
SampleIsEven(pageCount, requested) ==
  \A pages \in {SamplePages(pageCount, ResolveSampleCount(requested, pageCount))} :
    /\ Len(pages) = Smaller(requested, pageCount)
    /\ pages[1] = 0 /\ (Len(pages) > 1 => Last(pages) = pageCount - 1)
    /\ \A g, h \in {pages[k + 1] - pages[k] : k \in 1 .. Len(pages) - 1} : g - h <= 1

-----------------------------------------------------------------------------
\* percentile_of_sorted at q/4, times four: between the two closest ranks.
AtRank4(s, rank) ==
  IF rank % 4 = 0 THEN 4 * s[rank \div 4 + 1]
  ELSE s[rank \div 4 + 1] * (4 - (rank % 4)) + s[rank \div 4 + 2] * (rank % 4)
Quartile4(values, q) == AtRank4(SortedValues(values), q * (Len(values) - 1))

\* median_of_sorted (analysis.rs), times two.
Middle2(s, n) == IF n % 2 = 1 THEN 2 * s[n \div 2 + 1] ELSE s[n \div 2] + s[n \div 2 + 1]
Median2(values) == Middle2(SortedValues(values), Len(values))

\* aggregate_page_durations.
DurationStats(values) ==
  LET s == SortedValues(values)
  IN  [min |-> s[1], max |-> Last(s), mean |-> Ratio(Total(s), Len(s)), median2 |-> Median2(s)]

\* The two medians of the code are one; the quartiles are in order and between
\* the extremes; and a quarter of the values, and no more than three, lie below.
QuartilesDivide(values) ==
  LET below(v4) == Cardinality({k \in DOMAIN values : 4 * values[k] < v4})
      upto(v4) == Cardinality({k \in DOMAIN values : 4 * values[k] <= v4})
  IN  \A q \in {[k \in 1 .. 3 |-> Quartile4(values, k)]}, stats \in {DurationStats(values)} :
        /\ q[2] = 2 * Median2(values)
        /\ 4 * stats.min <= q[1] /\ q[1] <= q[2] /\ q[2] <= q[3] /\ q[3] <= 4 * stats.max
        /\ stats.min * stats.mean.d <= stats.mean.n /\ stats.mean.n <= stats.max * stats.mean.d
        /\ \A k \in 1 .. 3 : 4 * below(q[k]) <= k * Len(values) + 3 /\ 4 * upto(q[k]) >= k * (Len(values) - 1)

-----------------------------------------------------------------------------
(***************************************************************************)
(* PageGeometry::validate, points_to_pixels and pixel_size, of lengths in  *)
(* tenths of a point.                                                      *)
(***************************************************************************)
MaxEdge == 144000
MaxRenderedPixels == 400000000
FromDegrees(d) == IF d % 90 # 0 THEN "refused" ELSE d % 360
PointsToPixels(tenths, dpi) == Larger(1, (2 * tenths * dpi + 720) \div 1440)
Rendered(x, y) == IF x > MaxRenderedPixels \div y THEN Refused ELSE <<x, y>>
PixelSize(w, h, dpi) ==
  IF w \notin 1 .. MaxEdge \/ h \notin 1 .. MaxEdge THEN Refused
  ELSE Rendered(PointsToPixels(w, dpi), PointsToPixels(h, dpi))

-----------------------------------------------------------------------------
(***************************************************************************)
(* measure_container_overhead and estimate_with_session.  A page is its    *)
(* pixels and its encoded bytes; a document of n pages has fixed + n times *)
(* perPage bytes around them.                                              *)
(***************************************************************************)
DocumentBytes(container, encoded) ==
  container.fixed + container.perPage * Len(encoded) + Total(encoded)
Overhead(one, two, reference) ==
  [perPage |-> two - one - reference, fixed |-> one - reference - (two - one - reference)]
MeasuredOverhead(container, reference) ==
  Overhead(DocumentBytes(container, <<reference>>), DocumentBytes(container, <<reference, reference>>), reference)

\* Every page has its own size, so that all bytes per pixel have the common
\* denominator "whole": the product of the sampled pages' sizes.
QuartileMinSamples == 4
Sampled(pages, at) == [k \in DOMAIN at |-> pages[at[k] + 1]]
CommonPixels(sample) ==
  LET product[n \in 0 .. Len(sample)] == IF n = 0 THEN 1 ELSE product[n - 1] * sample[n].pixels
  IN  product[Len(sample)]
BytesPerPixel(sample, whole) == [k \in DOMAIN sample |-> sample[k].bytes * (whole \div sample[k].pixels)]
LowHigh4(values) ==
  IF Len(values) < QuartileMinSamples THEN <<4 * Min(Range(values)), 4 * Max(Range(values))>>
  ELSE <<Quartile4(values, 1), Quartile4(values, 3)>>

\* "as u64" of the f64 product n/d: rounding has moved it, by less than a
\* 1024th below 2^37 bytes, to either side of a whole number that is so near.
Precision == 1024
Truncations(n, d) ==
  Larger(0, (n * Precision - d) \div (d * Precision)) .. (n * Precision + d) \div (d * Precision)
Extrapolated(pixels, bytes, r) == {q + bytes : q \in Truncations(pixels * r.n, r.d)}
Bounded(central, low, high) == [central |-> central, lower |-> Smaller(low, central), upper |-> Larger(high, central)]
EstimateFrom(values, whole, pixels, bytes) ==
  LET bounds == LowHigh4(values)
  IN  {Bounded(central, low, high) :
         central \in Extrapolated(pixels, bytes, Ratio(Total(values), Len(values) * whole)),
         low \in Extrapolated(pixels, bytes, Ratio(bounds[1], 4 * whole)),
         high \in Extrapolated(pixels, bytes, Ratio(bounds[2], 4 * whole))}
EstimateOf(pages, sample, whole, overhead) ==
  EstimateFrom(BytesPerPixel(sample, whole), whole, Total([k \in DOMAIN pages |-> pages[k].pixels]),
               overhead.perPage * Len(pages) + overhead.fixed)
Estimate(pages, sampleCount, container) ==
  LET sample == Sampled(pages, SamplePages(Len(pages), sampleCount))
  IN  EstimateOf(pages, sample, CommonPixels(sample), MeasuredOverhead(container, 1))

\* The bounds enclose the estimate although a skewed sample puts its mean
\* outside its quartiles.  With every page sampled, the least and the greatest
\* bytes per pixel enclose the size of the document, with containers and all,
\* however different its pages; and for pages of one size the estimate is that
\* size.  Both to the byte that truncation may cost.
EstimateIsCalibrated(pages, sampleCount, container) ==
  LET size == DocumentBytes(container, [k \in DOMAIN pages |-> pages[k].bytes])
  IN  \A e \in Estimate(pages, sampleCount, container) :
        /\ e.lower <= e.central /\ e.central <= e.upper
        /\ sampleCount >= Len(pages) /\ Len(pages) < QuartileMinSamples
             => e.lower <= size /\ size <= e.upper + 1
        /\ sampleCount >= Len(pages) /\ (\A k \in DOMAIN pages : pages[k].pixels = pages[1].pixels)
             => e.central \in size - 1 .. size

-----------------------------------------------------------------------------
(***************************************************************************)
(* The report of a conversion: sums, extremes and the outlier flags of     *)
(* classify_page_outliers.  Pages are [bytes, duration, pixels, black]     *)
(* with black out of 100.                                                  *)
(***************************************************************************)
\* max_by_key keeps the last of equals, min_by_key the first.
LargestPage(values) ==
  CHOOSE k \in DOMAIN values : \A j \in DOMAIN values : values[j] < values[k] \/ (values[j] = values[k] /\ j <= k)
SmallestPage(values) ==
  CHOOSE k \in DOMAIN values : \A j \in DOMAIN values : values[j] > values[k] \/ (values[j] = values[k] /\ j >= k)

Field(pages, f) == [k \in DOMAIN pages |-> pages[k][f]]
Warnings(p, bytes, duration, black) ==
  {w \in {"large_output", "slow_processing", "high_ink_ratio", "low_ink_ratio"} :
    CASE w = "large_output" -> bytes > 0 /\ p.bytes > bytes
      [] w = "slow_processing" -> duration > 0 /\ p.duration > duration
      [] w = "high_ink_ratio" -> 2 * p.black > black + 30
      [] w = "low_ink_ratio" -> 2 * p.black < black - 30}

ConversionReport(pages, source, outputBytes) ==
  [saved |-> Larger(source - outputBytes, 0),
   pixels |-> Total(Field(pages, "pixels")),
   encoded |-> Total(Field(pages, "bytes")),
   slowest |-> LargestPage(Field(pages, "duration")),
   largest |-> LargestPage(Field(pages, "bytes")),
   smallest |-> SmallestPage(Field(pages, "bytes")),
   warnings |-> [k \in DOMAIN pages |->
     Warnings(pages[k], Median2(Field(pages, "bytes")), Median2(Field(pages, "duration")),
              Median2(Field(pages, "black")))]]

\* A page is called large or slow against the rest of its document: never half
\* the pages, and if any page then the one the report names as the extreme; no
\* page has both much and little ink.
OutliersAreExtreme(pages) ==
  \A report \in {ConversionReport(pages, 0, 0)} :
    LET with(w) == {k \in DOMAIN pages : w \in report.warnings[k]}
    IN  /\ \A w \in {"large_output", "slow_processing"} : 2 * Cardinality(with(w)) <= Len(pages)
        /\ with("large_output") # {} => report.largest \in with("large_output") /\ report.smallest \notin with("large_output")
        /\ with("slow_processing") # {} => report.slowest \in with("slow_processing")
        /\ with("high_ink_ratio") \cap with("low_ink_ratio") = {}
=============================================================================
