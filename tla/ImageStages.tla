---------------------------- MODULE ImageStages ----------------------------
(***************************************************************************)
(* The stages that turn a rendered page into packed black and white        *)
(* (mpdf-core/src/grayscale.rs, preprocessing.rs, binarization/, cleanup/, *)
(* bilevel.rs, ccitt.rs and their order in image_pipeline.rs).             *)
(*                                                                         *)
(* An image is [w, h, px] with px a function of the pixels <<x, y>>; a     *)
(* mask has px boolean, TRUE for ink.  Floating point is exact arithmetic  *)
(* on fractions, but for Otsu's variances.  Reading a PDF page and the     *)
(* Huffman codes of Group 4 are library code; a Group 4 stream is the      *)
(* sequence of its rows.                                                   *)
(***************************************************************************)
EXTENDS Integers, Sequences, FiniteSets, Functions

White == 255
Grays == 0 .. White
Pixels(w, h) == (0 .. w - 1) \X (0 .. h - 1)
Image(w, h, px) == [w |-> w, h |-> h, px |-> px]
Clamp(v, low, high) == IF v < low THEN low ELSE IF v > high THEN high ELSE v
Least(a, b) == IF a < b THEN a ELSE b
Most(a, b) == IF a > b THEN a ELSE b

\* f64::round: half away from zero.
Round(num, den) ==
  IF num >= 0 THEN (2 * num + den) \div (2 * den) ELSE -((2 * (-num) + den) \div (2 * den))

-----------------------------------------------------------------------------
\* adjust_contrast with contrast q/4, for 8-bit values around 128.
Stretch(q, p) ==
  IF q = 0 THEN p
  ELSE Clamp(128 + Round(259 * (q + 4) * (p - 128), 1036 - 255 * q), 0, White)
AdjustContrast(image, q) == [image EXCEPT !.px = [at \in DOMAIN @ |-> Stretch(q, @[at])]]

\* Contrast is a stretch: it maps no darker pixel above a lighter one, and
\* clamps where the formula leaves the range of a byte.
ContrastKeepsOrder(q) == \A p \in 0 .. White - 1 : Stretch(q, p) <= Stretch(q, p + 1)

-----------------------------------------------------------------------------
\* integral_images of the values v of the pixels: entry <<x, y>> sums those left
\* of x and above y, the row's own sum on top of the entry above.
Integral(w, h, v) ==
  LET row[p \in (0 .. w) \X (0 .. h - 1)] ==
        IF p[1] = 0 THEN 0 ELSE row[<<p[1] - 1, p[2]>>] + v[<<p[1] - 1, p[2]>>]
      table[p \in (0 .. w) \X (0 .. h)] ==
        IF p[1] = 0 \/ p[2] = 0 THEN 0 ELSE table[<<p[1], p[2] - 1>>] + row[<<p[1], p[2] - 1>>]
  IN  table

\* region_sum, over the inclusive rectangle.
RegionSum(table, x0, y0, x1, y1) ==
  table[<<x1 + 1, y1 + 1>>] + table[<<x0, y0>>] - table[<<x1 + 1, y0>>] - table[<<x0, y1 + 1>>]

\* The window around a pixel, clipped at the border.
WindowFaulty(image, x, y, r) ==
  [x0 |-> Most(x - r, 0), y0 |-> Most(y - r, 0),
   x1 |-> Least(x + r, image.w - 1), y1 |-> Least(y + r, image.w - 1)]
Window(image, x, y, r) ==
  [x0 |-> Most(x - r, 0), y0 |-> Most(y - r, 0),
   x1 |-> Least(x + r, image.w - 1), y1 |-> Least(y + r, image.h - 1)]
Count(win) == (win.x1 - win.x0 + 1) * (win.y1 - win.y0 + 1)

\* box_filter and normalize_background.
Background(image, r) ==
  LET table == Integral(image.w, image.h, image.px)
      mean(x, y) == LET win == Window(image, x, y, r)
                    IN  RegionSum(table, win.x0, win.y0, win.x1, win.y1) \div Count(win)
  IN  [at \in DOMAIN image.px |-> mean(at[1], at[2])]
NormalizeBackground(image, r) ==
  LET background == Background(image, r)
  IN  IF r = 0 THEN image
      ELSE [image EXCEPT !.px = [at \in DOMAIN @ |-> Clamp(@[at] - background[at] + White, 0, White)]]

\* median_denoise_3x3; the border is left as it is.
Around(x, y) == {<<x + dx, y + dy>> : dx \in {-1, 0, 1}, dy \in {-1, 0, 1}}
Median(image, at) ==
  CHOOSE v \in Grays :
    /\ Cardinality({p \in Around(at[1], at[2]) : image.px[p] < v}) <= 4
    /\ Cardinality({p \in Around(at[1], at[2]) : image.px[p] <= v}) >= 5
Denoise(image) ==
  [image EXCEPT !.px = [at \in DOMAIN @ |->
     IF at[1] \in 1 .. image.w - 2 /\ at[2] \in 1 .. image.h - 2 THEN Median(image, at) ELSE @[at]]]

ApplyPreprocessing(image, settings) ==
  LET flat == IF settings.normalize THEN NormalizeBackground(image, settings.radius) ELSE image
  IN  IF settings.denoise THEN Denoise(flat) ELSE flat

-----------------------------------------------------------------------------
\* binarize_manual.
Manual(image, t) == [image EXCEPT !.px = [at \in DOMAIN @ |-> @[at] <= t]]

(***************************************************************************)
(* otsu_threshold: one pass over the histogram with running weights and    *)
(* sums.  The variance wb wf (sb/wb - sf/wf)^2 is the fraction             *)
(* (sb wf - sf wb)^2 / (wb wf), counted in FloatParts because the f64 of   *)
(* shade t is off by rounding[t] of them: which of two thresholds with     *)
(* nearly one variance is the greater, rounding decides.  (Dark and light  *)
(* means are at least 1 apart, so a float is off by less than a part in    *)
(* 2^40; the coarser parts admit more and keep TLC's integers small.)  A   *)
(* bin without pixels changes neither weight nor sum, hence no variance,   *)
(* and is passed over; -1 is before all.                                   *)
(***************************************************************************)
FloatParts == 256
Rounded(variance, error) == [variance EXCEPT !.num = @ * (FloatParts + error)]
Greater(a, b) == a.num * b.den > b.num * a.den
Variance(wb, sb, total, sum) ==
  LET d == sb * (total - wb) - (sum - sb) * wb
  IN  [num |-> d * d, den |-> wb * (total - wb)]
Greatest(S) == CHOOSE t \in S : \A u \in S : u <= t
Shades(image) == {image.px[at] : at \in DOMAIN image.px}
Roundings(image) == [Shades(image) -> -1 .. 1]
OtsuThreshold(image, rounding) ==
  LET count(t) == Cardinality({at \in DOMAIN image.px : image.px[at] = t})
      total == Cardinality(DOMAIN image.px)
      sum == SumFunctionOnSet(image.px, DOMAIN image.px)
      bins == {-1} \cup Shades(image)
      pass[t \in bins] ==
        IF t = -1 THEN [wb |-> 0, sb |-> 0, best |-> [num |-> 0, den |-> 1], t |-> 0]
        ELSE LET s == pass[Greatest({u \in bins : u < t})]
                 wb == s.wb + count(t)
                 sb == s.sb + t * count(t)
                 here == Rounded(Variance(wb, sb, total, sum), rounding[t])
                 better == wb # total /\ Greater(here, s.best)
             IN  [wb |-> wb, sb |-> sb, best |-> IF better THEN here ELSE s.best,
                  t |-> IF better THEN t ELSE s.t]
  IN  pass[Greatest(bins)].t

\* The floats of one image are the same at every call; nothing says which.
Otsu(image) == Manual(image, OtsuThreshold(image, CHOOSE r \in Roundings(image) : TRUE))

\* The variance between the classes {p <= t} and {p > t}, from its definition.
Between(image, t) ==
  LET dark == {at \in DOMAIN image.px : image.px[at] <= t}
      light == DOMAIN image.px \ dark
      sum(S) == SumFunctionOnSet(image.px, S)
      d == sum(dark) * Cardinality(light) - sum(light) * Cardinality(dark)
  IN  IF dark = {} \/ light = {} THEN [num |-> 0, den |-> 1]
      ELSE [num |-> d * d, den |-> Cardinality(dark) * Cardinality(light)]

\* However the floats are rounded, no threshold separates the page better than
\* the one returned by more than the rounding, and unless that is 0 it is a
\* shade of the page with lighter pixels: the lowest of those that divide the
\* page alike, and never the one shade of a blank page.
OtsuIsBest(image) ==
  \A t \in {OtsuThreshold(image, rounding) : rounding \in Roundings(image)} :
    /\ \A u \in Grays : ~Greater(Rounded(Between(image, u), -1), Rounded(Between(image, t), 1))
    /\ t # 0 => t \in Shades(image) /\ Between(image, t).num > 0

(***************************************************************************)
(* binarize_sauvola with k = kn/kd and range R: ink where p is at most     *)
(* m (1 + k (s/R - 1)).  With the window's sum S, sum of squares Q and     *)
(* size n, s^2 n^2 is Q n - S^2 and the root is compared by squaring.      *)
(***************************************************************************)
IsInk(p, S, Q, n, prm) ==
  LET excess == (p * n * prm.kd - S * (prm.kd - prm.kn)) * n * prm.R
      spread == Q * n - S * S
  IN  excess <= 0 \/ excess * excess <= S * S * prm.kn * prm.kn * spread
Squares(image) == [at \in DOMAIN image.px |-> image.px[at] * image.px[at]]
Sauvola(image, prm) ==
  LET sums == Integral(image.w, image.h, image.px)
      squares == Integral(image.w, image.h, Squares(image))
      ink(at) == LET win == Window(image, at[1], at[2], prm.window \div 2)
                     S == RegionSum(sums, win.x0, win.y0, win.x1, win.y1)
                     Q == RegionSum(squares, win.x0, win.y0, win.x1, win.y1)
                 IN  IsInk(image.px[at], S, Q, Count(win), prm)
  IN  [image EXCEPT !.px = [at \in DOMAIN @ |-> ink(at)]]

\* The integral images change nothing: the ink is where a direct computation
\* over every pixel's neighbourhood puts it, at the borders too.
SauvolaMatchesReference(image, prm) ==
  LET near(at) == {q \in DOMAIN image.px :
                     /\ at[1] - q[1] \in -(prm.window \div 2) .. prm.window \div 2
                     /\ at[2] - q[2] \in -(prm.window \div 2) .. prm.window \div 2}
      S(at) == SumFunctionOnSet(image.px, near(at))
      Q(at) == SumFunctionOnSet(Squares(image), near(at))
  IN  \A at \in DOMAIN image.px :
        Sauvola(image, prm).px[at]
          = IsInk(image.px[at], S(at), Q(at), Cardinality(near(at)), prm)

-----------------------------------------------------------------------------
\* remove_small_components: a scan that flood-fills every new component.
NeighboursFaulty(at) == Around(at[1], at[2])
Neighbours(at) ==
  {<<at[1] - 1, at[2]>>, <<at[1] + 1, at[2]>>, <<at[1], at[2] - 1>>, <<at[1], at[2] + 1>>}
Ink(mask) == {at \in DOMAIN mask.px : mask.px[at]}

\* The pixels visited once the stack is empty.  Which of its pixels is on top
\* makes no difference to that, and a pixel is visited when it is pushed: the
\* stack is a set.
Fill(mask, visited, stack) ==
  LET fill[s \in (SUBSET Ink(mask)) \X (SUBSET Ink(mask))] ==
        IF s[2] = {} THEN s[1]
        ELSE LET top == CHOOSE at \in s[2] : TRUE
                 new == (Neighbours(top) \cap Ink(mask)) \ s[1]
             IN  fill[<<s[1] \cup new, (s[2] \ {top}) \cup new>>]
  IN  fill[<<visited, stack>>]
RemoveSmall(mask, limit) ==
  LET scan[k \in 0 .. mask.w * mask.h] ==
        IF k = 0 THEN [visited |-> {}, out |-> Ink(mask)]
        ELSE LET s == scan[k - 1]
                 at == <<(k - 1) % mask.w, (k - 1) \div mask.w>>
                 all == Fill(mask, s.visited \cup {at}, {at})
                 component == all \ s.visited
             IN  IF at \in s.visited \/ at \notin Ink(mask) THEN s
                 ELSE [visited |-> all,
                       out |-> IF Cardinality(component) <= limit THEN s.out \ component ELSE s.out]
      kept == scan[mask.w * mask.h].out
  IN  [mask EXCEPT !.px = [at \in DOMAIN @ |-> at \in kept]]

\* despeckle: 0 stands for no override of the level's limit.
Despeckle(mask, level, override) ==
  CASE level = "off" -> mask
    [] level = "conservative" -> RemoveSmall(mask, IF override = 0 THEN 4 ELSE override)
    [] level = "strong" -> RemoveSmall(mask, IF override = 0 THEN 12 ELSE override)

\* The 4-connected component of an ink pixel, as the least closed set.
Touches(q, r) ==
  \/ q[1] = r[1] /\ q[2] - r[2] \in {-1, 1}
  \/ q[2] = r[2] /\ q[1] - r[1] \in {-1, 1}
Closed(mask, S) == \A q \in S, r \in Ink(mask) : Touches(q, r) => r \in S
Component(mask, at) ==
  CHOOSE S \in SUBSET Ink(mask) :
    at \in S /\ Closed(mask, S) /\ \A T \in SUBSET S : at \in T /\ Closed(mask, T) => T = S

\* Exactly the components at or below the limit disappear: no other pixel
\* changes, and diagonal contact does not save or condemn a mark.
DespeckleRemovesSmallComponents(mask, limit) ==
  \A at \in DOMAIN mask.px :
    RemoveSmall(mask, limit).px[at]
      <=> mask.px[at] /\ Cardinality(Component(mask, at)) > limit

-----------------------------------------------------------------------------
\* BilevelImage::from_mask: rows of whole bytes, most significant bit first.
Stride(w) == (w + 7) \div 8
BitWeight(x) == <<128, 64, 32, 16, 8, 4, 2, 1>>[(x % 8) + 1]
Pack(mask) ==
  LET stride == Stride(mask.w)
      black(k) == {x \in 0 .. mask.w - 1 : x \div 8 = k % stride /\ mask.px[<<x, k \div stride>>]}
      weights == [x \in 0 .. mask.w - 1 |-> BitWeight(x)]
  IN  [w |-> mask.w, h |-> mask.h, stride |-> stride,
       data |-> [k \in 1 .. stride * mask.h |-> SumFunctionOnSet(weights, black(k - 1))]]

\* get_pixel and to_mask.
Bit(packed, x, y) ==
  (packed.data[y * packed.stride + x \div 8 + 1] \div BitWeight(x)) % 2 = 1
Unpack(packed) ==
  Image(packed.w, packed.h, [at \in Pixels(packed.w, packed.h) |-> Bit(packed, at[1], at[2])])

\* encode_g4 hands the encoder one row after the other; decode_g4 ignores
\* rows beyond the height and refuses a row beyond the width.
Encode(packed) ==
  [y \in 1 .. packed.h |-> [x \in 1 .. packed.w |-> Bit(packed, x - 1, y - 1)]]
Decode(rows, w, h) ==
  LET used == SubSeq(rows, 1, Least(Len(rows), h))
      px == [at \in Pixels(w, h) |->
               /\ at[2] < Len(used) /\ at[1] < Len(used[at[2] + 1])
               /\ used[at[2] + 1][at[1] + 1]]
  IN  IF \E k \in DOMAIN used : Len(used[k]) > w THEN "malformed" ELSE Pack(Image(w, h, px))

\* What the output PDF holds decodes to the page that was binarized, whatever
\* its width: packing, encoding and back lose and invent no pixel.
PackingIsLossless(mask) ==
  LET packed == Pack(mask)
  IN  Decode(Encode(packed), mask.w, mask.h) = packed /\ Unpack(packed) = mask

-----------------------------------------------------------------------------
\* process_rendered_page, after ProcessingSettings::validate.
ValidSettings(s) ==
  /\ s.dpi \in {300, 400, 600} /\ s.contrast \in -4 .. 4
  /\ s.method = "sauvola" => s.prm.window > 0 /\ s.prm.window % 2 = 1 /\ s.prm.R > 0
Binarize(image, s) ==
  CASE s.method = "otsu" -> Otsu(image)
    [] s.method = "manual" -> Manual(image, s.threshold)
    [] s.method = "sauvola" -> Sauvola(image, s.prm)
ProcessPage(image, s) ==
  LET gray == ApplyPreprocessing(AdjustContrast(image, s.contrast), s)
      mask == Despeckle(Binarize(gray, s), s.despeckle, s.limit)
  IN  IF ~ValidSettings(s) THEN "refused" ELSE Pack(mask)

\* With cleanup on, no mark at or below the limit reaches the packed page,
\* whichever stages ran before.
NoSpeckleIsPacked(image, s) ==
  ValidSettings(s) /\ s.despeckle # "off" =>
    LET mask == Unpack(ProcessPage(image, s))
        limit == IF s.limit # 0 THEN s.limit ELSE IF s.despeckle = "strong" THEN 12 ELSE 4
    IN  \A at \in DOMAIN mask.px : mask.px[at] => Cardinality(Component(mask, at)) > limit

\* settings_fingerprint.
Fingerprint(s) ==
  LET method == CASE s.method = "otsu" -> <<"otsu">>
                  [] s.method = "manual" -> <<"manual", s.threshold>>
                  [] s.method = "sauvola" -> <<"sauvola", s.prm>>
  IN  <<s.dpi, method, s.contrast, s.denoise, s.normalize, s.radius, s.despeckle, s.limit>>

\* An estimate of one fingerprint is about every conversion that has it: equal
\* fingerprints mean equal pages.  The converse does not hold.
FingerprintDecidesPage(image, s, t) ==
  Fingerprint(s) = Fingerprint(t) => ProcessPage(image, s) = ProcessPage(image, t)
=============================================================================
