---------------------------- MODULE SearchablePdf ----------------------------
(***************************************************************************)
(* The searchable PDF (mpdf-core/src/searchable_pdf.rs and                 *)
(* bookmarks/transform.rs): where a box of the master image lies on the    *)
(* page of the source, the invisible text added to each page, and the      *)
(* outline of the confirmed bookmarks, whose links PdfOutline has.         *)
(*                                                                         *)
(* A source PDF is [content, nodes, pages]: its page tree, a function from *)
(* nodes to [parent, attributes], 0 being no parent, and the nodes of its  *)
(* pages.  Lengths are in the units of the package; the tolerances of the  *)
(* comparisons are left out.                                               *)
(***************************************************************************)
EXTENDS Bookmarks, PdfOutline

Inside(b, w, h) == b.x >= 0 /\ b.y >= 0 /\ b.x + b.w <= w * b.den /\ b.y + b.h <= h * b.den

\* master_bbox_to_visible_pdf: the inverse of the transform of the page;
\* <<box>>, or <<>>.
Determinant(t) == t.a * t.d - t.b * t.c
InversePoint(t, det, dx, dy) ==
  LET sign == IF det < 0 THEN -1 ELSE 1 IN <<sign * (t.d * dx - t.c * dy), sign * (t.a * dy - t.b * dx)>>
InverseBox(t, det, b) ==
  Enclosing({InversePoint(t, det, c[1] * t.den - t.e * b.den, c[2] * t.den - t.f * b.den) : c \in Corners(b)},
            b.den * (IF det < 0 THEN -det ELSE det))
OnPage(visible, page) == IF Inside(visible, page.source.w, page.source.h) THEN <<visible>> ELSE <<>>
MasterToVisible(page, b) ==
  LET t == page.transforms[1]
  IN  IF Within(b, page) /\ Determinant(t) # 0 THEN OnPage(InverseBox(t, Determinant(t), b), page) ELSE <<>>

\* The visible page is the default page turned clockwise.
VisibleToDefault(rotation, width, height, b) ==
  LET w == width * b.den
      h == height * b.den
  IN  CASE rotation = 0 -> b
        [] rotation = 90 -> [b EXCEPT !.x = h - b.y - b.h, !.y = b.x, !.w = b.h, !.h = b.w]
        [] rotation = 180 -> [b EXCEPT !.x = w - b.x - b.w, !.y = h - b.y - b.h]
        [] rotation = 270 -> [b EXCEPT !.x = b.y, !.y = w - b.x - b.w, !.w = b.h, !.h = b.w]

-----------------------------------------------------------------------------
(***************************************************************************)
(* The page tree of the source.                                            *)
(***************************************************************************)
\* inherited: the value of the nearest node that has one, <<>> when none has,
\* Cycle when the nodes above a page come back to it.
Cycle == <<"cycle", "cycle">>
RECURSIVE Nearest(_, _, _, _)
Nearest(nodes, n, key, seen) ==
  CASE n = 0 -> <<>>
    [] n \in seen -> Cycle
    [] OTHER -> IF key \in DOMAIN nodes[n].attributes THEN <<nodes[n].attributes[key]>>
                ELSE Nearest(nodes, nodes[n].parent, key, seen \cup {n})
Inherited(nodes, n, key) == Nearest(nodes, n, key, {})

\* page_placement: <<placement>>, or <<>>.  A box is [llx, lly, urx, ury].
FitsPage(w, h, rotation, page) ==
  /\ w > 0 /\ h > 0 /\ rotation \in {0, 90, 180, 270} /\ rotation = page.rotation
  /\ <<page.source.w, page.source.h>> = IF rotation \in {90, 270} THEN <<h, w>> ELSE <<w, h>>
Placement(box, rotation, page) ==
  IF FitsPage(box.urx - box.llx, box.ury - box.lly, rotation, page)
  THEN <<[llx |-> box.llx, lly |-> box.lly, w |-> page.source.w, h |-> page.source.h, rotation |-> rotation]>>
  ELSE <<>>
PlacementOf(box, turned, page) ==
  IF box \in {<<>>, Cycle} \/ turned = Cycle THEN <<>>
  ELSE Placement(box[1], IF turned = <<>> THEN 0 ELSE turned[1] % 360, page)
PagePlacement(nodes, n, page) ==
  LET crop == Inherited(nodes, n, "CropBox")
  IN  PlacementOf(IF crop = <<>> THEN Inherited(nodes, n, "MediaBox") ELSE crop,
                  Inherited(nodes, n, "Rotate"), page)

\* placed_bbox: <<box of the default page>>, or <<>>.
Moved(b, placement) == [b EXCEPT !.x = @ + placement.llx * b.den, !.y = @ + placement.lly * b.den]
PlacedBox(page, placement, b) ==
  Then(MasterToVisible(page, b), LAMBDA visible :
    <<Moved(VisibleToDefault(placement.rotation, placement.w, placement.h, visible), placement)>>)

-----------------------------------------------------------------------------
(***************************************************************************)
(* What is added.  A font is the set of the characters it maps; the        *)
(* characters of a text are its words.                                     *)
(***************************************************************************)
MaxScalars == 65534
Font(d) ==
  UNION {{Words(d.pages[k])[i].text.is : i \in DOMAIN Words(d.pages[k])} : k \in DOMAIN d.pages}

\* text_stream: <<the words with their boxes>>, or <<>>.  Without a character
\* that advances, as in a text of combining marks, there is nothing to scale.
Advances(text) == text.bytes > 0 /\ text.is # "marks"
Drawn(placed) ==
  IF Every(placed, LAMBDA w : w[2] # <<>>)
  THEN <<SelectSeq(placed, LAMBDA w : Advances(w[1]) /\ w[2][1].w > 0 /\ w[2][1].h > 0)>> ELSE <<>>
TextStream(words, page, placement) ==
  Drawn([i \in DOMAIN words |-> <<words[i].text, PlacedBox(page, placement, words[i].box)>>])

\* add_page_stream: <<nodes>>, or <<>>.  Resources are functions from names;
\* the contents are what the page itself names, one stream or a list.
HiddenFont == "MPDFHiddenM5"
AddPageStream(nodes, n, stream) ==
  LET found == Inherited(nodes, n, "Resources")
      resources == IF found = <<>> THEN [r \in {} |-> 0] ELSE found[1]
      own == nodes[n].attributes
      contents == IF "Contents" \in DOMAIN own THEN own["Contents"] ELSE <<>>
  IN  IF found = Cycle \/ HiddenFont \in DOMAIN resources THEN <<>>
      ELSE <<[nodes EXCEPT ![n].attributes =
                ("Resources" :> (HiddenFont :> "font" @@ resources))
                  @@ ("Contents" :> Append(contents, stream)) @@ own]>>

\* build_with_cancel, one that nobody cancels: <<PDF>>, or <<>>.
Origin == [x |-> 0, y |-> 0, w |-> 0, h |-> 0, den |-> 1]
Build(source, p, candidates, d) ==
  LET n == Len(p.pages)
      placements == [k \in 1 .. n |-> PagePlacement(source.nodes, source.pages[k], p.pages[k])]
      words(k) == IF d = <<>> THEN <<>> ELSE Words(d[1].pages[k])
      streams == [k \in 1 .. n |-> TextStream(words(k), p.pages[k], placements[k][1])]
      add(nodes, k) == IF nodes = <<>> \/ streams[k][1] = <<>> THEN nodes
                       ELSE AddPageStream(nodes[1], source.pages[k], streams[k][1])
      nodes == FoldLeft(add, <<source.nodes>>, [k \in 1 .. n |-> k])
      confirmed == Confirmed(candidates)
      dest(c) == PlacedBox(p.pages[c.index + 1], placements[c.index + 1][1],
                           IF c.box = <<>> THEN Origin ELSE c.box[1])
  IN  IF /\ Valid(p)
         /\ Every(d, LAMBDA e : ValidDerived(e) /\ e.manifest.package.source.digest = p.source.digest)
         /\ Digest(source.content) = p.source.digest /\ Len(source.pages) = n
         /\ Every(candidates, LAMBDA c : ValidCandidate(c) /\ c.index < n /\ p.pages[c.index + 1].id = c.page)
         /\ \A k \in 1 .. n : placements[k] # <<>>
         /\ Every(d, LAMBDA e : Cardinality(Font(e)) <= MaxScalars)
         /\ \A k \in 1 .. n : streams[k] # <<>>
         /\ nodes # <<>>
         /\ Every(confirmed, LAMBDA c : dest(c) # <<>>)
      THEN <<[nodes |-> nodes[1], pages |-> source.pages, titles |-> [k \in DOMAIN confirmed |-> confirmed[k].title],
              dests |-> [k \in DOMAIN confirmed |-> dest(confirmed[k])[1]],
              outline |-> IF confirmed = <<>> THEN <<>> ELSE <<AddOutline(confirmed)>>]>>
      ELSE <<>>

-----------------------------------------------------------------------------
(***************************************************************************)
(* What the searchable PDF promises.                                       *)
(***************************************************************************)
\* A box of the master image that is on its page is placed where a reader sees
\* it: turning the default page clockwise and scaling the visible page to the
\* master image takes the placed corners back to those of the box.
TurnedBack(placement, c, W, H) ==
  CASE placement.rotation = 0 -> c
    [] placement.rotation = 90 -> <<c[2], W - c[1]>>
    [] placement.rotation = 180 -> <<W - c[1], H - c[2]>>
    [] placement.rotation = 270 -> <<H - c[2], c[1]>>
SeenCorners(placement, placed) ==
  LET aside == placement.rotation \in {90, 270}
      W == placed.den * (IF aside THEN placement.h ELSE placement.w)
      H == placed.den * (IF aside THEN placement.w ELSE placement.h)
  IN  {TurnedBack(placement, <<c[1] - placement.llx * placed.den, c[2] - placement.lly * placed.den>>, W, H) :
         c \in Corners(placed)}
PlacedWhereSeen(page, placement, b) ==
  \A placed \in {PlacedBox(page, placement, b)} :
    /\ placed # <<>> <=> Within(b, page)
    /\ \A box \in ToSet(placed) : \A seen \in {SeenCorners(placement, box)} :
         \A c \in Corners(b) : \E v \in seen :
           /\ v[1] * page.master.w * b.den = c[1] * page.source.w * box.den
           /\ (page.source.h * box.den - v[2]) * page.master.h * b.den = c[2] * page.source.h * box.den

Streams(nodes, page) ==
  LET own == nodes[page].attributes IN IF "Contents" \in DOMAIN own THEN own["Contents"] ELSE <<>>
Resources(nodes, page) ==
  UNION {{<<r, found[r]>> : r \in DOMAIN found} :
           found \in IF Inherited(nodes, page, "Resources") = Cycle THEN {}
                     ELSE ToSet(Inherited(nodes, page, "Resources"))}
PageIsKept(old, nodes, page, words) ==
  LET before == Len(Streams(old, page))
      shown == SelectSeq(words, LAMBDA v : Advances(v.text))
      shows(stream) == [i \in DOMAIN stream |-> stream[i][1]] = [i \in DOMAIN shown |-> shown[i].text]
  IN  /\ \A key \in {"MediaBox", "CropBox", "Rotate"} : Inherited(nodes, page, key) = Inherited(old, page, key)
      /\ IsPrefix(Streams(old, page), Streams(nodes, page))
      /\ Resources(old, page) \subseteq Resources(nodes, page)
      /\ Len(Streams(nodes, page)) = before + (IF shown = <<>> THEN 0 ELSE 1)
      /\ shown # <<>> => shows(Last(Streams(nodes, page)))

\* A page keeps what it had: its boxes and rotation, its streams before the
\* new one, every resource it saw.  The new stream shows the words that have
\* a width, and the outline has the confirmed bookmarks only.
SourceIsKept(source, p, candidates, d) ==
  LET words(k) == IF d = <<>> THEN <<>> ELSE Words(d[1].pages[k])
  IN  \A pdf \in ToSet(Build(source, p, candidates, d)), confirmed \in {Confirmed(candidates)} :
        /\ \A k \in DOMAIN source.pages : PageIsKept(source.nodes, pdf.nodes, source.pages[k], words(k))
        /\ pdf.titles = [k \in DOMAIN confirmed |-> confirmed[k].title]
        /\ confirmed # <<>> => OutlineIsTree(confirmed, pdf.outline[1])

=============================================================================
