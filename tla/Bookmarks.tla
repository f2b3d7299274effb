------------------------------ MODULE Bookmarks ------------------------------
(***************************************************************************)
(* Bookmark candidates (mpdf-core/src/bookmarks): how they are generated   *)
(* from the outline of the package or from the lines of the derived        *)
(* document, and what makes a snapshot of them fit its package.  Their     *)
(* review is BookmarkReviews.                                              *)
(*                                                                         *)
(* The title of a line is the sequence of its words that are not blank.    *)
(* The first word is a number when it is in Numbers, which gives how many  *)
(* parts it has; the last word of a contents line is the label it names.   *)
(* A snapshot is its own digest.                                           *)
(***************************************************************************)
EXTENDS DerivedDocument, BookmarkReviews

Numbers == [n \in {"1", "2", "1.1"} |-> IF n = "1.1" THEN 2 ELSE 1]

-----------------------------------------------------------------------------
(***************************************************************************)
(* Lines and the evidence on them.                                         *)
(***************************************************************************)
LineTitle(line) ==
  LET texts == [i \in DOMAIN line.words |-> line.words[i].text] IN SelectSeq(texts, LAMBDA t : t.bytes > 0)
Intersects(r, b, space) ==
  /\ r.space = space
  /\ r.x * b.den < b.x + b.w /\ (r.x + r.w) * b.den > b.x
  /\ r.y * b.den < b.y + b.h /\ (r.y + r.h) * b.den > b.y
Confidence(line) == Min({100} \cup {line.words[i].confidence : i \in DOMAIN line.words})

\* The positions of the records that lie on a line, in order.
On(records, line, page, Fits(_)) ==
  SetToSortSeq({i \in DOMAIN records : /\ Fits(records[i])
                                       /\ Intersects(records[i].bounds, line.box, page.master.id)}, <)
TitleKinds == {"title", "heading"}
ContentsKinds == {"toc", "contents", "table_of_contents"}

\* repeated: the pages that have the title near their upper or lower edge.
NearEdge(line, page) ==
  LET b == line.box
      height == page.master.h * b.den
  IN  100 * b.y <= 12 * height \/ 100 * (b.y + b.h) >= 88 * height
RepeatedOn(d, title) ==
  {k \in DOMAIN d.pages : \E i \in DOMAIN Lines(d.pages[k]) :
     LET line == Lines(d.pages[k])[i] IN LineTitle(line) = title /\ NearEdge(line, d.pages[k].page)}
IsRunningHead(d, title) ==
  LET pages == Cardinality(RepeatedOn(d, title)) IN pages >= 3 /\ pages * 5 >= Len(d.pages) * 3

LevelOf(title, page) ==
  LET size == Max({0} \cup {page.typography[i].size : i \in DOMAIN page.typography})
  IN  CASE title[1].is \in DOMAIN Numbers -> Numbers[title[1].is]
        [] title[1].is \notin DOMAIN Numbers -> IF size >= 18 THEN 1 ELSE IF size >= 14 THEN 2 ELSE 3

-----------------------------------------------------------------------------
(***************************************************************************)
(* Candidates.                                                             *)
(***************************************************************************)
NewCandidate(id, title, level, target, box, evidence, confidence, status) ==
  [id |-> id, source |-> title, title |-> title, sourceLevel |-> level, level |-> level,
   sourceParent |-> <<>>, parent |-> <<>>, page |-> target.id, index |-> target.index, box |-> box,
   evidence |-> evidence, confidence |-> confidence, status |-> status]
CandidateId(target, title, box) == <<"bookmark", target.index, title, box>>
OutlineId(page, ordinal, target, title) == <<"bookmark", page.id, ordinal, target, title>>
EvidenceRef(kind, page, ref, box) == [kind |-> kind, page |-> page.id, ref |-> ref, box |-> box]

\* Existing outline records, in the order of pages and of their ordinals.
FromOutline(p) ==
  LET target(page, o) ==
        IF o.target = <<>> THEN page ELSE SelectSeq(p.pages, LAMBDA g : g.id = o.target[1])[1]
      of(page) ==
        [i \in DOMAIN page.outline |->
           LET o == page.outline[i]
               t == target(page, o)
           IN  NewCandidate(OutlineId(page, i - 1, t.id, o.title), o.title, o.level, t, <<>>,
                            <<EvidenceRef("outline", page, i, <<>>)>>, 100, "proposed")]
  IN  WithParents(FlattenSeq([k \in DOMAIN p.pages |-> of(p.pages[k])]))

\* A contents line whose last word is the label of one page only.
ContentsEntry(page, n, l, title, targets) ==
  IF Len(title) <= 1 \/ Len(targets) # 1 THEN <<>>
  ELSE <<NewCandidate(CandidateId(targets[1], Front(title), <<>>), Front(title), LevelOf(Front(title), page.page),
           targets[1], <<>>,
           <<EvidenceRef("line", page, l.id, l.box),
             EvidenceRef("region", page, n, page.page.regions[n].bounds),
             EvidenceRef("label", targets[1], targets[1].label[1], <<>>)>>,
           Confidence(l), IF Confidence(l) < 85 THEN "needs_review" ELSE "proposed")>>
ContentsLine(p, page, n, l, title) ==
  ContentsEntry(page, n, l, title, SelectSeq(p.pages, LAMBDA g : title # <<>> /\ g.label = <<Last(title).is>>))
ContentsOn(p, page, n, lines) ==
  FlattenSeq([i \in DOMAIN lines |-> ContentsLine(p, page, n, lines[i], LineTitle(lines[i]))])
Contents(p, page, n) ==
  LET region == page.page.regions[n]
  IN  IF region.kind \notin ContentsKinds THEN <<>>
      ELSE ContentsOn(p, page, n, SelectSeq(Lines(page), LAMBDA l : Intersects(region.bounds, l.box, page.page.master.id)))

\* A line with typography or a title region on it.
FirstRef(seq, kind, page, records) ==
  IF seq = <<>> THEN <<>> ELSE <<EvidenceRef(kind, page, seq[1], records[seq[1]].bounds)>>
Heading(page, source, l, title, evidence, confidence, running) ==
  NewCandidate(CandidateId(source, title, <<l.box>>), title, LevelOf(title, source), source, <<l.box>>,
    <<EvidenceRef("line", page, l.id, l.box)>> \o evidence
      \o (IF source.label = <<>> THEN <<>> ELSE <<EvidenceRef("label", page, source.label[1], <<>>)>>),
    confidence, IF confidence < 70 \/ running THEN "needs_review" ELSE "proposed")
Weakened(confidence, running) == IF running THEN Min({confidence, 40}) ELSE confidence
HeadingOn(page, l, title, evidence, running) ==
  IF title = <<>> \/ evidence = <<>> THEN <<>>
  ELSE <<Heading(page, page.page, l, title, evidence, Weakened(Confidence(l), running), running)>>
HeadingEvidence(page, source, l) ==
  FirstRef(On(source.typography, l, source, LAMBDA e : TRUE), "typography", page, source.typography)
    \o FirstRef(On(source.regions, l, source, LAMBDA r : r.kind \in TitleKinds), "region", page, source.regions)
HeadingOf(d, page, l, title) ==
  HeadingOn(page, l, title, HeadingEvidence(page, page.page, l), IsRunningHead(d, title))
HeadingsOn(d, page, lines) == FlattenSeq([i \in DOMAIN lines |-> HeadingOf(d, page, lines[i], LineTitle(lines[i]))])
Headings(d, page) == HeadingsOn(d, page, Lines(page))

Unique(candidates) ==
  LET firsts == {k \in DOMAIN candidates : \A j \in 1 .. k - 1 : candidates[j].id # candidates[k].id}
      order == SetToSortSeq(firsts, <)
  IN  [i \in DOMAIN order |-> candidates[order[i]]]
FromLines(p, d) ==
  LET contents(page) == FlattenSeq([n \in DOMAIN page.page.regions |-> Contents(p, page, n)])
      found == FlattenSeq([k \in DOMAIN d.pages |-> contents(d.pages[k])])
                 \o FlattenSeq([k \in DOMAIN d.pages |-> Headings(d, d.pages[k])])
  IN  WithParents(Unique(Sorted(found)))

-----------------------------------------------------------------------------
(***************************************************************************)
(* Snapshots.                                                              *)
(***************************************************************************)
\* The record an evidence reference names is there, with the box it had.
Resolves(e, p, d) ==
  \/ /\ e.kind \in {"outline", "typography", "region", "label"}
     /\ \E k \in DOMAIN p.pages :
          LET page == p.pages[k]
              bounded(records) == e.ref \in DOMAIN records /\ records[e.ref].bounds = e.box
          IN  /\ page.id = e.page
              /\ CASE e.kind = "outline" -> e.ref \in DOMAIN page.outline
                   [] e.kind = "label" -> page.label = <<e.ref>>
                   [] e.kind = "typography" -> bounded(page.typography)
                   [] e.kind = "region" -> bounded(page.regions)
  \/ /\ e.kind = "line" /\ d # <<>>
     /\ \E k \in DOMAIN d[1].pages : \E i \in DOMAIN Lines(d[1].pages[k]) :
          LET line == Lines(d[1].pages[k])[i]
          IN  d[1].pages[k].id = e.page /\ line.id = e.ref /\ line.box = e.box
ValidAgainst(s, p, d) ==
  /\ ValidSnapshot(s) /\ Valid(p)
  /\ s.package = p /\ s.derived = d
  /\ Every(s.candidates, LAMBDA c :
        /\ \E k \in DOMAIN p.pages : p.pages[k].id = c.page /\ p.pages[k].index = c.index
        /\ Every(c.evidence, LAMBDA e : Resolves(e, p, d))
        /\ IsChild(c, s.candidates))

\* generate: <<snapshot>>, or <<>>.
Generate(p, d) ==
  LET outline == FromOutline(p)
      candidates == IF outline = <<>> /\ d # <<>> THEN FromLines(p, d[1]) ELSE outline
  IN  IF /\ Valid(p)
         /\ Every(d, LAMBDA e : ValidDerived(e) /\ e.manifest.package.source.digest = p.source.digest)
         /\ Every(outline, LAMBDA c : c.title # <<>>)
      THEN <<[package |-> p, derived |-> d, candidates |-> candidates]>> ELSE <<>>

-----------------------------------------------------------------------------
(***************************************************************************)
(* What bookmarks promise.                                                 *)
(***************************************************************************)
\* The bookmarks of the document become candidates, once each; above each
\* stands the nearest bookmark that leads somewhere, at whatever level of the
\* document.
BookmarksFollowTheOutline(session, parents) ==
  LET leads == {b \in DOMAIN session.marks : session.marks[b].dest # <<>>}
      above(b) == Ancestors(parents, b) \cap leads
      of(candidates, b) == CHOOSE c \in ToSet(candidates) : c.source = <<b>>
  IN  \A p \in ToSet(CreateFromSession(session)) : \A made \in {Generate(p, <<>>)} :
        /\ made # <<>>
        /\ \A s \in ToSet(made) :
             /\ ValidAgainst(s, p, <<>>)
             /\ Len(s.candidates) = Cardinality(leads)
             /\ \A b \in leads :
                  /\ of(s.candidates, b).page = p.pages[session.marks[b].dest[1] + 1].id
                  /\ of(s.candidates, b).parent =
                       IF above(b) = {} THEN <<>> ELSE <<of(s.candidates, Max(above(b))).id>>

\* Candidates of lines fit the package they were generated from, and their
\* view can be shown.  A line a title region covers is never lost, a running
\* head is never proposed, and a contents entry leads to the page its label is
\* printed on.
LineCandidatesFit(p, d) ==
  LET covered(page, l) == \E r \in ToSet(page.page.regions) :
        r.kind \in TitleKinds /\ Intersects(r.bounds, l.box, page.page.master.id)
  IN  Valid(p) /\ ValidDerived(d) =>
        /\ Generate(p, <<d>>) # <<>>
        /\ \A s \in ToSet(Generate(p, <<d>>)) :
             /\ ValidAgainst(s, p, <<d>>) /\ Effective(s, NoReviews(s)) # <<>>
             /\ \A page \in ToSet(d.pages) : \A l \in ToSet(Lines(page)) :
                  covered(page, l) /\ LineTitle(l) # <<>> =>
                    \E c \in ToSet(s.candidates) : c.box = <<l.box>> /\ d.pages[c.index + 1] = page
             /\ \A c \in ToSet(s.candidates) :
                  /\ c.box # <<>> /\ IsRunningHead(d, c.source) => c.status = "needs_review"
                  /\ c.box = <<>> => p.pages[c.index + 1].label = <<c.evidence[3].ref>>
=============================================================================
