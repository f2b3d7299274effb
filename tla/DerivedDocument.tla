--------------------------- MODULE DerivedDocument ---------------------------
(***************************************************************************)
(* The derived document (mpdf-core/src/derived): words, lines and chunks   *)
(* from a package and its OCR records, the overlay of text revisions, the  *)
(* review queue, the exports, and the bundle that holds all of them.       *)
(*                                                                         *)
(* Identifiers and digests are what they are computed from; a structural   *)
(* path is the page and the positions on it.  An export is the sequence of *)
(* its pages with the words it shows; tags and escapes are left out.       *)
(***************************************************************************)
EXTENDS DocumentPackage

MaxChunks == 100000
MaxRevisions == 100000
MaxRevisionBytes == 1048576

-----------------------------------------------------------------------------
(***************************************************************************)
(* Geometry: boxes of the OCR image and bounds of either page space, in    *)
(* units of 1/den master pixels.                                           *)
(***************************************************************************)
Scale(b, evidence, page) ==
  [x |-> b.x * page.master.w * evidence.h, w |-> b.w * page.master.w * evidence.h,
   y |-> b.y * page.master.h * evidence.w, h |-> b.h * page.master.h * evidence.w,
   den |-> b.den * evidence.w * evidence.h]
Corners(b) == {<<b.x + i * b.w, b.y + j * b.h>> : i \in {0, 1}, j \in {0, 1}}
Hull(xs, ys, den) ==
  [x |-> Min(xs), y |-> Min(ys), w |-> Max(xs) - Min(xs), h |-> Max(ys) - Min(ys), den |-> den]
Enclosing(points, den) == Hull({c[1] : c \in points}, {c[2] : c \in points}, den)
RectMaster(r, page) ==
  LET t == page.transforms[1]
  IN  IF r.space = page.master.id
      THEN [x |-> r.x, y |-> r.y, w |-> r.w, h |-> r.h, den |-> 1]
      ELSE Enclosing({Apply(t, c[1], c[2]) : c \in Corners(r)}, t.den)
Within(b, page) ==
  b.x >= 0 /\ b.y >= 0 /\ b.w >= 0 /\ b.h >= 0
    /\ b.x + b.w <= page.master.w * b.den /\ b.y + b.h <= page.master.h * b.den

-----------------------------------------------------------------------------
(***************************************************************************)
(* from_package: <<document>>, or <<>>.                                    *)
(***************************************************************************)
DeriveWord(v, path, evidence, page) ==
  [id |-> <<"word", path, v.box, v.text>>, box |-> Scale(v.box, evidence, page), path |-> path,
   source |-> v.text, sourceNormalized |-> v.normalized, text |-> v.text, normalized |-> v.normalized,
   confidence |-> v.confidence, order |-> v.order]
DeriveLine(l, path, evidence, page) ==
  [id |-> <<"line", path, l.box>>, box |-> Scale(l.box, evidence, page), path |-> path, order |-> l.order,
   words |-> [i \in DOMAIN l.words |-> DeriveWord(l.words[i], Append(path, i - 1), evidence, page)]]
DeriveBlock(b, path, evidence, page) ==
  [id |-> <<"block", path, b.box>>, box |-> Scale(b.box, evidence, page), path |-> path, order |-> b.order,
   lines |-> [i \in DOMAIN b.lines |-> DeriveLine(b.lines[i], Append(path, i - 1), evidence, page)]]
DeriveRegion(r, i, page) ==
  [id |-> <<"region", page.id, i, r.kind>>, box |-> RectMaster(r.bounds, page), kind |-> r.kind,
   bounds |-> r.bounds]

DeriveFrom(page, found) ==
  LET evidence == found[1]
  IN  [id |-> page.id, index |-> page.index, page |-> page,
       evidence |-> found,
       blocks |-> IF found = <<>> THEN <<>>
                  ELSE [i \in DOMAIN evidence.blocks |->
                          DeriveBlock(evidence.blocks[i], <<page.index, i - 1>>, evidence, page)],
       regions |-> [i \in DOMAIN page.regions |-> DeriveRegion(page.regions[i], i - 1, page)]]
DerivePage(page, run) == DeriveFrom(page, SelectSeq(run.pages, LAMBDA e : e.index = page.index))

\* Lines in the order of their paths; the text of a line is its words joined.
Lines(page) == FlattenSeq([k \in DOMAIN page.blocks |-> page.blocks[k].lines])
Words(page) == LET lines == Lines(page) IN FlattenSeq([k \in DOMAIN lines |-> lines[k].words])
NormalizedWords(line) == [i \in DOMAIN line.words |-> line.words[i].normalized]
IsEmpty(texts) == Len(texts) <= 1 /\ Every(texts, LAMBDA t : t.bytes = 0)
ChunkOf(line, page) ==
  [id |-> <<"chunk", page.id, line.id, NormalizedWords(line)>>, page |-> page.id, index |-> page.index,
   path |-> Append(line.path, "chunk"), words |-> [i \in DOMAIN line.words |-> line.words[i].id],
   text |-> NormalizedWords(line), order |-> line.order]
ChunksOf(page, lines) == [k \in DOMAIN lines |-> ChunkOf(lines[k], page)]
Chunks(pages) ==
  LET written(page) == SelectSeq(Lines(page), LAMBDA l : ~IsEmpty(NormalizedWords(l)))
  IN  FlattenSeq([k \in DOMAIN pages |-> ChunksOf(pages[k], written(pages[k]))])

NoRun == [pages |-> <<>>]
DocumentOf(p, ocr, pages) ==
  [manifest |-> [document |-> p.manifest.document, package |-> p, ocr |-> ocr,
                 revisions |-> <<>>, exporter |-> "0.1"],
   pages |-> pages, chunks |-> Chunks(pages)]
FromPackage(p, ocr) ==
  LET run == IF ocr = <<>> THEN NoRun ELSE ocr[1]
  IN  IF Valid(p) /\ Every(ocr, LAMBDA r : ValidRun(r) /\ CoversPages(r, p.manifest.pageCount))
      THEN <<DocumentOf(p, ocr, [k \in DOMAIN p.pages |-> DerivePage(p.pages[k], run)])>>
      ELSE <<>>

\* DerivedDocument::validate.
IdsOf(parts) == [i \in DOMAIN parts |-> parts[i].id]
ValidParts(page, words) ==
  /\ Every(<<page.blocks, Lines(page), words, page.regions>>,
           LAMBDA parts : Every(parts, LAMBDA e : Within(e.box, page.page)))
  /\ Distinct(IdsOf(page.regions))
  /\ Every(words, LAMBDA v : ValidConfidence(v.confidence))
ValidChunks(chunks, ids) ==
  /\ Distinct(ids) /\ Distinct(IdsOf(chunks))
  /\ Every(chunks, LAMBDA c : c.words # <<>> /\ ToSet(c.words) \subseteq ToSet(ids))
ValidDerived(d) ==
  /\ d.pages # <<>> /\ Len(d.chunks) <= MaxChunks
  /\ Every(d.pages, LAMBDA page : ValidParts(page, Words(page)))
  /\ ValidChunks(d.chunks, IdsOf(FlattenSeq([k \in DOMAIN d.pages |-> Words(d.pages[k])])))

-----------------------------------------------------------------------------
(***************************************************************************)
(* Revisions.  base is the evidence of the page the text was seen on.      *)
(***************************************************************************)
RevisionId(target, base, kind, text) == <<"revision", target, base, kind, text>>
ValidStore(revisions) ==
  /\ Len(revisions) <= MaxRevisions
  /\ Distinct([k \in DOMAIN revisions |-> revisions[k].id])
  /\ Every(revisions, LAMBDA r : r.text.bytes <= MaxRevisionBytes)

\* The page of the word a revision names.
PagesOf(d, target) ==
  {k \in DOMAIN d.pages : \E i \in DOMAIN Words(d.pages[k]) : Words(d.pages[k])[i].id = target}
Revise(page, r) ==
  LET word(v) == IF v.id = r.target THEN [v EXCEPT !.text = r.text, !.normalized = Normalized(r.text)] ELSE v
      line(l) == [l EXCEPT !.words = [i \in DOMAIN @ |-> word(@[i])]]
      block(b) == [b EXCEPT !.lines = [i \in DOMAIN @ |-> line(@[i])]]
  IN  [page EXCEPT !.blocks = [i \in DOMAIN @ |-> block(@[i])]]

\* apply_revisions: every record in turn, then the chunks are made anew.
Overlay(pages, revisions) ==
  FoldLeft(LAMBDA acc, r : IF r.kind = "human" THEN [k \in DOMAIN acc |-> Revise(acc[k], r)] ELSE acc,
           pages, revisions)
AcceptsRevision(d, r) ==
  /\ PagesOf(d, r.target) # {}
  /\ \A k \in PagesOf(d, r.target) : d.pages[k].evidence = r.base
Overlaid(d, pages, revisions) ==
  [d EXCEPT !.pages = pages, !.chunks = Chunks(pages), !.manifest.revisions = <<revisions>>]
ApplyRevisionsFaulty(d, revisions) ==
  IF ValidStore(revisions) /\ Every(revisions, LAMBDA r : AcceptsRevision(d, r))
  THEN <<[d EXCEPT !.pages = Overlay(@, revisions), !.manifest.revisions = <<revisions>>]>> ELSE <<>>
ApplyRevisions(d, revisions) ==
  IF ValidStore(revisions) /\ Every(revisions, LAMBDA r : AcceptsRevision(d, r))
  THEN <<Overlaid(d, Overlay(d.pages, revisions), revisions)>> ELSE <<>>

\* load_revisions: <<records>>; save_revisions.
RevisionsPath == <<"derived", "revisions">>
DerivedDir == <<"derived">>
StoreBytes(revisions) == Sum(revisions, LAMBDA r : r.text.bytes)
LoadRevisions(files) ==
  IF Has(files, DerivedDir) /\ ~IsA(files, DerivedDir, "dir") THEN <<>>
  ELSE IF ~Has(files, RevisionsPath) THEN <<<<>>>>
  ELSE IF /\ IsA(files, RevisionsPath, "file")
          /\ StoreBytes(files[RevisionsPath].body) <= 2 * MaxRevisionBytes
          /\ ValidStore(files[RevisionsPath].body)
       THEN <<files[RevisionsPath].body>> ELSE <<>>
SaveRevisions(files, revisions) ==
  IF /\ ValidStore(revisions)
     /\ Has(files, DerivedDir) => IsA(files, DerivedDir, "dir")
     /\ Has(files, RevisionsPath) => files[RevisionsPath].kind \in {"file", "junk"}
  THEN RevisionsPath :> Entry("file", revisions) @@ DerivedDir :> Dir @@ files
  ELSE RefusedFiles

\* load_document of the commands: the OCR directory, when there, is whole.
Then(option, next(_)) == IF option = <<>> THEN <<>> ELSE next(option[1])
LoadOcr(files) == IF Has(files, OcrDir) THEN Then(ReadRecords(files), LAMBDA run : <<<<run>>>>) ELSE <<<<>>>>
LoadDocument(files) ==
  Then(ReadFrom(files), LAMBDA p :
    Then(LoadOcr(files), LAMBDA ocr :
      Then(FromPackage(p, ocr), LAMBDA d :
        Then(LoadRevisions(files), LAMBDA revisions : ApplyRevisions(d, revisions)))))

\* revision_add, add_review_revision.
AddRevision(files, target, base, kind, text) ==
  LET record == [id |-> RevisionId(target, base, kind, text), target |-> target, base |-> base,
                 kind |-> kind, text |-> text]
      longer == Append(LoadRevisions(files)[1], record)
  IN  IF \E d \in ToSet(LoadDocument(files)) : ApplyRevisions(d, longer) # <<>>
      THEN SaveRevisions(files, longer) ELSE RefusedFiles

-----------------------------------------------------------------------------
(***************************************************************************)
(* review_queue: what a person should look at, as a set.                   *)
(***************************************************************************)
WordIssues(page, line, i) ==
  LET v == line.words[i]
      issue(kind) == [kind |-> kind, target |-> v.id, page |-> page.id, base |-> page.evidence]
  IN  {issue(kind) : kind \in
        {k \in {"reading_order_gap", "low_confidence", "unicode_normalization"} :
           \/ k = "reading_order_gap" /\ v.order # i - 1
           \/ k = "low_confidence" /\ v.confidence < 75
           \/ k = "unicode_normalization" /\ v.source # v.sourceNormalized}}
PageIssues(page) ==
  LET lines == Lines(page)
      empty == [kind |-> "empty_region", target |-> page.id, page |-> page.id, base |-> page.evidence]
  IN  (IF page.blocks = <<>> THEN {empty} ELSE {})
        \cup UNION {UNION {WordIssues(page, lines[k], i) : i \in DOMAIN lines[k].words} : k \in DOMAIN lines}
ReviewQueue(d) == IF ValidDerived(d) THEN UNION {PageIssues(d.pages[k]) : k \in DOMAIN d.pages} ELSE {}

-----------------------------------------------------------------------------
(***************************************************************************)
(* Exports: [id of the page, the texts of each line] for every page.       *)
(***************************************************************************)
Formats == {"json", "jsonl", "md", "txt", "html", "hocr.html", "alto.xml"}
Shown(d, line(_), keep(_)) ==
  [k \in DOMAIN d.pages |->
     LET lines == SelectSeq(Lines(d.pages[k]), keep)
     IN  [page |-> d.pages[k].id, lines |-> [i \in DOMAIN lines |-> line(lines[i])]]]
Markdown(d) == Shown(d, NormalizedWords, LAMBDA l : ~IsEmpty(NormalizedWords(l)))
PlainText(d) ==
  [k \in DOMAIN d.pages |->
     LET of == SelectSeq(d.chunks, LAMBDA c : c.page = d.pages[k].id)
     IN  [page |-> d.pages[k].id, lines |-> [i \in DOMAIN of |-> of[i].text]]]
Tagged(d) == Shown(d, LAMBDA l : [i \in DOMAIN l.words |-> l.words[i].text], LAMBDA l : TRUE)
Export(d, format) ==
  CASE format = "json" -> <<d>>
    [] format = "jsonl" -> d.chunks
    [] format = "md" -> Markdown(d)
    [] format = "txt" -> PlainText(d)
    [] format \in {"html", "hocr.html", "alto.xml"} -> Tagged(d)

\* write_all_exports: the files of the bundle, by format; the manifest has the
\* digest of each.
Bundle(d) ==
  LET content == [f \in Formats |-> Export(d, f)]
  IN  IF ~ValidDerived(d) THEN <<>>
      ELSE <<[files |-> content, manifest |-> [of |-> d.manifest, artifacts |-> content], extra |-> {}]>>

\* is_stale, and verify_bundle.
IsStale(of, current, revisions) ==
  \/ of.document # current.document \/ of.package # current.package
  \/ of.ocr # current.ocr \/ of.revisions # <<revisions>> \/ of.exporter # current.exporter
VerifyBundle(bundle, p, ocr, revisions) ==
  LET current == FromPackage(p, ocr)
      m == bundle.manifest
  IN  CASE DOMAIN m.artifacts # Formats -> "corrupt"
        [] DOMAIN m.artifacts = Formats /\ current = <<>> -> "error"
        [] DOMAIN m.artifacts = Formats /\ current # <<>> ->
             IF IsStale(m.of, current[1].manifest, revisions) THEN "stale"
             ELSE IF Formats \ DOMAIN bundle.files # {} THEN "error"
             ELSE IF bundle.files # m.artifacts \/ bundle.extra # {} THEN "corrupt"
             ELSE "current"

-----------------------------------------------------------------------------
(***************************************************************************)
(* What the derived document promises.                                     *)
(***************************************************************************)
\* The log after a sequence of additions, those that were refused left out.
AddAll(files, additions) ==
  FoldLeft(LAMBDA acc, a :
             LET after == AddRevision(acc.files, a.target, a.base, a.kind, a.text)
             IN  IF after = RefusedFiles THEN acc ELSE [files |-> after, kept |-> Append(acc.kept, a)],
           [files |-> files, kept |-> <<>>], additions)

Identities(pages) ==
  LET words == FlattenSeq([k \in DOMAIN pages |-> Words(pages[k])])
  IN  [i \in DOMAIN words |->
        [id |-> words[i].id, source |-> words[i].source, box |-> words[i].box, path |-> words[i].path]]
ShownText(kept, v) ==
  LET human == SelectSeq(kept, LAMBDA a : a.kind = "human" /\ a.target = v.id)
  IN  IF human = <<>> THEN v.source ELSE Last(human).text
\* The words shown for the lines of a page, one sequence a line.
ShownLines(page, kept, text(_)) ==
  LET lines == Lines(page)
  IN  [n \in DOMAIN lines |->
        [i \in DOMAIN lines[n].words |-> text(ShownText(kept, lines[n].words[i]))]]
ExportsShow(d, made, kept) ==
  LET texts(export) == [k \in DOMAIN export |-> export[k].lines]
      exact(t) == t
      all(text(_)) == [k \in DOMAIN made.pages |-> ShownLines(made.pages[k], kept, text)]
      flowing == [k \in DOMAIN made.pages |->
                   SelectSeq(ShownLines(made.pages[k], kept, Normalized), LAMBDA l : ~IsEmpty(l))]
      source(id) == CHOOSE v \in UNION {ToSet(Words(page)) : page \in ToSet(made.pages)} : v.id = id
  IN  /\ texts(Export(d, "html")) = all(exact)
      /\ texts(Export(d, "md")) = flowing
      /\ texts(Export(d, "txt")) = flowing
      /\ \A export \in {Export(d, "jsonl")} :
           [i \in DOMAIN export |-> export[i].text] = FlattenSeq(flowing)
      /\ Every(d.chunks, LAMBDA c :
           c.text = [i \in DOMAIN c.words |-> Normalized(ShownText(kept, source(c.words[i])))])

\* A word shows the last human text that was accepted for it, and its source
\* otherwise; a suggestion changes nothing.  An addition is accepted when it
\* names a word, was made on the evidence of its page and is a new one.  All
\* exports show the same words in the order of the evidence, whose text and
\* boxes stay what they were.  Only a log over the limit cannot be read.
\* Every issue about a word can be answered as the queue names it.
RevisionsShow(files, additions) ==
  LET answer == [is |-> "answer", bytes |-> 6]
      names(made, a) == \E page \in ToSet(made.pages) :
                          a.base = page.evidence /\ \E v \in ToSet(Words(page)) : v.id = a.target
  IN  \A made \in ToSet(LoadDocument(files)), log \in {AddAll(files, additions)} :
        /\ Distinct(log.kept)
        /\ StoreBytes(additions) <= 2 * MaxRevisionBytes =>
             \A a \in ToSet(additions) : names(made, a) <=> a \in ToSet(log.kept)
        /\ \A read \in {LoadDocument(log.files)} :
             /\ read = <<>> <=> StoreBytes(log.kept) > 2 * MaxRevisionBytes
             /\ \A d \in ToSet(read) :
                  /\ Identities(d.pages) = Identities(made.pages)
                  /\ ExportsShow(d, made, log.kept)
                  /\ StoreBytes(log.kept) <= MaxRevisionBytes =>
                       \A issue \in {q \in ReviewQueue(d) : q.kind # "empty_region"} :
                         AddRevision(log.files, issue.target, issue.base, "human", answer) # RefusedFiles

\* A bundle of before, whatever happened to its files, is called current when
\* and only when an export of now would write the same.
CurrentIsRewritten(bundle, files) ==
  \A p \in ToSet(ReadFrom(files)), ocr \in ToSet(LoadOcr(files)), revisions \in ToSet(LoadRevisions(files)) :
    VerifyBundle(bundle, p, ocr, revisions) = "current"
      <=> \E now \in ToSet(LoadDocument(files)) : Bundle(now) = <<bundle>>

=============================================================================
