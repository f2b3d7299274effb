----------------------------- MODULE MCDocuments -----------------------------
(***************************************************************************)
(* Small documents, the packages made of them and what can be wrong with   *)
(* their directories.                                                      *)
(***************************************************************************)
EXTENDS Algorithms, TLC

Pkg == INSTANCE SearchablePdf

Seqs(S, low, high) == UNION {[1 .. n -> S] : n \in low .. high}

-----------------------------------------------------------------------------
\* Bookmarks by their parents; the leaves of "broken" outlines are unreadable.
Least(S) == IF S = {} THEN 0 ELSE CHOOSE b \in S : \A c \in S : b <= c
Marks(parents, leads, readable) ==
  [b \in DOMAIN parents |->
     [dest |-> IF b \in leads THEN <<b % 2>> ELSE <<>>, readable |-> readable,
      child |-> Least({c \in DOMAIN parents : parents[c] = b}),
      next |-> Least({c \in DOMAIN parents : parents[c] = parents[b] /\ c > b})]]
Forest(n) == {p \in [1 .. n -> 0 .. n - 1] : \A b \in 1 .. n : p[b] < b}
Outlines ==
  UNION {{<<p, Marks(p, L, r)>> : p \in Forest(n), L \in SUBSET (1 .. n), r \in BOOLEAN} : n \in 0 .. 4}
Chain(n, L) ==
  <<[b \in 1 .. n |-> b - 1],
    [b \in 1 .. n |-> [dest |-> IF b \in L THEN <<0>> ELSE <<>>, readable |-> TRUE,
                       child |-> IF b = n THEN 0 ELSE b + 1, next |-> 0]]>>
DeepOutlines == {Chain(n, 1 .. n) : n \in 64 .. 66} \cup {Chain(n, {n}) : n \in 256 .. 258}
ProbeOutline == Probe("outline", Outlines \cup DeepOutlines)

Session(content, pages, marks) == [content |-> content, pages |-> pages, marks |-> marks]
Sheet(w, h, r) == [w |-> w, h |-> h, rotation |-> r]
SheetsOf == {Sheet(72, 144, 0), Sheet(100, 48, 90), Sheet(0, 48, 0)}
ProbePackages ==
  Probe("package",
    {Session(<<1>>, pages, marks) : pages \in Seqs(SheetsOf \ {Sheet(0, 48, 0)}, 1, 2),
       marks \in {o[2] : o \in {x \in Outlines : Len(x[1]) <= 3}}})

-----------------------------------------------------------------------------
\* A package of two pages with up to three assets, edited at up to two places.
Base == Pkg!CreateFromSession(Session(<<1>>, <<Sheet(72, 144, 0), Sheet(100, 48, 90)>>,
                                      Marks(<<0>>, {1}, TRUE)))[1]
Page(k) == Base.pages[k].id
NewAsset(name, scope, kind, content) ==
  [id |-> Pkg!AssetId(scope, kind, Pkg!Digest(content)), kind |-> kind, path |-> <<"assets", name>>,
   mime |-> "image/png", bytes |-> Len(content), digest |-> Pkg!Digest(content), scope |-> scope]
AssetChoices ==
  <<<<>>, <<NewAsset("a", Page(1), "master", <<5>>)>>,
   <<NewAsset("a", Page(1), "master", <<5>>), NewAsset("b", Page(2), "thumbnail", <<6, 7>>),
     NewAsset("c", Pkg!DocumentScope, "original", <<5>>)>>>>
WithAssets(p, assets) ==
  LET listed(k) == SelectSeq(assets, LAMBDA a : a.scope = p.pages[k].id)
  IN  [p EXCEPT !.assets = assets, !.manifest.assetCount = Len(assets),
         !.pages = [k \in DOMAIN p.pages |->
           [p.pages[k] EXCEPT !.assets = [j \in DOMAIN listed(k) |-> listed(k)[j].id]]]]
Scoped(a, scope) == [a EXCEPT !.scope = scope, !.id = Pkg!AssetId(scope, a.kind, a.digest)]
PlainEdits ==
  {"none", "unlist", "list twice", "list elsewhere", "page order", "page id", "digest", "count",
   "singular", "reversed", "no outline target", "region outside", "region in points", "unknown input",
   "input twice"}
AssetEdits == {"rescope", "move", "no scope", "alias", "same path", "parent path", "elsewhere", "other kind"}
Edited(p, e) ==
  CASE e = "none" -> p
    [] e = "unlist" -> [p EXCEPT !.pages[1].assets = <<>>]
    [] e = "list twice" -> [p EXCEPT !.pages[1].assets = @ \o @]
    [] e = "list elsewhere" -> [p EXCEPT !.pages[2].assets = @ \o p.pages[1].assets]
    [] e = "page order" -> [p EXCEPT !.pages = <<p.pages[2], p.pages[1]>>]
    [] e = "page id" -> [p EXCEPT !.pages[2].id = p.pages[1].id]
    [] e = "digest" -> [p EXCEPT !.source.digest = Pkg!Digest(<<2>>)]
    [] e = "count" -> [p EXCEPT !.manifest.assetCount = @ + 1]
    [] e = "singular" -> [p EXCEPT !.pages[1].transforms[1].d = 0]
    [] e = "reversed" -> [p EXCEPT !.pages[1].transforms[1].from = p.pages[1].master.id]
    [] e = "no outline target" -> [p EXCEPT !.pages[1].outline[1].target = <<Pkg!PageId(<<>>, 3)>>]
    [] e \in {"region outside", "region in points"} ->
         LET page == p.pages[1]
             space == IF e = "region outside" THEN page.master ELSE page.source
         IN  [p EXCEPT !.pages[1].regions =
                <<[kind |-> "body", bounds |-> [space |-> space.id, x |-> 0, y |-> 0, w |-> 31, h |-> 1]]>>]
    [] e = "unknown input" -> [p EXCEPT !.provenance[1].inputs = Append(@, Pkg!PageId(<<>>, 3))]
    [] e = "input twice" -> [p EXCEPT !.provenance[1].inputs = @ \o @]
    [] e = "rescope" -> [p EXCEPT !.assets[1] = Scoped(@, Page(2))]
    [] e = "no scope" -> [p EXCEPT !.assets[1] = Scoped(@, Pkg!DocumentScope)]
    [] e = "move" -> [p EXCEPT !.assets[1].scope = Page(2)]
    [] e = "alias" -> [p EXCEPT !.assets[1].path = <<"assets", ".", "a">>]
    [] e = "same path" -> [p EXCEPT !.assets = Append(@, Scoped(p.assets[1], Pkg!DocumentScope))]
    [] e = "parent path" -> [p EXCEPT !.assets[1].path = <<"assets", "..", "source">>]
    [] e = "elsewhere" -> [p EXCEPT !.assets[1].path = <<"other", "a">>]
    [] e = "other kind" -> [p EXCEPT !.assets[1].kind = "bilevel"]
Edits(n) == IF AssetChoices[n] = <<>> THEN PlainEdits ELSE PlainEdits \cup AssetEdits

\* The files of such a package, written as they are.
Files(p) ==
  LET written == Pkg!WriteTo(Base)
      content == ("manifest" :> p.manifest) @@ ("source" :> p.source) @@ ("assets.json" :> p.assets)
                   @@ ("provenance" :> p.provenance) @@ ("validation" :> Pkg!ReportOf(p))
  IN  [f \in DOMAIN written |->
         CASE f[1] = "pages" /\ Len(f) = 2 ->
                Pkg!Entry("file", p.pages[CHOOSE k \in DOMAIN p.pages : Pkg!PageFile(k) = f])
           [] f[1] \in DOMAIN content -> Pkg!Entry("file", content[f[1]])
           [] OTHER -> written[f]]
        @@ (<<"assets", "a">> :> Pkg!Entry("file", <<5>>))
        @@ (<<"assets", "b">> :> Pkg!Entry("file", <<6, 7>>))
        @@ (<<"assets", "c">> :> Pkg!Entry("file", <<5>>))
        @@ (<<"other">> :> Pkg!Dir) @@ (<<"other", "a">> :> Pkg!Entry("file", <<5>>))
FileEdits ==
  {"none", "asset gone", "asset changed", "asset link", "assets link", "page gone", "page junk",
   "marked invalid", "old report"}
FilesEdited(files, e) ==
  CASE e = "none" -> files
    [] e = "asset gone" -> [f \in DOMAIN files \ {<<"assets", "a">>} |-> files[f]]
    [] e = "asset changed" -> [files EXCEPT ![<<"assets", "a">>].body = <<8>>]
    [] e = "asset link" -> [files EXCEPT ![<<"assets", "a">>].kind = "link"]
    [] e = "assets link" -> [files EXCEPT ![<<"assets">>].kind = "link"]
    [] e = "page gone" -> [f \in DOMAIN files \ {<<"pages", "2">>} |-> files[f]]
    [] e = "page junk" -> [files EXCEPT ![<<"pages", "2">>].kind = "junk"]
    [] e = "marked invalid" -> [files EXCEPT ![<<"validation">>].body.valid = FALSE]
    [] e = "old report" -> [files EXCEPT ![<<"validation">>].body.assets = 3]
ProbeDirectories ==
  Probe("directory",
    UNION {{[assets |-> n, edits |-> <<e, f>>, damage |-> d] :
              e \in Edits(n), f \in Edits(n), d \in FileEdits} : n \in DOMAIN AssetChoices})
PackageOf(in) == WithAssets(Base, AssetChoices[in.assets])
DirectoryHolds(in) ==
  \A p \in {PackageOf(in)} : \A once \in {Edited(p, in.edits[1])} : \A twice \in {Edited(once, in.edits[2])} :
    \A files \in {FilesEdited(Files(twice), in.damage)} :
      /\ Pkg!AcceptedIsLinked(files)
      /\ in.edits = <<"none", "none">> /\ in.damage = "none" =>
           Pkg!ReadFrom(files) = <<[p EXCEPT !.validation = Pkg!ReportOf(p)]>>

-----------------------------------------------------------------------------
\* Scans of up to two pages, and the records of their runs.
Text(is, bytes) == [is |-> is, bytes |-> bytes]
Natives ==
  {[lines |-> l, garbled |-> g] :
     l \in {<<>>, <<<<Text("short", 3)>>>>,
            <<<<Text("one", 5), Text("decomposed", 4)>>, <<Text("two", 8)>>>>}, g \in BOOLEAN}
Box(x, w) == [x |-> x, y |-> 0, w |-> w, h |-> 2, den |-> 1]
Word(t, box, order) ==
  [text |-> t, normalized |-> Pkg!Normalized(t), box |-> box, confidence |-> 90, order |-> order]
Evidence(box, orders, raw) ==
  [index |-> 7, route |-> "missing_text", w |-> 30, h |-> 60,
   blocks |-> <<[box |-> Box(0, 30), confidence |-> 90, order |-> 0,
     lines |-> <<[box |-> Box(0, 30), confidence |-> 90, order |-> 0,
       words |-> [k \in DOMAIN orders |-> Word(Text("seen", 4), box, orders[k])]]>>]>>,
   provenance |-> <<[engine |-> "e", model |-> "m", version |-> "1", location |-> "local"]>>,
   raw |-> <<raw>>]
Evidences ==
  {Evidence(b, o, Text("raw", n)) :
     b \in {Box(0, 30), Box(2, 30)}, o \in {<<0, 1>>, <<1, 1>>}, n \in {0, 10, 700000}}
Answers ==
  {[answer |-> a, evidence |-> Evidence(Box(0, 30), <<0>>, Text("raw", 10))] :
     a \in {"unrendered", "unavailable", "failed"}}
    \cup {[answer |-> "evidence", evidence |-> e] : e \in Evidences}
Scans == {[native |-> n, w |-> 30, h |-> 60, answer |-> a.answer, evidence |-> a.evidence] :
            n \in Natives, a \in Answers}
FewScans == {s \in Scans : ~s.native.garbled /\ Len(s.native.lines) # 1}
ProbeScans == Probe("scans", Seqs(Scans, 1, 1) \cup Seqs(FewScans, 2, 2))

Packaged == Pkg!WriteTo(Base)
OcrEdits == {"none", "no summary", "extra page", "page differs", "raw differs", "raw gone", "ocr link"}
OcrEdited(files, e) ==
  LET page == Pkg!PagePath(0)
      raw == Pkg!RawPath(0)
  IN  CASE e = "no summary" -> [f \in DOMAIN files \ {Pkg!SummaryPath} |-> files[f]]
        [] e = "extra page" -> Pkg!PagePath(5) :> Pkg!Entry("junk", <<>>) @@ files
        [] e = "page differs" /\ page \in DOMAIN files -> [files EXCEPT ![page].body.w = @ + 1]
        [] e = "raw differs" /\ raw \in DOMAIN files -> [files EXCEPT ![raw].body = Text("other", 10)]
        [] e = "raw gone" -> [f \in DOMAIN files \ {raw} |-> files[f]]
        [] e = "ocr link" /\ Pkg!OcrDir \in DOMAIN files -> [files EXCEPT ![Pkg!OcrDir].kind = "link"]
        [] OTHER -> files
Recorded(runs) == IF runs = <<>> THEN Pkg!RefusedFiles ELSE Pkg!WriteRecords(Packaged, runs[1])
RecordsOf(scans) == Recorded(Pkg!RunSession(scans))
ProbeRecords == Probe("records", Seqs(FewScans, 1, 2) \X OcrEdits)

-----------------------------------------------------------------------------
\* Revisions of recognised pages, and bundles that are older than their
\* package.  The second page's box may stand a pixel outside.
Seen(x) == [native |-> [lines |-> <<>>, garbled |-> FALSE], w |-> 30, h |-> 60, answer |-> "evidence",
            evidence |-> Evidence(Box(x, 30), <<0, 1>>, Text("raw", 10))]
Written == [Seen(0) EXCEPT !.native.lines = <<<<Text("one", 5), Text("decomposed", 4)>>, <<Text("two", 8)>>>>]
Loaded(files) == Pkg!LoadDocument(files)[1]
Recognised(h) == RecordsOf(<<Written, [Seen(0) EXCEPT !.h = h, !.evidence.h = h]>>)
Sample == Loaded(Recognised(60))
Addition(page, i, base, kind, text) == [page |-> page, word |-> i, base |-> base, kind |-> kind, text |-> text]
Resolve(d, a) ==
  [target |-> IF a.word = 0 THEN <<"gone">> ELSE Pkg!Words(d.pages[a.page])[a.word].id,
   base |-> d.pages[a.base].evidence, kind |-> a.kind, text |-> a.text]
ResolvedFor(d, additions) == [n \in DOMAIN additions |-> Resolve(d, additions[n])]
Additions ==
  {Addition(page, i, base, kind, Text("decomposed", 6)) :
     page \in {1, 2}, i \in {1, 2}, base \in {1, 2}, kind \in {"human", "ai_suggested"}}
    \cup {Addition(1, 0, 1, "human", Text("more", 6)), Addition(1, 1, 1, "human", Text("none", 0))}
FewAdditions ==
  {Addition(1, i, 1, "human", text) :
     i \in {1, 3}, text \in {Text("more", 6), Text("none", 0), Text("large", 1048576)}}
    \cup {Addition(1, i, 1, "ai_suggested", Text("more", 6)) : i \in {1, 3}}
ProbeRevisions ==
  \E d \in {Sample} :
    \E <<x, additions>> \in ({0, 1} \X Seqs(Additions, 0, 1)) \cup ({0} \X Seqs(Additions, 2, 2))
                            \cup ({0} \X Seqs(FewAdditions, 3, 3)) :
      Probe("revisions", {<<x, ResolvedFor(d, additions)>>})
RevisionsHold(in) ==
  \A files \in {RecordsOf(<<Written, Seen(in[1])>>)} : Pkg!RevisionsShow(files, in[2])

Changes(last) ==
  {<<"add", [last EXCEPT !.kind = k]>> : k \in {"human", "ai_suggested"}}
    \cup {<<c>> : c \in {"none", "recognised again", "package", "ocr gone"}}
Added(files, a) == Pkg!AddRevision(files, a.target, a.base, a.kind, a.text)
Changed(files, c, again) ==
  CASE c[1] = "add" -> Added(files, c[2])
    [] c[1] = "recognised again" -> [f \in DOMAIN files |-> IF f[1] = "ocr" THEN again[f] ELSE files[f]]
    [] c[1] = "package" -> [files EXCEPT ![Pkg!PageFile(1)].body.label = <<"i">>]
    [] c[1] = "ocr gone" -> [f \in {g \in DOMAIN files : g[1] # "ocr"} |-> files[f]]
    [] c[1] = "none" -> files
Damages == {"none", "missing", "other", "extra", "unlisted"}
Damaged(b, d, f) ==
  CASE d = "missing" -> [b EXCEPT !.files = [g \in DOMAIN @ \ {f} |-> @[g]]]
    [] d = "other" -> [b EXCEPT !.files[f] = @ \o @]
    [] d = "extra" -> [b EXCEPT !.extra = {f}]
    [] d = "unlisted" -> [b EXCEPT !.manifest.artifacts = [g \in DOMAIN @ \ {f} |-> @[g]]]
    [] d = "none" -> b
ProbeBundles ==
  \E more \in {Resolve(Sample, Addition(1, 1, 1, "human", Text("more", 6)))} :
    Probe("bundle", {[log |-> log, change |-> c, damage |-> d, format |-> f] :
                       log \in Seqs({[more EXCEPT !.kind = k] : k \in {"human", "ai_suggested"}}, 0, 2),
                       c \in Changes([more EXCEPT !.text = Text("last", 4)]),
                       d \in Damages, f \in Pkg!Formats})
BundleHolds(in) ==
  \A files \in {[h \in {60, 61} |-> Recognised(h)]} : \A then \in {Pkg!AddAll(files[60], in.log).files} :
    \A bundle \in {Pkg!Bundle(Loaded(then))[1]}, now \in {Changed(then, in.change, files[61])} :
      Pkg!CurrentIsRewritten(Damaged(bundle, in.damage, in.format), now)

-----------------------------------------------------------------------------
\* Three pages of lines, with labels, typography and regions on them.
Small == Sheet(12, 24, 0)
OnLine(y) == [space |-> <<>>, x |-> 0, y |-> y, w |-> 5, h |-> 1]
TitleLine(words, y, confidence) ==
  LET box == [x |-> 0, y |-> y, w |-> 5, h |-> 2, den |-> 1]
  IN  [box |-> box, confidence |-> 90, order |-> 0,
       words |-> [i \in DOMAIN words |->
                    [text |-> Text(words[i], 4), normalized |-> Text(words[i], 4),
                     box |-> [box EXCEPT !.x = i - 1, !.w = 1], confidence |-> confidence, order |-> i - 1]]]
Layouts ==
  {<<>>, <<TitleLine(<<"head">>, 0, 90), TitleLine(<<"1.1", "aim">>, 4, 90), TitleLine(<<"aim">>, 6, 60)>>,
   <<TitleLine(<<"head">>, 0, 60), TitleLine(<<"1", "head">>, 4, 90), TitleLine(<<"aim", "i">>, 6, 90)>>,
   <<TitleLine(<<"other">>, 8, 90), TitleLine(<<"aim", "i">>, 4, 70)>>}
SmallPage(k, lines) ==
  [index |-> k - 1, route |-> "missing_text", w |-> 5, h |-> 10, provenance |-> <<>>, raw |-> <<>>,
   blocks |-> [i \in DOMAIN lines |-> [box |-> lines[i].box, confidence |-> 90, order |-> i - 1,
                                       lines |-> <<lines[i]>>]]]
SmallRun(layouts) ==
  [protocol |-> "mpdf-ocr", version |-> <<0, 1>>, errors |-> <<>>,
   pages |-> [k \in DOMAIN layouts |-> SmallPage(k, layouts[k])]]
Region(kind, y) == [kind |-> kind, bounds |-> OnLine(y)]
Marked == {<<>>, <<Region("title", 0), Region("heading", 4)>>, <<Region("toc", 4), Region("contents", 6)>>,
           <<Region("title", 6), Region("toc", 4), Region("toc", 4)>>}
Typed == {<<>>, <<[bounds |-> OnLine(4), size |-> 18], [bounds |-> OnLine(5), size |-> 10]>>}
Labels == {<<<<>>, <<>>, <<>>>>, <<<<>>, <<"i">>, <<"ii">>>>, <<<<"i">>, <<"i">>, <<>>>>}
ProbeTitles ==
  Probe("titles", {[layouts |-> l, regions |-> r, typography |-> t, labels |-> b] :
                     l \in {<<x, y, y>> : <<x, y>> \in Layouts \X (Layouts \ {<<>>})}, r \in Seqs(Marked, 2, 2),
                     t \in Typed, b \in Labels})
TitledPage(page, in, k) ==
  LET on(records) == [i \in DOMAIN records |-> [records[i] EXCEPT !.bounds.space = page.master.id]]
  IN  [page EXCEPT !.label = in.labels[k], !.typography = on(in.typography),
                   !.regions = on(in.regions[IF k = 1 THEN 1 ELSE 2])]
TitlesHold(in) ==
  \A base \in Pkg!ToSet(Pkg!CreateFromSession(Session(<<1>>, <<Small, Small, Small>>, <<>>))) :
    \A p \in {[base EXCEPT !.pages = [k \in DOMAIN @ |-> TitledPage(@[k], in, k)]]}, run \in {SmallRun(in.layouts)} :
      \A d \in Pkg!ToSet(Pkg!FromPackage(p, <<run>>)) : Pkg!LineCandidatesFit(p, d)

-----------------------------------------------------------------------------
\* Reviews of up to three bookmarks.
Marks3 == {<<1, 1>>, <<1, 2>>, <<0, 1>>}
SessionOf(parents) ==
  Session(<<1>>, <<Sheet(72, 144, 0), Sheet(100, 48, 90)>>, Marks(<<0>> \o parents, 1 .. 3, TRUE))
Action(do, title, parent, level) == [do |-> do, title |-> title, parent |-> parent, level |-> level]
Plain(do) == Action(do, <<>>, 0, 0)
Moves == {Action("reparent", <<>>, b, n) : b \in 0 .. 4, n \in {0, 1, 2, 65}}
Actions == {Plain("confirm"), Plain("reject"), Plain("edit"), Action("edit", <<"new">>, 0, 0)} \cup Moves
FewActions == {Plain("confirm")} \cup {Action("reparent", <<>>, b, 2) : b \in {0, 1, 3}}
ProbeReviews ==
  Probe("reviews", (Marks3 \X Seqs((1 .. 4) \X Actions, 0, 1))
                     \cup ({<<1, 2>>} \X Seqs((2 .. 3) \X Actions, 2, 2))
                     \cup ({<<1, 1>>} \X Seqs((1 .. 3) \X FewActions, 3, 3)))
\* Bookmark 4 is not there.
Asked(s, actions) ==
  LET id(b) == IF b = 4 THEN <<"gone">> ELSE (CHOOSE c \in {s.candidates[k] : k \in 1 .. 3} : c.source = <<b>>).id
  IN  [k \in DOMAIN actions |->
         <<id(actions[k][1]),
           [actions[k][2] EXCEPT !.parent = IF @ = 0 THEN <<>> ELSE <<id(@)>>]>>]

ReviewsHold(in) ==
  \A session \in {SessionOf(in[1])} : \A p \in Pkg!ToSet(Pkg!CreateFromSession(session)) :
    \A s \in Pkg!ToSet(Pkg!Generate(p, <<>>)) : \A wanted \in {Asked(s, in[2])} :
      /\ Pkg!ReviewsReplay(s, wanted)
      /\ \A log \in {Pkg!Replay(s, wanted)} : \A view \in Pkg!ToSet(Pkg!Effective(s, log)) :
           \A confirmed \in {Pkg!Confirmed(view)} : \A outline \in {Pkg!AddOutline(confirmed)} :
             Pkg!IsForest(confirmed) /\ Pkg!OutlineIsTree(confirmed, outline)

-----------------------------------------------------------------------------
\* Boxes on small pages of every rotation.
SmallSpaces(w, h, scale, rotation) ==
  LET master == [id |-> "master", w |-> w * scale, h |-> h * scale]
      pdf == [id |-> "pdf", w |-> w, h |-> h]
  IN  [master |-> master, source |-> pdf, rotation |-> rotation, transforms |-> <<Pkg!ToMaster(master, pdf)>>]
ProbePlacements ==
  Probe("placement",
    {[page |-> SmallSpaces(w, 3, scale, rotation),
      placement |-> [llx |-> o, lly |-> -o, w |-> w, h |-> 3, rotation |-> rotation],
      box |-> [x |-> x, y |-> y, w |-> bw, h |-> bh, den |-> den]] :
       w \in {2, 5}, scale \in {1, 2}, rotation \in {0, 90, 180, 270}, o \in {0, 7},
       x \in {-1, 0, 2}, y \in {0, 1, 5}, bw \in {0, 1, 3}, bh \in {1, 2}, den \in {1, 2}})

\* Sources: a root, a node between and two pages.
Attributes(keys, values) == [k \in keys |-> values[k]]
Values == [MediaBox |-> [llx |-> 2, lly |-> 1, urx |-> 14, ury |-> 25],
           CropBox |-> [llx |-> 2, lly |-> 1, urx |-> 14, ury |-> 25],
           Rotate |-> 360, Contents |-> <<<<<<Text("old", 3)>>>>>>, Resources |-> [r \in {"F1"} |-> "font"]]
Sources ==
  {[content |-> <<c>>, pages |-> <<3, 4>>,
    nodes |-> <<[parent |-> top, attributes |-> Attributes(root, Values)],
                [parent |-> 1, attributes |-> Attributes(middle, Values)],
                [parent |-> 2, attributes |-> IF taken THEN Attributes(own, Values) @@ ("Resources" :> [r \in {"MPDFHiddenM5"} |-> "font"])
                                              ELSE Attributes(own, Values)],
                [parent |-> 2, attributes |-> Attributes({"Contents"}, Values)]>>] :
     c \in {1, 2}, top \in {0, 2}, root \in {{"MediaBox"}, {"MediaBox", "Resources", "Rotate"}},
     middle \in {{}, {"Resources"}, {"CropBox", "Rotate"}}, own \in {{}, {"Contents"}, {"Resources"}, {"MediaBox", "Contents"}},
     taken \in BOOLEAN}
Texts == {<<<<>>, <<>>>>, <<<<TitleLine(<<"a", "b">>, 2, 90)>>, <<>>>>,
          <<<<TitleLine(<<"a">>, 2, 90)>>, <<TitleLine(<<"c">>, 4, 90)>>>>}
ProbeSources == Probe("source", {[source |-> s, texts |-> t, revised |-> r] :
                            s \in Sources, t \in Texts, r \in {<<>>, <<Text("none", 0)>>, <<Text("marks", 4)>>}})
Bookmarked == Session(<<1>>, <<Small, Small>>, Marks(<<0, 1, 0>>, {1, 2, 3}, TRUE))
ConfirmedFrom(candidates, n) ==
  [k \in DOMAIN candidates |-> [candidates[k] EXCEPT !.status = IF k < n THEN "proposed" ELSE "confirmed"]]
SourceText(d, words, revised) ==
  IF revised = <<>> \/ words = <<>> THEN d
  ELSE [d EXCEPT !.pages = Pkg!Overlay(@, <<[target |-> words[1].id, kind |-> "human", text |-> revised[1]]>>)]
SourceHolds(in) ==
  \A p \in Pkg!ToSet(Pkg!CreateFromSession(Bookmarked)), run \in {SmallRun(in.texts)} :
    \A d \in Pkg!ToSet(Pkg!FromPackage(p, <<run>>)), s \in Pkg!ToSet(Pkg!Generate(p, <<>>)) :
      \A words \in {Pkg!Words(d.pages[1])}, marks \in {ConfirmedFrom(s.candidates, 2)} :
        \A text \in {SourceText(d, words, in.revised)} : Pkg!SourceIsKept(in.source, p, marks, <<text>>)

-----------------------------------------------------------------------------
DocumentProbes ==
  {"outline", "package", "directory", "scans", "records", "revisions", "bundle", "titles", "reviews",
   "placement", "source"}
ProbeDocuments ==
  \/ ProbeOutline \/ ProbePackages \/ ProbeDirectories \/ ProbeScans \/ ProbeRecords
  \/ ProbeRevisions \/ ProbeBundles \/ ProbeTitles \/ ProbeReviews \/ ProbePlacements \/ ProbeSources

-----------------------------------------------------------------------------
\* Packages are what their documents are, directories are accepted only when
\* all their parts fit, and OCR records cover the pages they say.
PackagesAreLinked ==
  CASE probe.of = "outline" -> Pkg!OutlineKeepsItsLevels(probe.in[1], probe.in[2])
    [] probe.of = "package" -> Pkg!CreatedPackageIsFaithful(probe.in)
    [] probe.of = "directory" -> DirectoryHolds(probe.in)
    [] probe.of = "scans" ->
         /\ Pkg!RoutesCoverPages(probe.in)
         /\ \A run \in Pkg!ToSet(Pkg!RunSession(probe.in)) : Pkg!RecordsRoundTrip(Packaged, run)
    [] probe.of = "records" ->
         \A records \in {RecordsOf(probe.in[1])} : \A files \in {OcrEdited(records, probe.in[2])} :
           Pkg!AcceptedIsLinked(files)
    [] OTHER -> TRUE

\* Exports show the words of the evidence as the log of revisions leaves
\* them, and a bundle is current when it is what they would write now.
TextFollowsRevisions ==
  CASE probe.of = "revisions" -> RevisionsHold(probe.in)
    [] probe.of = "bundle" -> BundleHolds(probe.in)
    [] OTHER -> TRUE

\* Bookmarks form the forest the document or its lines give them, through
\* every review, and are placed and linked as such in a PDF that keeps its
\* source.
OutlinesAreTrees ==
  CASE probe.of = "outline" ->
         Pkg!BookmarksFollowTheOutline(Session(<<1>>, <<Small, Small>>, probe.in[2]), probe.in[1])
    [] probe.of = "titles" -> TitlesHold(probe.in)
    [] probe.of = "reviews" -> ReviewsHold(probe.in)
    [] probe.of = "placement" -> Pkg!PlacedWhereSeen(probe.in.page, probe.in.placement, probe.in.box)
    [] probe.of = "source" -> SourceHolds(probe.in)
    [] OTHER -> TRUE

\* "The ocr/summary.json record is incomplete when any page fails"
\* (docs/cli.md:82): when none fails the run has its records.
FinishedRunsAreRecorded ==
  probe.of = "scans" => Pkg!CompleteRunsInstall(Packaged, probe.in)
=============================================================================
