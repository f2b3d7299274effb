--------------------------- MODULE DocumentPackage ---------------------------
(***************************************************************************)
(* The machine-readable Document Package                                   *)
(* (mpdf-core/src/document_package.rs) and the native outline it records   *)
(* (document_session.rs): how a package is made from a PDF session, what   *)
(* validate accepts, and the directory it is written to and read from.     *)
(*                                                                         *)
(* An identifier or digest is <<kind, what it is the SHA-256 of>>: two are *)
(* equal only for equal contents.  A PDF length is in tenths of a point, a *)
(* transform in units of 1/den.  Paths, entries and the OCR records are    *)
(* those of OcrRecords.                                                    *)
(***************************************************************************)
EXTENDS OcrRecords

Geometry == INSTANCE PageMath

MasterDpi == 300
MaxPages == 10000
MaxAssets == 10000
MaxSteps == 100000
MaxAssetBytes == 1073741824
\* MAX_TOTAL_ASSET_BYTES is twice that.
WithinTotal(bytes) == bytes - MaxAssetBytes <= MaxAssetBytes

-----------------------------------------------------------------------------
(***************************************************************************)
(* Identifiers and digests.                                                *)
(***************************************************************************)
Digest(bytes) == <<"sha256", bytes>>
ValidDigest(d) == d[1] = "sha256"
DocumentId(digest) == <<"document", digest>>
SourceId(digest) == <<"source", digest>>
PageId(digest, index) == <<"page", digest, index>>
AssetId(scope, kind, digest) == <<"asset", scope, kind, digest>>
ValidVersion(v) == v.schema = "mpdf-document-package" /\ Len(v.version) = 2 /\ v.version[1] = 0

\* validate_relative_path: a path is its components; Path::components drops
\* every "." but a leading one.
ValidRelativePath(p) == p # <<>> /\ p[1] \notin {".", "/"} /\ \A k \in DOMAIN p : p[k] # ".."
Normal(p) == SelectSeq(p, LAMBDA c : c # ".")

-----------------------------------------------------------------------------
(***************************************************************************)
(* native_outline: a depth-first walk of the bookmarks.  marks[b] is a     *)
(* bookmark [dest, readable, child, next]; dest is <<>> without            *)
(* destination, 0 is no bookmark.  A bookmark without destination does not *)
(* count as a level.                                                       *)
(***************************************************************************)
MaxLevel == 64
MaxDepth == 256
RECURSIVE Walk(_, _, _, _, _)
Walk(marks, b, level, depth, acc) ==
  LET mark == marks[b]
      actionable == mark.dest # <<>>
      here == [acc EXCEPT !.seen = @ \cup {b},
                          !.items = IF actionable
                                    THEN Append(@, [mark |-> b, level |-> level, page |-> mark.dest[1]])
                                    ELSE @]
      below == IF mark.child = 0 THEN here
               ELSE IF level > MaxLevel - (IF actionable THEN 1 ELSE 0) \/ depth >= MaxDepth
               THEN [here EXCEPT !.ok = FALSE]
               ELSE Walk(marks, mark.child, IF actionable THEN level + 1 ELSE level, depth + 1, here)
  IN  CASE b = 0 \/ ~acc.ok -> acc
        [] b # 0 /\ acc.ok /\ (b \in acc.seen \/ (actionable /\ ~mark.readable)) -> [acc EXCEPT !.ok = FALSE]
        [] OTHER -> Walk(marks, mark.next, level, depth, below)
Unwalked == [ok |-> TRUE, items |-> <<>>, seen |-> {}]
NativeOutline(marks) == Walk(marks, IF marks = <<>> THEN 0 ELSE 1, 0, 0, Unwalked)

-----------------------------------------------------------------------------
(***************************************************************************)
(* create_from_session: <<package>>, or <<>> when it is refused.           *)
(***************************************************************************)
Master(size, k) ==
  [id |-> <<k, "master">>, unit |-> "pixels", origin |-> "top_left", ppi |-> <<MasterDpi>>,
   w |-> size[1], h |-> size[2]]
Pdf(s, k) ==
  [id |-> <<k, "pdf">>, unit |-> "pdf_points", origin |-> "bottom_left", ppi |-> <<>>, w |-> s.w, h |-> s.h]
\* a = master.w / pdf.w and d = -master.h / pdf.h.
ToMaster(master, pdf) ==
  [from |-> pdf.id, to |-> master.id, den |-> pdf.w * pdf.h,
   a |-> master.w * pdf.h, b |-> 0, c |-> 0, d |-> -(master.h * pdf.w), e |-> 0,
   f |-> master.h * pdf.w * pdf.h]
PageOf(digest, rotation, k, master, pdf) ==
  [id |-> PageId(digest, k - 1), index |-> k - 1, order |-> k - 1, rotation |-> rotation,
   master |-> master, source |-> pdf, transforms |-> <<ToMaster(master, pdf)>>,
   label |-> <<>>, outline |-> <<>>, typography |-> <<>>, regions |-> <<>>, assets |-> <<>>]
NewPage(digest, s, k) ==
  PageOf(digest, s.rotation, k, Master(Geometry!PixelSize(s.w, s.h, MasterDpi), k), Pdf(s, k))

NewManifest(digest, pageCount) ==
  [schema |-> "mpdf-document-package", version |-> <<0, 1>>, document |-> DocumentId(digest),
   source |-> SourceId(digest), pageCount |-> pageCount, assetCount |-> 0, tool |-> "mpdf"]
NewSource(session, digest) ==
  [id |-> SourceId(digest), digest |-> digest, bytes |-> Len(session.content),
   pageCount |-> Len(session.pages), reference |-> "source.pdf", packaged |-> <<>>]
Inspected(digest, pages) ==
  [id |-> "step-source-inspect", operation |-> "source_inspect", inputs |-> <<SourceId(digest)>>,
   outputs |-> [k \in DOMAIN pages |-> pages[k].id], software |-> "mpdf"]

\* All outline evidence is kept with the first page.
OutlineEvidence(items, pages) ==
  [k \in DOMAIN items |->
     [title |-> <<items[k].mark>>, level |-> items[k].level, target |-> <<pages[items[k].page + 1].id>>]]

ReportOf(package) ==
  [schema |-> package.manifest.schema, version |-> package.manifest.version, valid |-> TRUE,
   pages |-> Len(package.pages), assets |-> Len(package.assets), errors |-> <<>>]

-----------------------------------------------------------------------------
(***************************************************************************)
(* DocumentPackage::validate, check by check.                              *)
(***************************************************************************)
ValidManifest(p) ==
  /\ ValidVersion(p.manifest) /\ p.manifest.tool # ""
  /\ p.manifest.document = DocumentId(p.source.digest)
  /\ p.manifest.source = p.source.id /\ p.source.id = SourceId(p.source.digest)
  /\ Len(p.pages) <= MaxPages /\ Len(p.assets) <= MaxAssets /\ Len(p.provenance) <= MaxSteps
  /\ p.manifest.pageCount = Len(p.pages) /\ p.manifest.assetCount = Len(p.assets)
  /\ p.pages # <<>> /\ p.source.pageCount = Len(p.pages)
  /\ ValidDigest(p.source.digest)
  /\ Every(p.source.packaged, LAMBDA f : ValidRelativePath(f) /\ f[1] = "source" /\ Len(f) > 1)

ValidSpace(s) == s.w > 0 /\ s.h > 0
ValidTransform(t, page) ==
  t.from = page.source.id /\ t.to = page.master.id /\ t.a * t.d # t.b * t.c
\* A bound names the space its numbers are in.
ValidRect(r, page) ==
  /\ r.w >= 0 /\ r.h >= 0 /\ r.x >= 0 /\ r.y >= 0
  /\ \E s \in {page.master, page.source} : r.space = s.id /\ r.x + r.w <= s.w /\ r.y + r.h <= s.h
ValidPages(p) ==
  \A k \in DOMAIN p.pages :
    LET page == p.pages[k]
    IN  /\ page.index = k - 1 /\ page.order = k - 1
        /\ page.id = PageId(p.source.digest, page.index)
        /\ ValidSpace(page.master) /\ ValidSpace(page.source)
        /\ page.master.id # page.source.id
        /\ page.master.unit = "pixels" /\ page.master.origin = "top_left" /\ page.master.ppi = <<MasterDpi>>
        /\ page.source.unit = "pdf_points" /\ page.source.origin = "bottom_left" /\ page.source.ppi = <<>>
        /\ page.rotation \in {0, 90, 180, 270}
        /\ Len(page.transforms) = 1 /\ ValidTransform(page.transforms[1], page)
        /\ Every(page.typography, LAMBDA e : ValidRect(e.bounds, page) /\ e.size >= 0)
        /\ Every(page.regions, LAMBDA e : ValidRect(e.bounds, page))

PageIds(p) == {p.pages[k].id : k \in DOMAIN p.pages}
AssetIds(p) == {p.assets[k].id : k \in DOMAIN p.assets}
DocumentScope == <<"document">>
ValidAssets(p) ==
  /\ \A k \in DOMAIN p.assets :
       LET a == p.assets[k]
       IN  /\ ValidDigest(a.digest) /\ ValidRelativePath(a.path) /\ a.path[1] = "assets" /\ Len(a.path) > 1
           /\ a.mime # ""
           /\ a.id = AssetId(a.scope, a.kind, a.digest)
           /\ a.bytes <= MaxAssetBytes
           /\ a.scope = DocumentScope \/ a.scope \in PageIds(p)
  /\ Distinct([k \in DOMAIN p.assets |-> p.assets[k].id])
  /\ Distinct([k \in DOMAIN p.assets |-> p.assets[k].path])
  /\ WithinTotal(Sum(p.assets, LAMBDA a : a.bytes))

\* Pages and assets name each other, and outlines name pages.
ValidLinksFaulty(p) ==
  \A k \in DOMAIN p.pages :
    LET page == p.pages[k]
    IN  /\ Every(page.assets, LAMBDA id : id \in AssetIds(p))
        /\ Every(page.outline, LAMBDA o : Every(o.target, LAMBDA id : id \in PageIds(p)))
ValidLinks(p) ==
  /\ \A k \in DOMAIN p.pages :
       LET page == p.pages[k]
       IN  /\ Distinct(page.assets)
           /\ Every(page.assets, LAMBDA id : \E j \in DOMAIN p.assets :
                                                p.assets[j].id = id /\ p.assets[j].scope = page.id)
           /\ Every(page.outline, LAMBDA o : Every(o.target, LAMBDA id : id \in PageIds(p)))
  /\ Every(p.assets, LAMBDA a : \A k \in DOMAIN p.pages :
                                  a.scope = p.pages[k].id => Contains(p.pages[k].assets, a.id))

ValidProvenanceSteps(p) ==
  LET known == {p.source.id} \cup PageIds(p) \cup AssetIds(p)
  IN  /\ Distinct([k \in DOMAIN p.provenance |-> p.provenance[k].id])
      /\ Every(p.provenance, LAMBDA s : /\ s.id # "" /\ s.operation # "" /\ s.software # ""
                                        /\ Distinct(s.inputs \o s.outputs)
                                        /\ Every(s.inputs \o s.outputs, LAMBDA id : id \in known))

Valid(p) ==
  ValidManifest(p) /\ ValidPages(p) /\ ValidAssets(p) /\ ValidLinks(p) /\ ValidProvenanceSteps(p)

NewPackage(session, digest, pages, evidence) ==
  [manifest |-> NewManifest(digest, Len(pages)), source |-> NewSource(session, digest),
   pages |-> IF evidence = <<>> THEN pages ELSE [pages EXCEPT ![1].outline = evidence],
   assets |-> <<>>, provenance |-> <<Inspected(digest, pages)>>, validation |-> <<>>]
Reported(package) == IF Valid(package) THEN <<[package EXCEPT !.validation = ReportOf(package)]>> ELSE <<>>
CreateFrom(session, digest, outline, pages) ==
  IF /\ Every(session.pages, LAMBDA s : Geometry!PixelSize(s.w, s.h, MasterDpi) # Geometry!Refused)
     /\ outline.ok
     /\ Every(outline.items, LAMBDA i : i.page + 1 \in DOMAIN pages)
  THEN Reported(NewPackage(session, digest, pages, OutlineEvidence(outline.items, pages))) ELSE <<>>
CreateFromSession(session) ==
  LET digest == Digest(session.content)
  IN  CreateFrom(session, digest, NativeOutline(session.marks),
                 [k \in DOMAIN session.pages |-> NewPage(digest, session.pages[k], k)])

-----------------------------------------------------------------------------
(***************************************************************************)
(* The directory.                                                          *)
(***************************************************************************)
JsonNames == {"manifest", "source", "assets.json", "provenance", "validation"}
PageFile(k) == <<"pages", ToString(k)>>

\* write_to a destination that is free; nobody writes the files of assets.
WriteTo(p) ==
  LET content == [manifest |-> p.manifest, source |-> p.source, provenance |-> p.provenance,
                  validation |-> ReportOf(p)] @@ ("assets.json" :> p.assets)
  IN  IF ~Valid(p) THEN RefusedFiles
      ELSE [f \in {<<n>> : n \in JsonNames} |-> Entry("file", content[f[1]])]
             @@ [f \in {PageFile(k) : k \in DOMAIN p.pages} |->
                   Entry("file", p.pages[CHOOSE k \in DOMAIN p.pages : PageFile(k) = f])]
             @@ (<<"pages">> :> Dir) @@ (<<"assets">> :> Dir)

\* verify_file and safe_resource_path: no component is a link.
VerifyFile(files, path, bytes, digest) ==
  LET p == Normal(path)
  IN  /\ ValidRelativePath(path)
      /\ \A n \in 1 .. Len(p) - 1 : IsA(files, SubSeq(p, 1, n), "dir")
      /\ IsA(files, p, "file")
      /\ Len(files[p].body) = bytes /\ bytes <= MaxAssetBytes
      /\ Digest(files[p].body) = digest
ValidateFiles(files, p) ==
  /\ Every(p.source.packaged, LAMBDA f : VerifyFile(files, f, p.source.bytes, p.source.digest))
  /\ Every(p.assets, LAMBDA a : VerifyFile(files, a.path, a.bytes, a.digest))
  /\ WithinTotal(Sum(p.assets, LAMBDA a : a.bytes))

\* The OCR extension of read_from; that of validate_directory is stricter.
CoversPages(run, pageCount) == IsComplete(run, pageCount) /\ Every(run.pages, LAMBDA page : page.index < pageCount)
ValidExtension(files, pageCount) ==
  /\ Has(files, OcrDir) => IsA(files, OcrDir, "dir")
  /\ Has(files, SummaryPath) => \E run \in ToSet(ReadRecords(files)) : CoversPages(run, pageCount)

\* read_from: <<package>>, or <<>>.
Json(files, n) == files[<<n>>].body
PackageIn(files, manifest, report) ==
  [manifest |-> manifest, source |-> Json(files, "source"),
   pages |-> [k \in 1 .. manifest.pageCount |-> files[PageFile(k)].body],
   assets |-> Json(files, "assets.json"), provenance |-> Json(files, "provenance"), validation |-> report]
ReadWhole(files, p, report) ==
  IF /\ ValidateFiles(files, p) /\ Valid(p)
     /\ report.pages = Len(p.pages) /\ report.assets = Len(p.assets) /\ report.errors = <<>>
     /\ ValidExtension(files, p.manifest.pageCount)
  THEN <<p>> ELSE <<>>
ReadParts(files, manifest, report) ==
  IF /\ ValidVersion(manifest) /\ ValidVersion(report)
     /\ report.version = manifest.version /\ report.valid
     /\ manifest.pageCount <= MaxPages
     /\ \A k \in 1 .. manifest.pageCount : IsA(files, PageFile(k), "file")
  THEN ReadWhole(files, PackageIn(files, manifest, report), report) ELSE <<>>
ReadFrom(files) ==
  IF /\ IsA(files, <<"pages">>, "dir") /\ IsA(files, <<"assets">>, "dir")
     /\ \A n \in JsonNames : IsA(files, <<n>>, "file")
  THEN ReadParts(files, Json(files, "manifest"), Json(files, "validation")) ELSE <<>>

ValidateDirectory(files) ==
  ReadFrom(files) # <<>> /\ (Has(files, OcrDir) => Has(files, SummaryPath))

-----------------------------------------------------------------------------
(***************************************************************************)
(* What a package promises.                                                *)
(***************************************************************************)
Apply(t, x, y) == <<t.a * x + t.c * y + t.e, t.b * x + t.d * y + t.f>>

\* The outline of a document without cycles keeps every bookmark that leads
\* somewhere, once, under the bookmarks it stands under, those that lead
\* nowhere not counted.  parents[b] < b is the parent of bookmark b.
Ancestors(parents, b) ==
  LET up[c \in 0 .. b] == IF c = 0 THEN {} ELSE {parents[c]} \cup up[parents[c]] IN up[b] \ {0}
OutlineKeepsItsLevels(parents, marks) ==
  LET outline == NativeOutline(marks)
      at(b) == CHOOSE k \in DOMAIN outline.items : outline.items[k].mark = b
      leads == {b \in DOMAIN marks : marks[b].dest # <<>>}
      level(b) == Cardinality(Ancestors(parents, b) \cap leads)
      before(c, b) == c \in Ancestors(parents, b) \/ (parents[c] = parents[b] /\ c < b)
  IN  /\ outline.ok <=>
           \A b \in DOMAIN marks :
             /\ level(b) <= MaxLevel /\ Cardinality(Ancestors(parents, b)) <= MaxDepth
             /\ b \in leads => marks[b].readable
      /\ outline.ok =>
           /\ Len(outline.items) = Cardinality(leads)
           /\ \A b \in leads : outline.items[at(b)].level = level(b)
           /\ \A b, c \in leads : before(c, b) => at(c) < at(b)

\* A package is made of every document whose outline can be read.  Its
\* transform takes the visible page to the master image, the top left corner
\* of the one to that of the other; it is read back as it was written.
CreatedPackageIsFaithful(session) ==
  \A made \in {CreateFromSession(session)} :
    /\ made = <<>> => \/ ~NativeOutline(session.marks).ok
                      \/ \E b \in DOMAIN session.marks :
                           Every(session.marks[b].dest, LAMBDA d : d >= Len(session.pages))
    /\ \A p \in ToSet(made) :
         /\ \A page \in ToSet(p.pages) :
              LET t == page.transforms[1]
              IN  /\ Apply(t, 0, page.source.h) = <<0, 0>>
                  /\ Apply(t, page.source.w, 0) = <<page.master.w * t.den, page.master.h * t.den>>
         /\ \A files \in {WriteTo(p)} : ReadFrom(files) = made /\ ValidateDirectory(files)

PartsAreLinked(files, p, pages, assets) ==
  /\ UNION {{<<g.id, a>> : a \in ToSet(g.assets)} : g \in pages}
       = {<<a.scope, a.id>> : a \in {b \in assets : b.scope # DocumentScope}}
  /\ \A a \in assets : Digest(files[Normal(a.path)].body) = a.digest
  /\ \A g \in pages : g.id[2] = p.source.digest
  /\ Cardinality(pages) = p.manifest.pageCount
  /\ \A step \in ToSet(p.provenance) :
       ToSet(step.inputs \o step.outputs)
         \subseteq {p.source.id} \cup {g.id : g \in pages} \cup {a.id : a \in assets}
  /\ \A g \in pages : \A entry \in ToSet(g.outline) : ToSet(entry.target) \subseteq {h.id : h \in pages}

\* In a directory that is accepted pages and assets name each other, each
\* asset's file holds the bytes its digest is of, whatever was edited since it
\* was written, every reference leads to a part of the package, and an OCR
\* extension is that of a run that finished every page once.
AcceptedIsLinked(files) ==
  /\ \A p \in ToSet(ReadFrom(files)) : PartsAreLinked(files, p, ToSet(p.pages), ToSet(p.assets))
  /\ ValidateDirectory(files) /\ Has(files, OcrDir) =>
       \A p \in ToSet(ReadFrom(files)), run \in ToSet(ReadRecords(files)) :
         /\ {page.index : page \in ToSet(run.pages)} = 0 .. p.manifest.pageCount - 1
         /\ \A page \in ToSet(run.pages) : ReadOcrPage(files, page.index) = <<page>>
=============================================================================
