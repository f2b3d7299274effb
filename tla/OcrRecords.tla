----------------------------- MODULE OcrRecords -----------------------------
(***************************************************************************)
(* The typed OCR evidence of a package (mpdf-core/src/ocr.rs): how a page  *)
(* is routed to its native text or to a provider, what evidence is         *)
(* accepted, and the records a run leaves under ocr/.                      *)
(*                                                                         *)
(* A directory is a function from paths to entries; a path is the sequence *)
(* of its components, a number standing for a name made from it.  A        *)
(* "file" is a regular file whose content parses, "junk" one whose content *)
(* does not.  A text is [is, bytes], a byte per character; its JSON takes   *)
(* at least its bytes.                                                     *)
(***************************************************************************)
EXTENDS Integers, Sequences, FiniteSets, SequencesExt, FiniteSetsExt, Functions, TLC

MaxBlocks == 4096
MaxLines == 16384
MaxWords == 65536
MaxTextBytes == 4 * 1024 * 1024
MaxWordBytes == 16 * 1024
MaxRawBytes == 1024 * 1024
MaxProviderOutput == 8 * 1024 * 1024

RefusedFiles == [p \in {} |-> [kind |-> "none", body |-> <<>>]]

Sum(seq, Size(_)) == FoldLeft(LAMBDA n, e : n + Size(e), 0, seq)
Every(seq, Test(_)) == \A k \in DOMAIN seq : Test(seq[k])
Distinct(seq) == \A i, j \in DOMAIN seq : seq[i] = seq[j] => i = j
Has(files, p) == p \in DOMAIN files
IsA(files, p, kind) == Has(files, p) /\ files[p].kind = kind
Entry(kind, body) == [kind |-> kind, body |-> body]
Dir == Entry("dir", <<>>)

-----------------------------------------------------------------------------
(***************************************************************************)
(* Routing.                                                                *)
(***************************************************************************)
\* NFC and single blanks: what the composed form of a text is.
Normalized(t) == IF t.is = "decomposed" THEN [t EXCEPT !.is = "composed", !.bytes = @ - 1] ELSE t

\* The native text of a page is its lines, those of blanks left out, and a
\* line its words.  "reliable" is Ok(()).
LineBytes(line) == Sum(line, LAMBDA t : t.bytes)
NativeVerdict(native) ==
  CASE native.lines = <<>> -> "missing_text"
    [] native.lines # <<>> /\ native.garbled -> "garbled_text"
    [] native.lines # <<>> /\ ~native.garbled ->
         IF Sum(native.lines, LineBytes) < 8 THEN "too_little_text" ELSE "reliable"

\* native_page: a line is a block of one line; boxes are what an even grid
\* would have.  A box is in units of 1/den pixels.
LineHeight(h, n) == IF h <= 80 * n THEN [h |-> h, den |-> n] ELSE [h |-> 80, den |-> 1]
NativePage(index, native, w, h) ==
  LET n == Len(native.lines)
      height == LineHeight(h, n)
      lineBox(k) == [x |-> 0, y |-> (k - 1) * height.h, w |-> w * height.den, h |-> height.h,
                     den |-> height.den]
      wordBox(k, i, count) ==
        [x |-> (i - 1) * w * height.den, y |-> (k - 1) * height.h * count, w |-> w * height.den,
         h |-> height.h * count, den |-> height.den * count]
      words(k) ==
        [i \in DOMAIN native.lines[k] |->
           [text |-> native.lines[k][i], normalized |-> Normalized(native.lines[k][i]),
            box |-> wordBox(k, i, Len(native.lines[k])), confidence |-> 100, order |-> i - 1]]
  IN  [index |-> index, route |-> "native_text", w |-> w, h |-> h,
       blocks |-> [k \in 1 .. n |->
          [box |-> lineBox(k), confidence |-> 100, order |-> k - 1,
           lines |-> <<[box |-> lineBox(k), confidence |-> 100, order |-> 0, words |-> words(k)]>>]],
       provenance |-> <<>>, raw |-> <<>>]

-----------------------------------------------------------------------------
(***************************************************************************)
(* Validation.  Finite numbers only: JSON has no others.                   *)
(***************************************************************************)
ValidProtocol(r) == r.protocol = "mpdf-ocr" /\ r.version[1] = 0 /\ Len(r.version) = 2

ValidBox(b, w, h) ==
  /\ b.x >= 0 /\ b.y >= 0 /\ b.w >= 0 /\ b.h >= 0
  /\ b.x + b.w <= (w + 1) * b.den /\ b.y + b.h <= (h + 1) * b.den
ValidConfidence(c) == c \in 0 .. 100

\* Reading orders are below the limit and differ among siblings.
ValidOrders(parts, limit) ==
  Distinct([k \in DOMAIN parts |-> parts[k].order]) /\ Every(parts, LAMBDA p : p.order < limit)
ValidPart(p, page) == ValidBox(p.box, page.w, page.h) /\ ValidConfidence(p.confidence)

LinesOf(page) == FlattenSeq([k \in DOMAIN page.blocks |-> page.blocks[k].lines])
WordsOf(page) == LET lines == LinesOf(page) IN FlattenSeq([k \in DOMAIN lines |-> lines[k].words])
BytesOf(words) == Sum(words, LAMBDA v : v.text.bytes + v.normalized.bytes)
TextBytes(page) == BytesOf(WordsOf(page))

ValidWord(v) == v.text.bytes \in 1 .. MaxWordBytes /\ v.normalized.bytes <= MaxWordBytes
ValidProvenance(p) == p.engine # "" /\ p.model # "" /\ p.version # "" /\ p.location # ""

ValidLines(page, lines) ==
  /\ Every(lines, LAMBDA l : ValidPart(l, page) /\ ValidOrders(l.words, MaxWords))
  /\ Len(lines) <= MaxLines
ValidWords(page, words) ==
  /\ Every(words, LAMBDA v : ValidPart(v, page) /\ ValidWord(v))
  /\ Len(words) <= MaxWords /\ BytesOf(words) <= MaxTextBytes
ValidPage(page) ==
  /\ page.w > 0 /\ page.h > 0
  /\ Len(page.blocks) <= MaxBlocks
  /\ Every(page.blocks, LAMBDA b : ValidPart(b, page) /\ ValidOrders(b.lines, MaxLines))
  /\ ValidOrders(page.blocks, MaxBlocks)
  /\ ValidLines(page, LinesOf(page)) /\ ValidWords(page, WordsOf(page))
  /\ Every(page.raw, LAMBDA t : t.bytes \in 1 .. MaxRawBytes)
  /\ Every(page.provenance, ValidProvenance)

\* OcrRun::validate and is_complete.
ValidRun(run) ==
  /\ ValidProtocol(run)
  /\ Distinct([k \in DOMAIN run.pages |-> run.pages[k].index])
  /\ Every(run.pages, ValidPage)
  /\ Every(run.errors, LAMBDA e : e.code # "" /\ e.message # "")
IsComplete(run, pageCount) == run.errors = <<>> /\ Len(run.pages) = pageCount

-----------------------------------------------------------------------------
(***************************************************************************)
(* run_session: every page in turn.  A scan is one page of the session     *)
(* with what rendering and the provider say of it; a run that is not valid *)
(* is an error of the whole call, <<>>.                                    *)
(***************************************************************************)
PageError(index, reason, code) ==
  [index |-> index, reason |-> reason, code |-> code, message |-> "why"]
Recognize(scan, index, reason) ==
  LET evidence == [scan.evidence EXCEPT !.index = index, !.route = reason]
      failed(code) == [pages |-> <<>>, errors |-> <<PageError(index, reason, code)>>]
  IN  CASE scan.answer = "unrendered" -> failed("render_failed")
        [] scan.answer = "unavailable" -> failed("provider_unavailable")
        [] scan.answer = "failed" -> failed("provider_failed")
        [] scan.answer = "evidence" ->
             IF ValidPage(evidence) THEN [pages |-> <<evidence>>, errors |-> <<>>]
             ELSE failed("invalid_provider_evidence")

RoutedTo(s, index, verdict) ==
  IF verdict = "reliable" THEN [pages |-> <<NativePage(index, s.native, s.w, s.h)>>, errors |-> <<>>]
  ELSE Recognize(s, index, verdict)
RunOf(done) ==
  [protocol |-> "mpdf-ocr", version |-> <<0, 1>>,
   pages |-> FlattenSeq([k \in DOMAIN done |-> done[k].pages]),
   errors |-> FlattenSeq([k \in DOMAIN done |-> done[k].errors])]
Validated(run) == IF ValidRun(run) THEN <<run>> ELSE <<>>
RunSession(scans) ==
  Validated(RunOf([k \in DOMAIN scans |-> RoutedTo(scans[k], k - 1, NativeVerdict(scans[k].native))]))

-----------------------------------------------------------------------------
(***************************************************************************)
(* The records.  An operation that refuses leaves RefusedFiles; what it    *)
(* wrote before is DurableOcr's subject.                                   *)
(***************************************************************************)
OcrDir == <<"ocr">>
PagesDir == <<"ocr", "pages">>
RawDir == <<"ocr", "raw">>
PagePath(index) == <<"ocr", "pages", ToString(index + 1)>>
RawPath(index) == <<"ocr", "raw", ToString(index + 1)>>
SummaryPath == <<"ocr", "summary">>

PageBytes(page) == TextBytes(page) + Sum(page.raw, LAMBDA t : t.bytes)
RunBytes(run) == Sum(run.pages, PageBytes)

\* atomic_create_bytes installs what is not there, and nothing over 1 MiB.
CreateNew(files, p, bytes, body) ==
  IF files = RefusedFiles \/ bytes > MaxRawBytes \/ Has(files, p) THEN RefusedFiles
  ELSE files @@ (p :> Entry("file", body))

\* prepare_ocr_directory.
Prepare(files) ==
  LET add(f, d) ==
        CASE f = RefusedFiles -> f
          [] IsA(f, d, "dir") -> f
          [] f # RefusedFiles /\ Has(f, d) /\ ~IsA(f, d, "dir") -> RefusedFiles
          [] OTHER -> f @@ (d :> Dir)
  IN  FoldLeft(add, files, <<OcrDir, PagesDir, RawDir>>)

\* write_raw_artifact: the same artifact may be there already.
WriteRaw(files, page) ==
  CASE page.raw = <<>> \/ files = RefusedFiles -> files
    [] page.raw # <<>> /\ IsA(files, RawPath(page.index), "file") ->
         IF files[RawPath(page.index)].body = page.raw[1] THEN files ELSE RefusedFiles
    [] OTHER -> CreateNew(files, RawPath(page.index), page.raw[1].bytes, page.raw[1])

WriteOcrPage(files, page) ==
  CreateNew(WriteRaw(files, page), PagePath(page.index), PageBytes(page), page)

WriteRecords(files, run) ==
  IF ~ValidRun(run) THEN RefusedFiles
  ELSE CreateNew(FoldLeft(WriteOcrPage, Prepare(files), run.pages), SummaryPath, RunBytes(run), run)

\* verify_raw_artifact, read_ocr_page: <<page>>, or <<>>.
RawMatches(files, page) ==
  page.raw # <<>> =>
    IsA(files, RawPath(page.index), "file") /\ files[RawPath(page.index)].body = page.raw[1]
ReadPageRecord(files, index, page) ==
  IF page.index = index /\ ValidPage(page) /\ RawMatches(files, page) THEN <<page>> ELSE <<>>
ReadOcrPage(files, index) ==
  IF IsA(files, PagePath(index), "file") THEN ReadPageRecord(files, index, files[PagePath(index)].body) ELSE <<>>

\* read_ocr_records: every page of the summary has its record and no other
\* name is in the directory.
Below(files, d) == {p \in DOMAIN files : Len(p) = Len(d) + 1 /\ SubSeq(p, 1, Len(d)) = d}
ReadSummary(files, run) ==
  IF /\ RunBytes(run) <= MaxProviderOutput /\ ValidRun(run)
     /\ IsA(files, PagesDir, "dir")
     /\ Every(run.pages, LAMBDA p : /\ IsA(files, PagePath(p.index), "file")
                                    /\ files[PagePath(p.index)].body = p
                                    /\ RawMatches(files, p))
     /\ Below(files, PagesDir) \subseteq {PagePath(run.pages[k].index) : k \in DOMAIN run.pages}
  THEN <<run>> ELSE <<>>
ReadRecords(files) ==
  IF IsA(files, SummaryPath, "file") THEN ReadSummary(files, files[SummaryPath].body) ELSE <<>>

-----------------------------------------------------------------------------
(***************************************************************************)
(* What the records promise.                                               *)
(***************************************************************************)
\* Whatever a provider answers, each page is in the run once, as evidence or
\* as an error; only reliable native text goes without the provider, and it
\* keeps its words in their order.  No word is outside its page, and no two of
\* a line are at one place in the reading order.
RoutesCoverPages(scans) ==
  LET texts(words) == [k \in DOMAIN words |-> words[k].text]
      orders(words) == [k \in DOMAIN words |-> words[k].order]
  IN  \A run \in ToSet(RunSession(scans)) :
        /\ \A k \in DOMAIN scans :
             Cardinality({i \in DOMAIN run.pages : run.pages[i].index = k - 1})
               + Cardinality({i \in DOMAIN run.errors : run.errors[i].index = k - 1}) = 1
        /\ Len(run.pages) + Len(run.errors) = Len(scans)
        /\ \A page \in ToSet(run.pages) :
             /\ IF page.route = "native_text"
                THEN /\ ~scans[page.index + 1].native.garbled
                     /\ texts(WordsOf(page))
                          = FlattenSeq(scans[page.index + 1].native.lines)
                ELSE /\ scans[page.index + 1].answer = "evidence"
                     /\ page.blocks = scans[page.index + 1].evidence.blocks
             /\ Every(WordsOf(page), LAMBDA v : v.box.x + v.box.w <= (page.w + 1) * v.box.den)
             /\ Every(LinesOf(page), LAMBDA l : Distinct(orders(l.words)))

\* Records that were installed are read back as they were written, page by
\* page too, and are not installed twice.
RecordsRoundTrip(files, run) ==
  LET after == WriteRecords(files, run)
  IN  after # RefusedFiles =>
        /\ ReadRecords(after) = <<run>>
        /\ \A k \in DOMAIN run.pages : ReadOcrPage(after, run.pages[k].index) = <<run.pages[k]>>
        /\ WriteRecords(after, run) = RefusedFiles

\* "The ocr/summary.json record is incomplete when any page fails"
\* (docs/cli.md:82): a run none of whose pages failed can be installed.
CompleteRunsInstall(files, scans) ==
  LET run == RunSession(scans)
  IN  run # <<>> /\ run[1].errors = <<>> => WriteRecords(files, run[1]) # RefusedFiles
=============================================================================
