----------------------------- MODULE PdfRoutes ------------------------------
(***************************************************************************)
(* The conversion routes of the server as functions of a request: the      *)
(* upload of the files, the checks of the form in their order, the engine  *)
(* operations a route strings together, and the jobs it leaves to the      *)
(* webhook workers.  A request is a form and the parts uploaded with it;   *)
(* what a route returns is a set of outcomes whose docs hold, per input    *)
(* file, the documents made of it (one list when they make one document).  *)
(*                                                                         *)
(* A form is a record with these fields ("" or <<>> is an absent field     *)
(* unless said otherwise):                                                 *)
(*   route; async (a webhook header without sync mode);                    *)
(*   bad: the group of fields that holds a value that does not parse;      *)
(*   user, owner: userPassword and ownerPassword; password: of decrypt,    *)
(*   "-" when absent;                                                      *)
(*   title: the title in the metadata field, "-" when it has none, with    *)
(*   meta: whether the field is there;                                     *)
(*   auto: autoIndexBookmarks; marks: the bookmarks field, for every file  *)
(*   or, with only # <<>>, for the file of that name;                      *)
(*   mode, span, unify: of split, span -1 when absent;                     *)
(*   ranges: splitSpan, rotatePages or nativePageRanges;                   *)
(*   angle: rotateAngle, -1 when absent;                                   *)
(*   source, text, allPages, stamped: of watermark and stamp (stamped: a   *)
(*   stamp file is uploaded, and it is a PNG);                             *)
(*   embeds: names of the files to attach; pdfa, pdfua; backend;           *)
(*   page: "index" or "md", the page uploaded to a Chromium route ("both"  *)
(*   to preview_compare, which takes two);                                 *)
(*   merge: of LibreOffice.                                                *)
(***************************************************************************)
EXTENDS PdfOps

-----------------------------------------------------------------------------
(* Uploads.  A part is [name, fetched, doc]; names are <<stem, n, m, ...>> *)
(* for "stem-n-m.pdf".  Downloads come after the uploads.                  *)

\* mutant: uploads are stored under their file names.
PathUnchanged(parts, i) == parts[i].name

\* The name on disk: the file name, or the first free -n.  "Free" looks at the
\* file names of the earlier parts, not at the names they were stored under.  A
\* download is stored under its own name.
Path(parts, i) ==
  LET taken == {parts[j].name : j \in 1..(i - 1)}
      free == {n \in 1..i : Append(parts[i].name, n) \notin taken}
  IN IF parts[i].fetched \/ parts[i].name \notin taken THEN parts[i].name
     ELSE Append(parts[i].name, CHOOSE n \in free : \A m \in free : n <= m)

\* Files are read from the disk after all parts have been stored.
Content(parts, i) ==
  parts[CHOOSE j \in DOMAIN parts :
          /\ Path(parts, j) = Path(parts, i)
          /\ \A k \in DOMAIN parts : Path(parts, k) = Path(parts, i) => k <= j].doc

Received(parts) == [i \in DOMAIN parts |-> Content(parts, i)]

\* A download is refused by the allow and deny lists, or fails for good after
\* its retries.
Unfetched(parts) ==
  IF \E i \in DOMAIN parts : parts[i].fetched THEN {Fail("InvalidField"), Fail("Internal")} ELSE {}

-----------------------------------------------------------------------------
(* What the handlers are built from.                                       *)

AsInternal(outs) == {IF Succeeded(o) THEN o ELSE Fail("Internal") : o \in outs}

Then(outs, G(_)) ==
  {o \in outs : ~Succeeded(o)} \cup UNION {G(o.docs) : o \in {x \in outs : Succeeded(x)}}

\* An operation on every file in turn, outs[i] being what it can come to on the
\* i-th; the first error ends the request.
Each(outs) ==
  {IF Failed(os) # {} THEN FirstFailure(os) ELSE Done([i \in DOMAIN os |-> os[i].docs])
   : os \in Ways(outs)}

\* One document of all the files.
Whole(outs) == {IF Succeeded(o) THEN Done(<<o.docs>>) ELSE o : o \in outs}

\* The single documents of Each.
Singles(outs) ==
  {IF Succeeded(o) THEN Done([i \in DOMAIN o.docs |-> o.docs[i][1]]) ELSE o : o \in outs}

\* Answers keyed by file name: of files with one name the last one's stays.
LastOfName(parts, docs) ==
  [i \in DOMAIN docs |->
     IF \E j \in (i + 1)..Len(parts) : parts[j].name = parts[i].name THEN <<>> ELSE docs[i]]
ByName(parts, outs) ==
  {IF Succeeded(o) THEN Done(LastOfName(parts, o.docs)) ELSE o : o \in outs}

Meta(f) == [title |-> f.title, badKey |-> f.bad = "metadataKey"]

MetadataField(d, f) ==
  IF ~f.meta THEN {Done(<<d>>)}
  ELSE IF f.bad = "metadata" THEN {Fail("InvalidField")}
  ELSE WriteMetadata(d, Meta(f))

\* mutant: a request with only one of the passwords is not encrypted.
ApplyEncryptionToBoth(d, f) ==
  IF f.user = Absent \/ f.owner = Absent THEN {Done(<<d>>)}
  ELSE AsInternal(EncryptPdf(d, f.user, f.owner))

\* Empty passwords count as absent; errors of qpdf are internal errors.
ApplyEncryption(d, f) ==
  IF f.user = Absent /\ f.owner = Absent THEN {Done(<<d>>)}
  ELSE AsInternal(EncryptPdf(d, f.user, f.owner))

Finished(d, f) == Bind(MetadataField(d, f), LAMBDA x : ApplyEncryption(x, f))

-----------------------------------------------------------------------------
(* The checks before any work is done: the kind of error, or "none".       *)

First(kinds) ==
  LET raised == {i \in DOMAIN kinds : kinds[i] # "none"}
  IN IF raised = {} THEN "none" ELSE kinds[CHOOSE i \in raised : \A j \in raised : i <= j]

Unless(ok, kind) == IF ok THEN "none" ELSE kind

PdfATogether(f) ==
  First(<<Unless(f.bad # "pdfa", "InvalidField"),
          Unless(f.pdfa = Absent \/ (f.user = Absent /\ f.owner = Absent), "InvalidField")>>)

StampFile(f) == Unless(f.source = "text" \/ f.stamped # "none", "InvalidField")

\* "intervals" wants a number, "pages" a list of ranges.
SplitModeField(f) ==
  CASE f.mode = "intervals" ->
         First(<<Unless(f.span # -1, "MissingField"), Unless(f.bad # "span", "InvalidField")>>)
    [] f.mode = "pages" ->
         First(<<Unless(f.ranges # <<>>, "MissingField"),
                 Unless(ParsesAsRanges(f.ranges), "InvalidPageRange")>>)
    [] OTHER -> "InvalidField"

AngleField(f) ==
  First(<<Unless(f.angle # -1, "MissingField"),
          Unless(f.angle \in {0, 90, 180, 270}, "InvalidField"),
          Unless(f.ranges = <<>> \/ ParsesAsRanges(f.ranges), "InvalidPageRange")>>)

WatermarkFields(f) ==
  CASE f.source = "text" -> Unless(f.text # Absent, "MissingField")
    [] f.source \in {"image", "pdf"} -> StampFile(f)
    [] OTHER -> "InvalidField"

\* The engine options of the Chromium routes, all parsed before a page is opened.
PdfOptionFields(f) == Unless(f.bad # "options", "InvalidField")
RequestContext(f) == Unless(f.bad # "context", "InvalidField")
ScreenshotFields(f) == Unless(f.bad # "options", "InvalidField")

\* Two groups of fields only the HTML route looks at.
NativePageRanges(f) == Unless(f.ranges = <<>> \/ ParsesAsRanges(f.ranges), "InvalidField")
ExtraFields(f) == Unless(f.bad \notin {"splitMode", "pdfa"}, "InvalidField")

UrlField(f) == Unless(f.bad # "url", "InvalidField")

\* A template and the markdown files it links, all of which must be uploaded; or
\* one markdown file.
MarkdownLinks(f) == Unless(f.bad # "link", "MissingFile")
MarkdownPages(f) == First(<<MarkdownLinks(f), Unless(f.page \in {"index", "md"}, "MissingFile")>>)
IndexPage(f) == Unless(f.page = "index", "MissingFile")

\* The one file of a preview, read as UTF-8; the format of the image.
PreviewFile(f) == First(<<Unless(f.page # Absent, "InvalidField"), Unless(f.bad # "utf8", "InvalidField")>>)
PreviewFormat(f) == Unless(f.bad # "options", "InvalidField")

OfficeOptions(f) ==
  First(<<Unless(f.bad # "options", "InvalidField"),
          Unless(f.ranges = <<>> \/ ParsesAsRanges(f.ranges), "InvalidPageRange")>>)
MergeFlag(f) == Unless(f.bad # "merge", "InvalidField")

Some(n) == Unless(n > 0, "MissingFile")
ExactlyOne(n) == Unless(n = 1, "InvalidField")

\* n is the number of files.
Refusal(f, n) ==
  CASE f.route = "merge" -> First(<<Unless(n >= 2, "InvalidField"), PdfATogether(f), StampFile(f)>>)
    [] f.route = "split" -> First(<<Some(n), PdfATogether(f), StampFile(f), SplitModeField(f)>>)
    [] f.route \in {"flatten", "metadata_read", "bookmarks_read", "encrypt"} -> Some(n)
    [] f.route = "metadata_write" ->
         First(<<Some(n), Unless(f.meta, "MissingField"),
                 Unless(f.bad \notin {"metadata", "control"}, "InvalidField")>>)
    [] f.route = "rotate" -> First(<<Some(n), AngleField(f)>>)
    [] f.route = "embed" -> First(<<ExactlyOne(n), Unless(f.embeds # <<>>, "InvalidField")>>)
    [] f.route = "convert" ->
         First(<<Some(n), Unless(f.pdfa # Absent \/ f.pdfua, "InvalidField"),
                 Unless(f.bad # "pdfa", "InvalidField")>>)
    [] f.route = "bookmarks_write" ->
         First(<<Some(n), Unless(f.bad # "bookmarks", "InvalidField")>>)
    [] f.route \in {"watermark", "stamp"} -> First(<<Some(n), WatermarkFields(f)>>)
    [] f.route = "decrypt" -> First(<<ExactlyOne(n), Unless(f.password # "-", "MissingField")>>)
    [] f.route = "optimise" -> First(<<ExactlyOne(n), Unless(f.bad # "preset", "InvalidField")>>)
    [] f.route = "html" ->
         First(<<IndexPage(f), PdfOptionFields(f), RequestContext(f), NativePageRanges(f), ExtraFields(f)>>)
    [] f.route = "url" -> First(<<UrlField(f), PdfOptionFields(f), RequestContext(f)>>)
    [] f.route = "markdown" -> First(<<PdfOptionFields(f), RequestContext(f), MarkdownPages(f)>>)
    [] f.route = "screenshot_html" -> First(<<IndexPage(f), ScreenshotFields(f)>>)
    [] f.route = "screenshot_url" -> ScreenshotFields(f)
    [] f.route = "screenshot_markdown" -> First(<<IndexPage(f), MarkdownLinks(f), ScreenshotFields(f)>>)
    [] f.route = "preview_url" -> PreviewFormat(f)
    [] f.route \in {"preview_html", "preview_markdown"} -> First(<<PreviewFile(f), PreviewFormat(f)>>)
    [] f.route = "preview_compare" ->
         First(<<Unless(f.page = "both", "InvalidField"), PreviewFile(f)>>)
    [] f.route = "office" -> First(<<OfficeOptions(f), MergeFlag(f), Some(n)>>)

-----------------------------------------------------------------------------
(* merge                                                                   *)

PagesBefore(ds, i) == Len(FlattenSeq([j \in 1..(i - 1) |-> ds[j].pages]))

\* mutant: offset by the pages of the file itself as well.
ReindexedTooFar(lists, ds) ==
  FlattenSeq([i \in DOMAIN ds |->
    [k \in DOMAIN lists[i] |-> [lists[i][k] EXCEPT !.page = @ + PagesBefore(ds, i + 1)]]])

\* The bookmarks of all the files, the top-level ones moved by the pages of the
\* files before; the children of a bookmark keep their pages.
Reindexed(lists, ds) ==
  FlattenSeq([i \in DOMAIN ds |->
    [k \in DOMAIN lists[i] |->
       IF lists[i][k].level = 1 THEN [lists[i][k] EXCEPT !.page = @ + PagesBefore(ds, i)]
       ELSE lists[i][k]]])

BookmarkLists(f, ds) ==
  IF f.auto THEN Singles(Each([i \in DOMAIN ds |-> ReadBookmarks(ds[i])])) ELSE {Done(<<>>)}

BookmarksField(d, f, lists, ds) ==
  IF f.marks # <<>> THEN WriteBookmarks(d, f.marks)
  ELSE IF f.auto /\ Reindexed(lists, ds) # <<>> THEN WriteBookmarks(d, Reindexed(lists, ds))
  ELSE {Done(<<d>>)}

MergeWith(f, ds, lists) ==
  Bind(Merge(ds), LAMBDA d :
    Bind(MetadataField(d, f), LAMBDA x :
      IF f.bad = "bookmarks" THEN {Fail("InvalidField")}
      ELSE Bind(BookmarksField(x, f, lists, ds), LAMBDA y : ApplyEncryption(y, f))))

MergeFiles(f, ds) == Whole(Then(BookmarkLists(f, ds), LAMBDA lists : MergeWith(f, ds, lists)))

-----------------------------------------------------------------------------
(* split                                                                   *)

\* In "pages" mode every selected page is a chunk; the selection is sorted and
\* duplicates are dropped.
SplitMode(f, d) ==
  IF f.mode = "intervals" THEN [kind |-> "every", n |-> f.span]
  ELSE [kind |-> "pages", pages |-> Ascending(Selected(f.ranges, Len(d.pages)))]

FileChunks(f, d) ==
  Then(Split(d, SplitMode(f, d)), LAMBDA cs :
    IF cs = <<>> THEN {Fail("InvalidField")} ELSE {Done(cs)})

EncryptChunks(f, chunks) ==
  Singles(Each([c \in DOMAIN chunks |-> ApplyEncryption(chunks[c], f)]))

\* cs: the chunks of every file.
Delivered(f, cs) ==
  IF f.unify /\ f.mode = "pages" /\ Len(cs) = 1
  THEN Whole(Bind(Merge(cs[1]), LAMBDA d : ApplyEncryption(d, f)))
  ELSE Each([i \in DOMAIN cs |-> EncryptChunks(f, cs[i])])

SplitFiles(f, ds) ==
  Then(Each([i \in DOMAIN ds |-> FileChunks(f, ds[i])]), LAMBDA cs : Delivered(f, cs))

-----------------------------------------------------------------------------
(* The other PDF routes: one result per file                               *)

FlattenFiles(ds) == Each([i \in DOMAIN ds |-> Flatten(ds[i])])

ReadMetadataOfFiles(parts, ds) ==
  ByName(parts, Each([i \in DOMAIN ds |-> ReadMetadata(ds[i])]))
WriteMetadataOfFiles(f, ds) == Each([i \in DOMAIN ds |-> WriteMetadata(ds[i], Meta(f))])

\* All pages unless the form names some.
RotateFiles(f, ds) ==
  LET rs == IF f.ranges = <<>> THEN <<[from |-> 1, to |-> 0]>> ELSE f.ranges
  IN Each([i \in DOMAIN ds |-> AsInternal(Rotate(ds[i], rs, f.angle))])

\* qpdf once per attachment, each run on the last one's output; a name that is
\* attached already is refused.
Attached(d, names) == [d EXCEPT !.files = @ \cup ToSet(names)]
Attach(d, names) ==
  Bind(Qpdf(d), LAMBDA x :
    IF ToSet(names) \cap x.files # {} \/ ~IsInjective(names) THEN Trouble
    ELSE {Done(<<Attached(x, names)>>)})
EmbedInFile(f, ds) == Each([i \in DOMAIN ds |-> AsInternal(Attach(ds[i], f.embeds))])

\* PDF/UA alone returns the files as they are.
ConvertFiles(f, ds) ==
  Each([i \in DOMAIN ds |->
          IF f.pdfa = Absent THEN {Done(<<ds[i]>>)} ELSE AsInternal(ConvertToPdfA(ds[i]))])

ReadBookmarksOfFiles(parts, ds) ==
  ByName(parts, Each([i \in DOMAIN ds |-> AsInternal(ReadBookmarks(ds[i]))]))

\* One list for every file, or one for the file of a name and none for the rest.
BookmarksFor(f, name) == IF f.only # <<>> /\ f.only # name THEN <<>> ELSE f.marks
WriteBookmarksOfFiles(f, parts, ds) ==
  Each([i \in DOMAIN ds |-> AsInternal(WriteBookmarks(ds[i], BookmarksFor(f, parts[i].name)))])

\* A PDF given as a watermark is handled as an image, and refused as one.  The
\* font size is fixed.
WatermarkOptions(f) ==
  [kind |-> IF f.source = "text" THEN "text" ELSE "image", text |-> f.text, size |-> 48,
   png |-> f.stamped = "png", allPages |-> f.allPages]
WatermarkFiles(f, ds) ==
  Each([i \in DOMAIN ds |-> AsInternal(Watermark(ds[i], WatermarkOptions(f)))])

\* A stamp is drawn like a watermark, over the page.
StampFiles(f, ds) ==
  Each([i \in DOMAIN ds |-> AsInternal(Watermark(ds[i], WatermarkOptions(f)))])

EncryptFiles(f, ds) == Each([i \in DOMAIN ds |-> EncryptPdf(ds[i], f.user, f.owner)])
DecryptFile(f, ds) == Each([i \in DOMAIN ds |-> DecryptPdf(ds[i], f.password)])
OptimiseFile(f, ds) == Each([i \in DOMAIN ds |-> OptimisePdf(ds[i], f.backend)])

-----------------------------------------------------------------------------
(* The conversion routes: what the engines make, then metadata and lock.   *)

\* Of the page the model knows that it takes two pages of paper.
Rendered ==
  [pages |-> [p \in 1..2 |-> [src |-> <<"rendered", p>>, turn |-> 0, lent |-> {}, marks |-> <<>>,
                              annots |-> FALSE]],
   ids |-> <<>>, outline |-> <<>>, title |-> Absent, form |-> FALSE, files |-> {}, user |-> Absent, owner |-> Absent]

Render == {Done(<<Rendered>>), Fail("Navigation"), Fail("Timeout"), Fail("Internal")}

\* Ranges beyond the rendered pages are an error; they select nothing.
NativeRanges(f, d) ==
  IF f.ranges # <<>> /\ Selected(f.ranges, Len(d.pages)) = {} THEN {Fail("InvalidField")}
  ELSE {Done(<<d>>)}

HtmlPage(f) ==
  Bind(Render, LAMBDA d : Bind(NativeRanges(f, d), LAMBDA x : Finished(x, f)))

\* The URL route reads neither metadata nor passwords.
UrlPage == Render

MarkdownPage(f) == Bind(Render, LAMBDA d : Finished(d, f))

Screenshots == {"screenshot_html", "screenshot_url", "screenshot_markdown"}

\* An image: no document.
Screenshot == {IF Succeeded(o) THEN Done(<<>>) ELSE o : o \in Render}

\* A preview is an image, too; whatever goes wrong is an internal error.
Previews == {"preview_url", "preview_html", "preview_markdown"}
Preview == AsInternal(Screenshot)

\* Both pages are captured, the one after the other; the answer is the second.
PreviewCompare == Then(Preview, LAMBDA before : Preview)

\* The uploads stand for office documents by the pages they print to.  A
\* protected one is an error of its own.
Printout(d) == [Rendered EXCEPT !.pages = d.pages]
OfficeConvert(d) ==
  Trouble \cup {Fail("Timeout"), Fail("Corrupted")} \cup
  (IF NeedsPassword(d) THEN {Fail("Encrypted")}
   ELSE {Done(<<Printout(d)>>)})

Printouts(ds) == [i \in DOMAIN ds |-> OfficeConvert(ds[i])]

OfficeFiles(f, ds) ==
  Then(Singles(Each(Printouts(ds))), LAMBDA outs :
    IF f.merge /\ Len(outs) > 1 THEN Whole(Bind(Merge(outs), LAMBDA d : Finished(d, f)))
    ELSE IF Len(outs) = 1 THEN Whole(Finished(outs[1], f))
    ELSE {Done([i \in DOMAIN outs |-> <<outs[i]>>])})

-----------------------------------------------------------------------------
(* A request answered on the spot, once it is not refused.                 *)

Convert(f, parts, ds) ==
  CASE f.route = "merge" -> MergeFiles(f, ds)
    [] f.route = "split" -> SplitFiles(f, ds)
    [] f.route = "flatten" -> FlattenFiles(ds)
    [] f.route = "metadata_read" -> ReadMetadataOfFiles(parts, ds)
    [] f.route = "metadata_write" -> WriteMetadataOfFiles(f, ds)
    [] f.route = "rotate" -> RotateFiles(f, ds)
    [] f.route = "embed" -> EmbedInFile(f, ds)
    [] f.route = "convert" -> ConvertFiles(f, ds)
    [] f.route = "bookmarks_read" -> ReadBookmarksOfFiles(parts, ds)
    [] f.route = "bookmarks_write" -> WriteBookmarksOfFiles(f, parts, ds)
    [] f.route = "watermark" -> WatermarkFiles(f, ds)
    [] f.route = "stamp" -> StampFiles(f, ds)
    [] f.route = "encrypt" -> EncryptFiles(f, ds)
    [] f.route = "decrypt" -> DecryptFile(f, ds)
    [] f.route = "optimise" -> OptimiseFile(f, ds)
    [] f.route = "html" -> Whole(HtmlPage(f))
    [] f.route = "url" -> Whole(UrlPage)
    [] f.route = "markdown" -> Whole(MarkdownPage(f))
    [] f.route \in Screenshots -> Whole(Screenshot)
    [] f.route \in Previews -> Whole(Preview)
    [] f.route = "preview_compare" -> Whole(PreviewCompare)
    [] f.route = "office" -> OfficeFiles(f, ds)

\* The routes that read the webhook headers, some for a single file only.
Spawns(f, n) ==
  f.async /\ \/ f.route \in {"merge", "decrypt", "optimise", "html", "url", "markdown", "office"}
             \/ f.route \in Screenshots
             \/ f.route \in {"flatten", "metadata_read", "metadata_write"} /\ n = 1

\* A worker's execute_job.  The job carries the files and the engine's options;
\* what else the form asks for is not part of it.
PdfJob(f, ds) ==
  CASE f.route = "merge" -> Whole(Merge(ds))
    [] f.route = "flatten" -> FlattenFiles(ds)
    [] f.route = "metadata_read" -> Each([i \in DOMAIN ds |-> ReadMetadata(ds[i])])
    [] f.route = "metadata_write" -> WriteMetadataOfFiles(f, ds)
    [] f.route = "decrypt" -> DecryptFile(f, ds)
    [] f.route = "optimise" -> OptimiseFile(f, ds)

ChromiumJob(f) == IF f.route \in Screenshots THEN Whole(Screenshot) ELSE Whole(Render)

\* Of a job that merges only the first file is converted.
OfficeJob(f, ds) ==
  IF Len(ds) = 1 \/ f.merge THEN Whole(OfficeConvert(ds[1])) ELSE Each(Printouts(ds))

RunJob(f, ds) ==
  IF f.route = "office" THEN OfficeJob(f, ds)
  ELSE IF f.route \in {"html", "url", "markdown"} \cup Screenshots THEN ChromiumJob(f)
  ELSE PdfJob(f, ds)

Status(kind) ==
  CASE kind = "none" -> 200
    [] kind \in {"InvalidOption", "InvalidPageRange", "MissingField", "MissingFile", "InvalidField"} -> 400
    [] kind = "Navigation" -> 502
    [] kind = "Timeout" -> 504
    [] kind \in {"Encrypted", "Corrupted"} -> 422
    [] OTHER -> 500
=============================================================================
