------------------------------- MODULE PdfOps -------------------------------
(***************************************************************************)
(* The PDF operations of the engine crate: pdfops/, encrypt/, pdfa/ and    *)
(* bookmarks/.  They are functions of documents; a document is what the    *)
(* operations can tell apart:                                              *)
(*                                                                         *)
(*   pages    in order, each with the page it descends from (src), its own *)
(*            rotation in quarter turns (0 when it has none), the          *)
(*            attributes the page tree lends it because it has none of its *)
(*            own, the texts drawn on it, and whether it carries           *)
(*            annotations;                                                 *)
(*   ids      the object numbers of the pages, <<>> when they are not      *)
(*            known;                                                       *)
(*   outline  the bookmarks, the tree flattened in preorder: level 1 is    *)
(*            top level, and "num" is the OBJECT NUMBER of the destination *)
(*            (see WriteBookmarks), 0 when nothing is known of it;         *)
(*   title    the information dictionary's /Title;                         *)
(*   form     whether it has an /AcroForm;                                 *)
(*   files    the names of its attachments;                                *)
(*   user, owner   its passwords, "" when there is none.                   *)
(*                                                                         *)
(* What an operation returns is a set of outcomes: which one occurs may    *)
(* depend on the machine (the tools installed, the temporary directory) or *)
(* on details of the file the model leaves out.                            *)
(***************************************************************************)
EXTENDS Integers, Sequences, FiniteSets, SequencesExt, Ranking

Done(ds) == [error |-> "none", docs |-> ds]
Fail(kind) == [error |-> kind, docs |-> <<>>]
Succeeded(o) == o.error = "none"

\* Errors every operation can meet: a file that does not parse, a full disk, a
\* tool that is not installed.
Trouble == {Fail("Internal")}

\* What operations on several files came to, one outcome for each; the first of
\* them that failed.
Ways(outs) ==
  {os \in [DOMAIN outs -> UNION Range(outs)] : \A i \in DOMAIN outs : os[i] \in outs[i]}
Failed(os) == {i \in DOMAIN os : ~Succeeded(os[i])}
FirstFailure(os) == os[CHOOSE i \in Failed(os) : \A j \in Failed(os) : i <= j]

\* Rust's `?` on an operation that returns one document.
Bind(outs, F(_)) ==
  {o \in outs : ~Succeeded(o)} \cup UNION {F(o.docs[1]) : o \in {x \in outs : Succeeded(x)}}

Inheritable == {"Resources", "MediaBox", "CropBox", "Rotate"}

IsPage(p) ==
  /\ p = [src |-> p.src, turn |-> p.turn, lent |-> p.lent, marks |-> p.marks, annots |-> p.annots]
  /\ p.turn \in 0..3
  /\ p.lent \subseteq Inheritable
IsSequence(s) == s \in Seq(Range(s))
ArePages(ps) == IsSequence(ps) /\ \A k \in DOMAIN ps : IsPage(ps[k])
IsDocument(d) ==
  /\ d = [pages |-> d.pages, ids |-> d.ids, outline |-> d.outline, title |-> d.title,
          form |-> d.form, files |-> d.files, user |-> d.user, owner |-> d.owner]
  /\ ArePages(d.pages)
  /\ IsSequence(d.outline)

\* A password, a title or a field that is not there, or empty.
Absent == ""

Locked(d) == d.user # Absent \/ d.owner # Absent
NeedsPassword(d) == d.user # Absent
Keyed(d, user, owner) == [d EXCEPT !.user = user, !.owner = owner]
Unlocked(d) == Keyed(d, Absent, Absent)

\* The objects were renumbered: the object numbers of the pages and of the
\* destinations are unknown.
Renumbered(d) ==
  [d EXCEPT !.outline = [i \in DOMAIN d.outline |-> [d.outline[i] EXCEPT !.num = 0]],
            !.ids = <<>>]

\* mutant: the encryption gate is dropped, and the lock with it.
OpenAnything(d) == {Done(<<Unlocked(d)>>)}

\* lopdf opens a document without a user password by itself (the empty
\* password); the test in the code then sees the lock or no longer sees it.
Open(d) ==
  Trouble \cup
  (IF Locked(d) THEN {Fail("InvalidOption")} ELSE {}) \cup
  (IF NeedsPassword(d) THEN {} ELSE {Done(<<Unlocked(d)>>)})

-----------------------------------------------------------------------------
(* Page ranges.  A segment is [from, to]; to = 0 for the open "n-".        *)

ParsesAsRanges(rs) ==
  rs # <<>> /\ \A i \in DOMAIN rs : rs[i].from >= 1 /\ (rs[i].to = 0 \/ rs[i].to >= rs[i].from)

Selected(rs, total) ==
  {p \in 1..total : \E i \in DOMAIN rs : rs[i].from <= p /\ (rs[i].to = 0 \/ p <= rs[i].to)}

-----------------------------------------------------------------------------
(* merge                                                                   *)

\* Pages under a /Pages node that has nothing to lend.
Severed(ps) == [k \in DOMAIN ps |-> [ps[k] EXCEPT !.lent = {}]]

\* mutant: the pages are collected from the last input to the first.
JoinedReversed(ds) ==
  [ds[1] EXCEPT !.pages = Severed(FlattenSeq([i \in DOMAIN ds |-> ds[Len(ds) + 1 - i].pages])),
                !.ids = <<>>, !.outline = Renumbered(ds[1]).outline,
                !.title = Absent, !.form = FALSE, !.files = {}]

\* The pages in the order of the inputs.  Their old /Pages nodes are left behind,
\* and with them what these lent, a rotation, resources or a media box; of the rest
\* only the first input's outline is wired into the new catalog.
Joined(ds) ==
  [ds[1] EXCEPT !.pages = Severed(FlattenSeq([i \in DOMAIN ds |-> ds[i].pages])),
                !.ids = <<>>, !.outline = Renumbered(ds[1]).outline,
                !.title = Absent, !.form = FALSE, !.files = {}]

Opened(ds) == Ways([i \in DOMAIN ds |-> Open(ds[i])])

\* Every input is opened before anything is built: the first that fails decides.
Merge(ds) ==
  IF ds = <<>> THEN {Fail("InvalidOption")}
  ELSE {IF Failed(os) # {} THEN FirstFailure(os)
        ELSE Done(<<IF Len(ds) = 1 THEN os[1].docs[1]
                    ELSE Joined([i \in DOMAIN ds |-> os[i].docs[1]])>>)
        : os \in Opened(ds)}

-----------------------------------------------------------------------------
(* split: [kind |-> "every", n], [kind |-> "pages", pages] (a sequence of  *)
(* page numbers) or [kind |-> "ranges", chunks] (a sequence of ranges).    *)

\* mutant: a last chunk shorter than n is lost.
EveryNWhole(total, n) == [c \in 1..(total \div n) |-> ((c - 1) * n + 1)..(c * n)]

EveryN(total, n) ==
  [c \in 1..((total + n - 1) \div n) |->
     ((c - 1) * n + 1)..(IF c * n > total THEN total ELSE c * n)]

Chunks(mode, total) ==
  CASE mode.kind = "every" -> EveryN(total, mode.n)
    [] mode.kind = "pages" ->
         LET there == At(mode.pages, {n \in DOMAIN mode.pages : mode.pages[n] \in 1..total})
         IN [i \in DOMAIN there |-> {there[i]}]
    [] mode.kind = "ranges" ->
         LET chosen == [i \in DOMAIN mode.chunks |-> Selected(mode.chunks[i], total)]
         IN At(chosen, {i \in DOMAIN chosen : chosen[i] # {}})

\* delete_pages on a clone; references to a deleted object go with it, and a
\* destination may be taken for one.
Keep(d, ps) ==
  IF ps = DOMAIN d.pages THEN d
  ELSE [Renumbered(d) EXCEPT !.pages = At(d.pages, ps)]

Split(d, mode) ==
  IF mode.kind = "every" /\ mode.n = 0 THEN {Fail("InvalidOption")}
  ELSE Bind(Open(d), LAMBDA x :
         {LET cs == Chunks(mode, Len(x.pages)) IN Done([i \in DOMAIN cs |-> Keep(x, cs[i])])})

-----------------------------------------------------------------------------
(* rotate, flatten, watermark, metadata                                    *)

\* mutant: the turns are added up without wrapping round.
TurnedUnbounded(d, rs, quarters) ==
  [d EXCEPT !.pages = [p \in DOMAIN d.pages |->
     IF p \in Selected(rs, Len(d.pages))
     THEN [d.pages[p] EXCEPT !.turn = @ + quarters, !.lent = @ \ {"Rotate"}] ELSE d.pages[p]]]

\* Counted from the page's own rotation, none being 0: one that the page tree lent
\* it is not looked at, and hidden from then on.
Turned(d, rs, quarters) ==
  [d EXCEPT !.pages = [p \in DOMAIN d.pages |->
     IF p \in Selected(rs, Len(d.pages))
     THEN [d.pages[p] EXCEPT !.turn = (@ + quarters) % 4, !.lent = @ \ {"Rotate"}]
     ELSE d.pages[p]]]

Rotate(d, rs, angle) ==
  IF angle % 90 # 0 THEN {Fail("InvalidOption")}
  ELSE Bind(Open(d), LAMBDA x : {Done(<<Turned(x, rs, (angle % 360) \div 90)>>)})

Flattened(d) ==
  [d EXCEPT !.form = FALSE,
            !.pages = [p \in DOMAIN d.pages |-> [d.pages[p] EXCEPT !.annots = FALSE]]]

Flatten(d) == Bind(Open(d), LAMBDA x : {Done(<<Flattened(x)>>)})

\* An image is checked to be a PNG and draws nothing; a text is drawn on every
\* page or on the odd ones.  opts.size is the font size, which must be positive.  A
\* page without resources of its own gets some, with nothing but the font, which
\* hide those it was lent.
Drawn(d, opts) ==
  [d EXCEPT !.pages = [p \in DOMAIN d.pages |->
     IF opts.kind = "text" /\ (opts.allPages \/ p % 2 = 1)
     THEN [d.pages[p] EXCEPT !.marks = Append(@, opts.text), !.lent = @ \ {"Resources"}]
     ELSE d.pages[p]]]

Watermark(d, opts) ==
  IF (opts.kind = "image" /\ ~opts.png) \/ (opts.kind = "text" /\ opts.size <= 0)
  THEN {Fail("InvalidOption")}
  ELSE Bind(Open(d), LAMBDA x : {Done(<<Drawn(x, opts)>>)})

\* meta.title: "-" leaves the title alone, "" removes it.
Titled(d, title) == IF title = "-" THEN d ELSE [d EXCEPT !.title = title]

WriteMetadata(d, meta) ==
  IF meta.badKey THEN {Fail("InvalidOption")}
  ELSE Bind(Open(d), LAMBDA x : {Done(<<Titled(x, meta.title)>>)})

ReadMetadata(d) == Bind(Open(d), LAMBDA x : {Done(<<x.title>>)})

-----------------------------------------------------------------------------
(* The external tools: qpdf and Ghostscript, run on temporary files.  qpdf *)
(* opens what needs no password, writes every object anew and keeps what   *)
(* the document contains and its lock.  Ghostscript opens the same, prints *)
(* the pages, and may or may not carry the rest over; its output is not    *)
(* locked.  Where a tool puts an attribute of a page, on it or in the page *)
(* tree, is left as it was.                                                *)

Qpdf(d) == Trouble \cup (IF NeedsPassword(d) THEN {} ELSE {Done(<<Renumbered(d)>>)})

Printed(d, outline, form, files) ==
  [Renumbered(Unlocked(d)) EXCEPT !.outline = outline, !.form = form, !.files = files]

Ghostscript(d) ==
  Trouble \cup
  (IF NeedsPassword(d) THEN {}
   ELSE {Done(<<Printed(d, o, m, a)>>) :
           o \in {<<>>, Renumbered(d).outline}, m \in {FALSE, d.form}, a \in {{}, d.files}})

\* The preferred backend when it is there, else every backend that is there in
\* order; a failed one hands over to the next.
OptimisePdf(d, backend) ==
  CASE backend = "qpdf" -> Qpdf(d) \cup Ghostscript(d)
    [] OTHER -> Ghostscript(d) \cup Qpdf(d)

\* PDF/A by Ghostscript; when that fails, qpdf with an option it may not know.
ConvertToPdfA(d) == Ghostscript(d) \cup Qpdf(d) \cup {Fail("Timeout")}

\* mutant: the first argument of qpdf --encrypt, the user password, left empty.
EncryptOwnerOnly(d, user, owner) ==
  Trouble \cup
  (IF NeedsPassword(d) THEN {}
   ELSE {Done(<<Keyed(Renumbered(d), Absent, IF owner = Absent THEN user ELSE owner)>>)})

Secured(d, user, owner) ==
  Keyed(Renumbered(d), user, IF owner = Absent THEN user ELSE owner)

\* qpdf --encrypt USER OWNER.  An empty owner password with a user password is
\* refused by some versions of qpdf and replaced by the user password in others.
EncryptPdf(d, user, owner) ==
  IF user = Absent /\ owner = Absent THEN {Fail("InvalidOption")}
  ELSE Trouble \cup {Fail("Timeout")} \cup
       (IF NeedsPassword(d) THEN {}
        ELSE {Done(<<Secured(d, user, owner)>>)})

\* mutant: the password is not handed to qpdf.
DecryptAnything(d, password) == {Done(<<Renumbered(Unlocked(d))>>)}

DecryptPdf(d, password) ==
  Trouble \cup {Fail("Timeout")} \cup
  (IF Locked(d) /\ password \notin {d.user, d.owner} THEN {Fail("InvalidOption")}
   ELSE {Done(<<Renumbered(Unlocked(d))>>)})

-----------------------------------------------------------------------------
(* Bookmarks.  build_page_map pairs the page number n with the object id   *)
(* (n, 0), whatever object the page is: writing a bookmark of page n makes *)
(* object n its destination, and reading one takes the number of the       *)
(* destination's object for its page, or 1 when there are not as many      *)
(* pages.  So pdfbro reads back the page numbers it wrote, as long as      *)
(* nothing renumbers the objects in between, and a viewer is led to object *)
(* n, which is page n only by chance.                                      *)

PagesRead(d, num) ==
  IF num = 0 THEN {1} \cup DOMAIN d.pages
  ELSE IF num \in DOMAIN d.pages THEN {num} ELSE {1}

BookmarksOf(d) ==
  {[i \in DOMAIN d.outline |->
      [title |-> d.outline[i].title, level |-> d.outline[i].level, page |-> page[i]]] :
     page \in {f \in [DOMAIN d.outline -> {1} \cup DOMAIN d.pages] :
                 \A i \in DOMAIN d.outline : f[i] \in PagesRead(d, d.outline[i].num)}}

\* The outcome's docs are the one list of bookmarks.  A file whose catalog or
\* outline is not where it should be is refused; a locked one may fail to load, or
\* show no outline.
ReadBookmarks(d) ==
  {Fail("Pdf"), Fail("InvalidOption")} \cup
  (IF Locked(d) THEN {Done(<<<<>>>>)} ELSE {}) \cup
  (IF NeedsPassword(d) THEN {} ELSE {Done(<<b>>) : b \in BookmarksOf(d)})

\* mutant: the page number is looked up with the index of the vector, from 0.
WithBookmarksOffByOne(d, bs) ==
  [d EXCEPT !.outline = [i \in DOMAIN bs |->
                           [title |-> bs[i].title, level |-> bs[i].level, num |-> bs[i].page + 1]]]

WithBookmarks(d, bs) ==
  [d EXCEPT !.outline = [i \in DOMAIN bs |->
                           [title |-> bs[i].title, level |-> bs[i].level, num |-> bs[i].page]]]

\* The destination of a bookmark of page n is object n.  No encryption gate here: a
\* locked file fails to load, or is written with its lock.
WriteBookmarks(d, bs) ==
  {Fail("Pdf")} \cup
  (IF \E i \in DOMAIN bs : bs[i].page \notin DOMAIN d.pages THEN {Fail("InvalidOption")}
   ELSE {Done(<<WithBookmarks(d, bs)>>)})
=============================================================================
