----------------------------- MODULE PdfSession -----------------------------
(***************************************************************************)
(* A client at work on its documents: it uploads some, gets others back,   *)
(* and sends those to the next route, or works on them with the commands   *)
(* of the binary.  A request is one step, for the handlers share nothing   *)
(* but the permits of the server; one that leaves a job to the webhook     *)
(* workers is answered at once, and the job is done in a later step,       *)
(* between which the client goes on.                                       *)
(***************************************************************************)
EXTENDS CliCommands

CONSTANTS
  Originals,    \* the documents the client has at first
  Requests,     \* what it asks for: a form, and how its files are named and brought,
                \* a sequence of [name, fetched]
  MaxRequests   \* bound: requests of a session

ASSUME MaxRequestsAssumption == MaxRequests \in Nat
ASSUME OriginalsAssumption == \A d \in Originals : IsDocument(d)

PageRoutes == {"html", "url", "markdown", "preview_compare"} \cup Screenshots \cup Previews
FileRoutes ==
  {"merge", "split", "flatten", "metadata_read", "metadata_write", "rotate", "embed", "convert",
   "bookmarks_read", "bookmarks_write", "watermark", "stamp", "encrypt", "decrypt", "optimise",
   "office"}

\* What the forms and the command lines can say: the page routes take no
\* documents, a command takes one (merge several, convert none unless it prints
\* an office document), and its arguments are those of its own subcommand.
ASSUME RequestsAssumption ==
  \A q \in Requests :
    LET f == q.form
    IN /\ IsSequence(q.layout) /\ \A i \in DOMAIN q.layout : IsSequence(q.layout[i].name)
       /\ f.route \in PageRoutes \cup FileRoutes \cup Commands
       /\ f.route \in PageRoutes => Len(q.layout) = 0
       /\ f.route \in Commands \ {"cli_merge"} =>
            Len(q.layout) = IF f.route = "cli_convert" /\ f.page # "office" THEN 0 ELSE 1
       /\ f.route = "cli_metadata_write" => f.user = Absent /\ f.owner = Absent
       /\ f.route = "cli_encrypt" => ~f.meta
       /\ f.angle \in Int /\ f.span \in Nat \cup {-1} /\ IsSequence(f.marks)

VARIABLES
  library,   \* the documents the client can upload
  requests,  \* requests sent
  job,       \* the job on the queue, as the request it comes from, or NoJob
  reply      \* the last answer, with the request it is to

vars == <<library, requests, job, reply>>

NoJob == [form |-> [route |-> "none"], parts |-> <<>>]
NoReply == [by |-> "nobody", form |-> [route |-> "none"], parts |-> <<>>, status |-> 0, docs |-> <<>>]

Reply(by, r, o) ==
  [by |-> by, form |-> r.form, parts |-> r.parts, status |-> Status(o.error), docs |-> o.docs]

Reading == {"metadata_read", "bookmarks_read", "cli_metadata_read"}

DocsOf(docs) == UNION {Range(docs[i]) : i \in DOMAIN docs}

\* The client keeps what it had at first and what it got last: of a split that
\* failed, too, the chunks it had written.
Delivery(r, o) ==
  IF r.form.route \notin Reading /\ (Succeeded(o) \/ (r.form.route = "cli_split" /\ o.docs # <<>>))
  THEN Originals \cup DocsOf(o.docs) ELSE library

Init ==
  /\ library = Originals
  /\ requests = 0
  /\ job = NoJob
  /\ reply = NoReply

\* The uploads of a layout; a request later in the session makes use of what an
\* earlier one returned (the others start a session of their own).
Uploads(l) == {[i \in DOMAIN l |-> [name |-> l[i].name, fetched |-> l[i].fetched, doc |-> ds[i]]] :
                 ds \in [DOMAIN l -> library]}

Send(r) ==
  /\ requests < MaxRequests
  /\ requests' = requests + 1
  /\ requests > 0 => \E i \in DOMAIN r.parts : r.parts[i].doc \notin Originals

\* A command of the binary, on the files themselves.
Run(r) ==
  /\ Send(r)
  /\ r.form.route \in Commands
  /\ \E o \in RunCommand(r.form, [i \in DOMAIN r.parts |-> r.parts[i].doc]) :
       /\ reply' = [Reply("command", r, o) EXCEPT !.status = ExitCode(o.error)]
       /\ library' = Delivery(r, o)
  /\ UNCHANGED job

\* An answer on the spot: the request is refused, or carried out.
Answer(r) ==
  /\ Send(r)
  /\ r.form.route \notin Commands
  /\ LET n == Len(r.parts)
         kind == Refusal(r.form, n)
     IN \E o \in Unfetched(r.parts) \cup
                 (IF kind # "none" THEN {Fail(kind)}
                  ELSE IF Spawns(r.form, n) THEN {}
                  ELSE Convert(r.form, r.parts, Received(r.parts))) :
          /\ reply' = Reply("handler", r, o)
          /\ library' = Delivery(r, o)
  /\ UNCHANGED job

\* 202 and a job; a second job is not followed while one is on the queue.
Accept(r) ==
  /\ Send(r)
  /\ r.form.route \notin Commands
  /\ job = NoJob
  /\ Refusal(r.form, Len(r.parts)) = "none"
  /\ Spawns(r.form, Len(r.parts))
  /\ job' = r
  /\ reply' = [Reply("handler", r, Done(<<>>)) EXCEPT !.status = 202]
  /\ UNCHANGED library

\* A worker executes the job and reports to the client.
Work ==
  /\ job # NoJob
  /\ \E o \in RunJob(job.form, Received(job.parts)) :
       /\ reply' = Reply("worker", job, o)
       /\ library' = Delivery(job, o)
  /\ job' = NoJob
  /\ UNCHANGED requests

Next ==
  \/ \E q \in Requests : \E parts \in Uploads(q.layout) :
       \/ Run([form |-> q.form, parts |-> parts])
       \/ Answer([form |-> q.form, parts |-> parts])
       \/ Accept([form |-> q.form, parts |-> parts])
  \/ Work

Spec == Init /\ [][Next]_vars

-----------------------------------------------------------------------------
(* Properties                                                              *)

Answered == reply.by # "nobody" /\ reply.status \in {0, 200}
Results == DocsOf(reply.docs)
Uploaded ==
  IF reply.by = "command" THEN [i \in DOMAIN reply.parts |-> reply.parts[i].doc]
  ELSE Received(reply.parts)

\* The shape of the state: a session is counted, an answer has a status the
\* server knows, and every page of every document is turned by 0 to 3 quarters,
\* however often it went through rotate.
TypeOK ==
  /\ requests \in 0..MaxRequests
  /\ reply.by \in {"nobody", "handler", "worker", "command"}
  /\ reply.status \in 0..5 \cup {200, 202, 400, 422, 500, 502, 504}
  /\ Originals \subseteq library
  /\ \A d \in library : IsDocument(d)

\* The documents made of a file: its own, or the one made of all (of the first,
\* by an office job).
MadeOf(i) ==
  IF Len(reply.docs) = Len(reply.parts) THEN Range(reply.docs[i])
  ELSE IF reply.form.route = "office" /\ reply.by = "worker" /\ i > 1 THEN {}
  ELSE Results

\* The routes that honour the two password fields, on the spot.
Honours(f, n) ==
  \/ f.route \in {"merge", "split", "encrypt", "html", "markdown", "cli_encrypt", "cli_metadata_write"}
  \/ f.route = "office" /\ (n = 1 \/ f.merge)

\* A document that a route was asked to protect comes back protected by just the
\* passwords of the form, and with the metadata that had to be written before.
AskedPasswordLocks ==
  (Answered /\ reply.by # "worker" /\ Honours(reply.form, Len(reply.parts))) =>
    \A d \in Results :
      /\ reply.form.user # Absent => NeedsPassword(d) /\ d.user = reply.form.user
      /\ reply.form.owner # Absent => d.owner = reply.form.owner
      /\ (reply.form.meta /\ reply.form.title # "-" /\ reply.form.route # "split"
            /\ reply.form.route # "encrypt") => d.title = reply.form.title

\* Content behind a user password never comes out without one, whatever routes
\* it is sent through, except from decrypt with one of its passwords; nor is
\* anything read from it.
LockedContentStaysLocked ==
  Answered => \A i \in DOMAIN Uploaded : NeedsPassword(Uploaded[i]) =>
    CASE reply.form.route \in {"metadata_read", "cli_metadata_read"} -> FALSE
      [] reply.form.route = "bookmarks_read" -> reply.docs[i] \in {<<>>, <<<<>>>>}
      [] reply.form.route \in {"decrypt", "cli_decrypt"} -> reply.form.password \in {Uploaded[i].user, Uploaded[i].owner}
      [] OTHER -> \A d \in MadeOf(i) : NeedsPassword(d)

\* Pages by what they have of their own.
Own(pages) == [p \in DOMAIN pages |-> <<pages[p].src, pages[p].turn, pages[p].marks>>]

\* The same pages in the same order, each with what it has of its own, and as it was
\* if it had nothing from the page tree.
SamePages(out, given) ==
  /\ Own(out) = Own(given)
  /\ \A p \in DOMAIN given : given[p].lent = {} => out[p] = given[p]

\* Names that the suffix keeps apart: no more than two uploads share a name, no
\* upload has the name made for another, and no download the name of an upload.
KeptApart(parts) ==
  \A i, j \in DOMAIN parts : i < j =>
    /\ parts[i].name = parts[j].name =>
         /\ ~parts[j].fetched
         /\ \A k \in DOMAIN parts : parts[k].name = parts[i].name => k \in {i, j}
    /\ parts[j].name # Append(parts[i].name, 1)
    /\ parts[i].name # Append(parts[j].name, 1)

\* Requests whose answer has the pages of all the files in a row.
Joining ==
  \/ reply.form.route \in {"merge", "cli_merge"}
  \/ reply.form.route = "office" /\ reply.by = "handler"
PagesSent == FlattenSeq([i \in DOMAIN reply.parts |-> reply.parts[i].doc.pages])
PagesJoined == FlattenSeq([i \in DOMAIN reply.docs |-> reply.docs[i][1].pages])
PagesOfChunks(i) == FlattenSeq([c \in DOMAIN reply.docs[i] |-> reply.docs[i][c].pages])

\* Every page the client sent to merge, be it the route, the job or the command,
\* comes back once, in the order it was sent, with the rotation and the texts it has
\* of its own, and as it was if its file's page tree lends it nothing.  Every page
\* sent to split at intervals comes back once, in order, as it was; split by pages
\* returns the selected ones, as they were too unless it unifies (merges) them.
PagesAccounted ==
  (Answered /\ KeptApart(reply.parts)) =>
    /\ Joining => SamePages(PagesJoined, PagesSent)
    /\ reply.form.route \in {"split", "cli_split"}
         /\ reply.form.mode \in {"intervals", "every-n", "one-per-page"} =>
         \A i \in DOMAIN reply.parts : PagesOfChunks(i) = reply.parts[i].doc.pages
    /\ reply.form.route \in {"split", "cli_split"} /\ reply.form.mode \in {"pages", "ranges"} =>
         \A i \in DOMAIN reply.parts :
           LET pages == reply.parts[i].doc.pages
               chosen == At(pages, Selected(reply.form.ranges, Len(pages)))
           IN IF reply.form.unify THEN SamePages(PagesOfChunks(i), chosen)
              ELSE PagesOfChunks(i) = chosen

\* "concatenate a sequence of PDFs preserving order": the pages of a merge look as
\* they did in their files, those too that are turned by their page tree, or have
\* their resources there.
MergeKeepsLooks ==
  (Answered /\ KeptApart(reply.parts) /\ Joining) => PagesJoined = PagesSent

\* "If a filename collides with an already-saved file, suffix with `-N`": what a
\* route works on is what the client uploaded, whatever names it gave its files.
EveryUploadKept ==
  (Answered /\ \A i \in DOMAIN reply.parts : ~reply.parts[i].fetched) =>
    \A i \in DOMAIN reply.parts : Uploaded[i] = reply.parts[i].doc

\* A merge with autoIndexBookmarks moves the page numbers of the bookmarks by the
\* pages of the files before: an entry of these levels for which bookmarks/read
\* tells page n of an input (its destination is an object whose number is that of a
\* page) is told of the result, for the page at which the input's page n is now.
\* These are the numbers pdfbro itself writes and reads; the next but one says where
\* they lead.  (The outline of an input under an owner password may not be seen.)
BookmarksReadBack(levels) ==
  (/\ Answered /\ reply.by = "handler"
   /\ reply.form.route = "merge" /\ reply.form.auto /\ reply.form.marks = <<>>
   /\ reply.form.user = Absent /\ reply.form.owner = Absent
   /\ \A i \in DOMAIN Uploaded : ~Locked(Uploaded[i])) =>
    \A i \in DOMAIN Uploaded : \A k \in DOMAIN Uploaded[i].outline :
      LET entry == Uploaded[i].outline[k]
          result == reply.docs[1][1]
      IN (entry.level \in levels /\ entry.num \in DOMAIN Uploaded[i].pages) =>
           \A told \in BookmarksOf(result) : \E m \in DOMAIN told :
             /\ told[m] = [title |-> entry.title, level |-> entry.level,
                           page |-> entry.num + PagesBefore(Uploaded, i)]
             /\ result.pages[told[m].page].src = Uploaded[i].pages[entry.num].src

\* The page numbers of the top-level bookmarks are those of their pages after the
\* merge.
TopBookmarksReadBack == BookmarksReadBack({1})

\* "Re-index bookmarks: offset each file's bookmarks by cumulative page count": the
\* nested ones too.
AllBookmarksReadBack == BookmarksReadBack({1, 2})

\* "Bookmarks reference pages by 1-based page numbers": the destination of a bookmark
\* that is written for page n is the object of page n.
BookmarksReachTheirPages ==
  (Answered /\ reply.form.route = "bookmarks_write") =>
    \A i \in DOMAIN reply.docs :
      LET result == reply.docs[i][1]
          written == BookmarksFor(reply.form, reply.parts[i].name)
      IN result.ids # <<>> =>
           \A k \in DOMAIN written : result.outline[k].num = result.ids[written[k].page]

\* JobData::LibreOffice: "Merge outputs into single PDF.": a job that merges
\* returns the pages of all its files.
OfficeJobMergesAll ==
  (Answered /\ reply.by = "worker" /\ reply.form.route = "office" /\ reply.form.merge) =>
    Own(reply.docs[1][1].pages) = Own(PagesSent)
=============================================================================
