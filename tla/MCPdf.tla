------------------------------- MODULE MCPdf --------------------------------
EXTENDS PdfSession

PageOf(s, annotated) == [src |-> s, turn |-> 0, lent |-> {}, marks |-> <<>>, annots |-> annotated]

\* Two pages, the second turned by the page tree, and an outline pdfbro wrote, whose
\* second level points elsewhere.
Report ==
  [pages |-> <<PageOf(<<"report", 1>>, FALSE),
               [PageOf(<<"report", 2>>, FALSE) EXCEPT !.lent = {"Rotate", "Resources"}]>>,
   ids |-> <<3, 5>>,
   outline |-> <<[title |-> "R", level |-> 1, num |-> 2], [title |-> "r", level |-> 2, num |-> 1]>>,
   title |-> "report", form |-> FALSE, files |-> {}, user |-> "", owner |-> ""]

\* A filled-in form with an attachment.
Form ==
  [pages |-> <<PageOf(<<"form", 1>>, TRUE)>>, ids |-> <<4>>, outline |-> <<>>, title |-> "",
   form |-> TRUE, files |-> {"x"}, user |-> "", owner |-> ""]

Sealed ==
  [pages |-> <<PageOf(<<"sealed", 1>>, FALSE)>>, ids |-> <<>>, outline |-> <<>>, title |-> "",
   form |-> FALSE, files |-> {}, user |-> "s", owner |-> "s"]

MCOriginals == {Report, Form, Sealed}

Up(n) == [name |-> n, fetched |-> FALSE]
Down(n) == [name |-> n, fetched |-> TRUE]
A == <<"a">>
B == <<"b">>

Blank ==
  [route |-> "", async |-> FALSE, bad |-> "", user |-> "", owner |-> "", password |-> "-",
   title |-> "-", meta |-> FALSE, auto |-> FALSE, marks |-> <<>>, only |-> <<>>,
   mode |-> "intervals", span |-> -1, unify |-> FALSE, ranges |-> <<>>, angle |-> -1,
   source |-> "text", text |-> "", allPages |-> TRUE, stamped |-> "none", embeds |-> <<>>,
   pdfa |-> "", pdfua |-> FALSE, backend |-> "", page |-> "", merge |-> FALSE]

For(r) == [Blank EXCEPT !.route = r]
From(n) == <<[from |-> n, to |-> 0]>>
Mark(t, l, p) == [title |-> t, level |-> l, page |-> p]

None == {<<>>}
Single == {<<Up(A)>>}
Pair == {<<Up(A), Up(B)>>}
Clash == {<<Up(A), Up(A)>>, <<Up(A), Down(A)>>, <<Up(A), Up(A), Up(A)>>}

Several ==
  {For("merge"),
   [For("merge") EXCEPT !.auto = TRUE],
   [For("merge") EXCEPT !.user = "p", !.meta = TRUE, !.title = "t", !.auto = TRUE],
   [For("merge") EXCEPT !.user = "p", !.owner = "q", !.marks = <<Mark("M", 1, 2)>>],
   [For("merge") EXCEPT !.async = TRUE, !.user = "p"],
   [For("split") EXCEPT !.span = 2],
   [For("office") EXCEPT !.merge = TRUE, !.user = "p", !.meta = TRUE, !.title = "t"],
   [For("office") EXCEPT !.merge = TRUE, !.async = TRUE],
   For("metadata_read"),
   [For("convert") EXCEPT !.pdfua = TRUE],
   [For("bookmarks_write") EXCEPT !.marks = <<Mark("W", 1, 1), Mark("w", 2, 2)>>, !.only = A]}

OneFile ==
  {[For("split") EXCEPT !.span = 1, !.user = "p"],
   [For("split") EXCEPT !.mode = "pages", !.ranges = From(2), !.unify = TRUE, !.owner = "q"],
   For("flatten"), [For("flatten") EXCEPT !.async = TRUE],
   For("metadata_read"), [For("metadata_read") EXCEPT !.async = TRUE],
   [For("metadata_write") EXCEPT !.meta = TRUE, !.title = "t"],
   [For("metadata_write") EXCEPT !.meta = TRUE, !.title = "", !.async = TRUE],
   [For("rotate") EXCEPT !.angle = 270, !.ranges = From(2)],
   [For("embed") EXCEPT !.embeds = <<"x">>],
   [For("convert") EXCEPT !.pdfa = "PDF/A-2b"], [For("convert") EXCEPT !.pdfua = TRUE],
   For("bookmarks_read"),
   [For("bookmarks_write") EXCEPT !.marks = <<Mark("W", 1, 1), Mark("w", 2, 2)>>],
   [For("watermark") EXCEPT !.text = "draft", !.allPages = FALSE],
   [For("stamp") EXCEPT !.source = "pdf", !.stamped = "pdf"],
   [For("encrypt") EXCEPT !.user = "p"], [For("encrypt") EXCEPT !.owner = "q"], For("encrypt"),
   [For("decrypt") EXCEPT !.password = "s"],
   [For("decrypt") EXCEPT !.password = "p", !.async = TRUE],
   For("optimise"), [For("optimise") EXCEPT !.backend = "qpdf", !.async = TRUE],
   For("office")}

Pages ==
  {[For("html") EXCEPT !.page = "index", !.user = "p", !.meta = TRUE, !.title = "t"],
   [For("html") EXCEPT !.page = "index", !.ranges = From(3)],
   [For("html") EXCEPT !.page = "index", !.async = TRUE, !.user = "p"],
   [For("url") EXCEPT !.user = "p"], [For("url") EXCEPT !.async = TRUE],
   [For("markdown") EXCEPT !.page = "md", !.owner = "q"],
   [For("markdown") EXCEPT !.page = "index", !.async = TRUE],
   [For("screenshot_html") EXCEPT !.page = "index"],
   [For("screenshot_url") EXCEPT !.async = TRUE],
   [For("screenshot_markdown") EXCEPT !.page = "index", !.bad = "link"]}

Shots ==
  {For("preview_url"), [For("preview_html") EXCEPT !.page = "index"], For("preview_html"),
   [For("preview_markdown") EXCEPT !.page = "md", !.bad = "utf8"],
   [For("preview_compare") EXCEPT !.page = "both"], [For("preview_compare") EXCEPT !.page = "index"]}

Typed ==
  {[For("cli_split") EXCEPT !.mode = "one-per-page"],
   [For("cli_split") EXCEPT !.mode = "every-n", !.span = 0],
   [For("cli_split") EXCEPT !.mode = "ranges", !.ranges = From(2)],
   For("cli_flatten"), For("cli_metadata_read"),
   [For("cli_metadata_write") EXCEPT !.meta = TRUE, !.title = "t"],
   [For("cli_metadata_write") EXCEPT !.bad = "metadata"],
   [For("cli_encrypt") EXCEPT !.user = "p", !.owner = "q"],
   [For("cli_decrypt") EXCEPT !.password = "s"],
   [For("cli_convert") EXCEPT !.page = "office"]}

Ask(forms, layouts) == [form : forms, layout : layouts]

MCRequests ==
  Ask(Several, Pair) \cup Ask(OneFile \cup Typed, Single) \cup Ask(Pages \cup Shots, None)
  \cup Ask({[For("cli_convert") EXCEPT !.page = "stdin", !.bad = "utf8"]}, None)
  \cup Ask({For("cli_merge")}, Pair)
  \cup Ask({For("merge"), [For("merge") EXCEPT !.async = TRUE, !.user = "p"]}, Clash)
=============================================================================
