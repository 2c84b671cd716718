---------------------------- MODULE CliCommands -----------------------------
(***************************************************************************)
(* The commands of the pdfbro binary that work on single documents, as     *)
(* functions of their arguments and of the documents they read: what they  *)
(* write to their output, or the error that decides the exit code.         *)
(* (`pdfbro batch` is CliBatch.)  Arguments are a form of PdfRoutes whose  *)
(* route is one of Commands; of cli_split the mode is "one-per-page",      *)
(* "every-n" or "ranges"; of cli_convert the page tells the source:        *)
(* "html", "url", "md", "stdin" or "office".                               *)
(***************************************************************************)
EXTENDS PdfRoutes

Commands ==
  {"cli_merge", "cli_split", "cli_flatten", "cli_metadata_read", "cli_metadata_write",
   "cli_encrypt", "cli_decrypt", "cli_convert"}

ReadInput(d) == {Done(<<d>>), Fail("Io")}

\* The file is created or truncated, then written: what a failed write leaves is
\* no document.
WriteOutput(d) == {Done(<<d>>), Fail("Io")}

\* Chunks are written one after the other; those before the one that fails stay.
WriteChunks(cs) ==
  {Done(cs)} \cup {[error |-> "Io", docs |-> <<SubSeq(cs, 1, k)>>] : k \in 0..(Len(cs) - 1)}

\* Standard input can be one of the inputs of merge, not two.
RunMerge(f, ds) ==
  IF f.bad = "stdin" THEN {Fail("Usage")}
  ELSE Bind({Fail("Io")} \cup Merge(ds), WriteOutput)

ParseSplitMode(f) ==
  CASE f.mode = "one-per-page" -> "none"
    [] f.mode = "every-n" -> Unless(f.bad # "span" /\ f.span >= 1, "Usage")
    [] f.mode = "ranges" -> Unless(ParsesAsRanges(f.ranges), "Usage")
    [] OTHER -> "Usage"

\* Ranges are one chunk; ranges that select nothing are no chunk, and no error.
CommandSplitMode(f) ==
  CASE f.mode = "one-per-page" -> [kind |-> "every", n |-> 1]
    [] f.mode = "every-n" -> [kind |-> "every", n |-> f.span]
    [] OTHER -> [kind |-> "ranges", chunks |-> <<f.ranges>>]

RunSplit(f, d) ==
  Bind(ReadInput(d), LAMBDA x :
    IF ParseSplitMode(f) # "none" THEN {Fail(ParseSplitMode(f))}
    ELSE Then(Split(x, CommandSplitMode(f)), WriteChunks))

RunFlatten(d) == Bind(Bind(ReadInput(d), Flatten), WriteOutput)

\* --from-json must be the metadata of a document, --set must name a key.
ApplySet(f) ==
  First(<<Unless(f.bad # "metadata", "Generic"), Unless(f.bad # "emptyKey", "Usage")>>)

RunMetadataRead(d) == Bind(ReadInput(d), ReadMetadata)
RunMetadataWrite(f, d) ==
  Bind(ReadInput(d), LAMBDA x :
    IF ApplySet(f) # "none" THEN {Fail(ApplySet(f))}
    ELSE Bind(WriteMetadata(x, Meta(f)), WriteOutput))

RunEncrypt(f, d) ==
  Bind(Bind(ReadInput(d), LAMBDA x : EncryptPdf(x, f.user, f.owner)), WriteOutput)
RunDecrypt(f, d) ==
  Bind(Bind(ReadInput(d), LAMBDA x : DecryptPdf(x, f.password)), WriteOutput)

\* The templates and the source are read, an engine is launched, used and let go.
\* Bytes of standard input that are not UTF-8 are found out last.
RunConvert(f, ds) ==
  Bind({Fail("Io"), Fail("Launch")} \cup
       (CASE f.page = "office" -> OfficeConvert(ds[1])
          [] f.page = "stdin" /\ f.bad = "utf8" -> {Fail("Generic")}
          [] OTHER -> Render),
       WriteOutput)

RunCommand(f, ds) ==
  CASE f.route = "cli_merge" -> Whole(RunMerge(f, ds))
    [] f.route = "cli_split" -> Whole(RunSplit(f, ds[1]))
    [] f.route = "cli_flatten" -> Whole(RunFlatten(ds[1]))
    [] f.route = "cli_metadata_read" -> Whole(RunMetadataRead(ds[1]))
    [] f.route = "cli_metadata_write" -> Whole(RunMetadataWrite(f, ds[1]))
    [] f.route = "cli_encrypt" -> Whole(RunEncrypt(f, ds[1]))
    [] f.route = "cli_decrypt" -> Whole(RunDecrypt(f, ds[1]))
    [] f.route = "cli_convert" -> Whole(RunConvert(f, ds))

\* The exit code.  Errors the operations of the engine name are its errors.
ExitCode(kind) ==
  CASE kind = "none" -> 0
    [] kind = "Generic" -> 1
    [] kind = "Usage" -> 2
    [] kind = "Timeout" -> 4
    [] kind = "Io" -> 5
    [] OTHER -> 3
=============================================================================
