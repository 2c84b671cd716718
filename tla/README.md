# A verification model of pdfbro

pdfbro converts HTML, Markdown, URLs and office documents to PDF. It is a Rust
workspace: an engine crate that drives Chromium (over CDP) and LibreOffice (in
process, through LibreOfficeKit) and works on PDF files, an HTTP server around it, a
command line, and bindings for Node and Python. This directory holds TLA+ modules
that model the concurrent core of the system and the routes and commands around it,
TLC configurations that check them on small instances, and theorems that the TLA+
proof system checks for every instance.

## 1. Inventory

Paths are relative to `src/crates`.

| Component | State it keeps | Operations | What is hard |
|---|---|---|---|
| **Batch API** `server/src/batch_worker.rs`, `routes/batch.rs`, `routes/batch_state.rs`, `routes/batch_types.rs` | a map from id to batch behind an `RwLock`, output files, one background task per batch and one per item, a semaphore per batch | submit, status, download, process, clean up | whole-copy read-modify-write by many tasks, check-then-act on the capacity, expiry and removal at any moment, panics, dropped handlers |
| **LibreOffice engine** `engine/src/libreoffice/mod.rs` | the sender and join handle of one worker thread, a health flag, an activity stamp, a start lock | launch, convert, shutdown, drop; worker thread; idle watcher | conversions that cannot be cancelled, timeouts, lazy start raced by callers and dropped by them, shutdown against everything |
| **Chromium engine** `engine/src/chromium/` | a browser handle, a shutdown flag, the pages that are open | render to PDF, screenshot, wait conditions, shutdown, drop | timeouts that drop a render before its page is closed, events that fire before they are listened for |
| **Supervised engines** `server/src/supervised_engine.rs` | an optional engine behind a mutex, a running flag | start, convert, healthy, shutdown | one lock held for whole conversions, futures dropped while they wait in its line |
| **Server start and shutdown** `server/src/main.rs`, `app.rs`, `shutdown.rs` | permits, the request timeout, the order signal, drain, close engines | serve | who waits for whom, what a dropped request leaves behind |
| **Webhooks** `server/src/webhook/` | a bounded channel, worker tasks | enqueue, execute, deliver with retries | lost and duplicated deliveries, panicking workers, jobs lost at exit |
| **Console** `server/src/console_store.rs`, `routes/console.rs`, `metrics.rs`, `routes/health.rs` | ring buffers, counters, gauges, a broadcast channel, a history | record, sample, stream | counters read one by one while they move, two writers of one gauge, subscribers that lag |
| **Conversion routes** `server/src/routes/*`, `multipart.rs`, `download.rs`, `error.rs` | files in a temporary directory per request | upload, check, run, answer or enqueue | names that collide, the order of checks and of operations, fields a job forgets |
| **PDF operations** `engine/src/pdfops/`, `encrypt/`, `pdfa/`, `bookmarks/`, `types.rs` | none | ranges, split, merge, rotate, metadata, watermark, embed, encrypt, optimise, bookmarks | what is lost or leaked when operations follow each other |
| **Command line** `cli/src/commands/` | per run: a semaphore and a set of tasks | commands on single documents; convert a tree of files | abort on error, output paths that collide |
| **Chrome download** `engine/src/chrome_fetch/` | a cache directory shared by processes | find, download, launch | two downloads at once, deaths between any two file operations |
| **Bindings, benchmark, user interface** | none of their own | forward calls | nothing for a model checker |

How they interact: a handler of the server calls a supervised engine, which owns
a Chromium or LibreOffice engine; a handler may instead put a job on the webhook
queue, whose workers call the same engines; the batch API has workers of its own.
The handlers of `/forms` run under one request timeout (`app.rs:228-236`) that drops
their future at whatever await it has reached; those of `/health`, the previews, the
estimates and the console do not (`app.rs:239-289`). A closed connection drops any of
them. `/health` and the console's sampler want the same engine mutexes as the conversions. A
signal makes the server stop accepting, drain the connections and then shut the
engines down. The documents of one request are uploaded to the next: the routes meet
in what they do to a document, not in memory.

What makes each of them correct is listed with its line in `PROJECT.json` under
"hazards", together with the properties that cover it or the reason why none does.

## 2. Modules

| Module | Models | Kind |
|---|---|---|
| `BatchLifecycle` | what a client of the batch API is promised about one batch | abstract specification |
| `BatchService` | the batch API: handlers, workers, items' tasks, cleanup | detailed specification, implements `BatchLifecycle` |
| `BatchServiceProofs` | | theorems about `BatchService` |
| `LokEngine` | the LibreOffice engine | specification |
| `LokEngineProofs` | | theorems about `LokEngine` |
| `WebhookPromise` | what the 202 of an asynchronous request promises | abstract specification |
| `WebhookService` | handlers, channel, workers and deliveries of the asynchronous mode, the end of the process | detailed specification, implements `WebhookPromise` |
| `WebhookServiceProofs` | | theorems about `WebhookService` |
| `ChromiumEngine` | the Chromium engine: renders, screenshots, shutdown, Chrome around them | specification |
| `ChromiumEngineProofs` | | theorems about `ChromiumEngine` |
| `Ranking` | parts of sequences, numbers in their order | operators |
| `PdfOps` | the PDF operations, as functions of documents, on top of `Ranking` | operators |
| `PdfRoutes` | the conversion routes, as functions of a request, on top of `PdfOps` | operators |
| `CliCommands` | the commands of the binary on single documents, on top of `PdfRoutes` | operators |
| `PdfSession` | a client that sends the result of one route to the next | composition |
| `Server` | permits, timeouts, supervised engines, streams, start and shutdown, on top of `Ranking` | specification |
| `ServerProofs` | | theorems about `Server` |
| `ChromeFetch` | `ensure_chrome`, the download and the launch by clients of one cache | specification |
| `ClientProofs` | | theorems about `PdfSession` and `ChromeFetch`, what the clients of routes, commands and bindings rely on |
| `CliBatch` | one run of `pdfbro batch` | specification |
| `CliBatchProofs` | | theorems about `CliBatch` |
| `Console` | logs, counters, sampler, streams and health gauges | specification |
| `ConsoleProofs` | | theorems about `Console` |
| `MCBatch`, `MCLok`, `MCWebhook`, `MCChromium`, `MCPdf`, `MCServer`, `MCChromeFetch`, `MCCliBatch`, `MCConsole` | | instances for TLC, with the symmetry sets and documents they use |

`Server` takes an engine for a mutex and a flag: what goes on inside while the mutex
is held is the matter of `LokEngine` and `ChromiumEngine`, and what a conversion
returns the matter of `PdfRoutes`. It does without the queue of the webhooks, which
`WebhookService` has; a job meets the other tasks only at an engine's mutex.

### 2.1 BatchService

A task reads a batch with `get_batch`, which clones it under the read lock,
changes its copy, and stores the whole copy with `update_batch` under the write
lock. One step of the model is what one task does up to and including one access
to the shared map or the file system; the copy it carries to the next step is in
`jobCopy` or `taskCopy`. That granularity is what makes stale writes possible in
the model as in the code.

| Code | Model |
|---|---|
| `BatchStateInner.batches` | `store`, with `NoBatch` for an absent id |
| the files under `outputs/` | `disk` |
| `expires_at` in the past | `expired` |
| `batch_submit` | `SubmitAdmit` (the capacity test), then `SubmitReject` or `SubmitCreate` |
| `process_batch`, `process_items` | `JobLoad` ... `JobCommit`, positions in `job` |
| the task of an item | `TaskAcquire` ... `TaskRecord`, positions in `task`, the semaphore in `permits` |
| `batch_download` | `DownloadStart`, `DownloadCheck`, `DownloadRead`, `DownloadRemove`; `DownloadDropped` and `DownloadLost` when the handler is dropped |
| `cleanup_expired` | `CleanupCollect`, `CleanupRemove`, with the collected ids in `sweep` |

`remove_batch` holds the write lock while it deletes the file, so it is one step
for everybody who takes the lock. A handler dropped inside it has removed the
entry already, and the blocking pool finishes the deletion: `DownloadLost`. Two
accesses do not take the lock, the test and the read of the file in
`batch_download`; between removing the entry and deleting the file they still find
the file, exactly as they would one step earlier in the model. Every access to the file
may also fail for an I/O error while the file is there: the test then says 410
(`unwrap_or(false)`, `batch.rs:171`), the read 500 (line 176), both keep the batch, and a
failing deletion is ignored (`batch_state.rs:277`), so that the file stays.

Left out of a batch: the request, timestamps, sizes and error texts. Retention is
not tied to a clock: `Expire` may happen any time after the batch was created.
`process_single_item` is a placeholder in the code that always succeeds;
`ItemOutcomes` says what it may return, success only in one run, both in the other.

### 2.2 LokEngine

| Code | Model |
|---|---|
| `Inner.tx`, `worker_handle`, `healthy`, `init_lock`, `last_activity` | `tx`, `handle`, `healthy`, `initLock`, `activity` |
| the `sync_channel` of a worker | `queue`, requests named after the caller that waits, or `Abandoned` |
| `convert` | `ConvertStart`, `InitFound` ... `InitGivesUp`, `CheckHealthy`, `SendRequest`, `ReplyTimesOut`, `MarkUnhealthy`, `ConvertDropped` |
| `lok_worker_thread` | `WorkerOpens` ... `WorkerExits`, `WorkerPanics` |
| `shutdown` | `ShutdownBegin`, `ShutdownTakesTx`, `ShutdownTakesHandle`, `ShutdownJoined` or `ShutdownGivesUp` |
| `Drop` | `EngineDropped` |
| the idle watcher | `TimePasses`, `WatcherLooks`, `WatcherExits` |

Who holds a sender of a channel decides when the worker's loop ends, so
`HasSender` names all the places: `Inner`, the caller that is starting the worker,
and `shutdown`, whose `_dropped_tx` lives until the function returns. A worker that
an abandoned start left behind has no sender and ends by itself.

`Office::new` belongs to the external library. The engine's own comments (lines
3-8 and 196-202) give what the model assumes of it: a process opens one Office in
its life, a second attempt fails. A panic in a conversion unwinds the worker; a
conversion may also never return, which is why no fairness is put on
`WorkerConverts`. The watcher's two loads follow each other and are one step. The
five seconds of `shutdown` are long for every step of a worker but two, a
conversion and the wait for a request while the queue has a sender
(`OutlastsJoin`). Validation errors of `convert` touch no state and are left out;
`convert_many` is one caller that converts again and again.

### 2.3 WebhookService

| Code | Model |
|---|---|
| the `mpsc` channel, `Mutex<Receiver>` | `queue`, `receiver` |
| `maybe_spawn_webhook`, `spawn_job` | `SpawnJob`, then `SendCompletes`, `SendFails` or `HandlerDropped` |
| the loop of a worker | `LockReceiver`, `Receive`, `WorkerPanics` |
| `process_webhook_job`, `deliver`, `try_deliver` | `Execute`, `Post`, `PostAnswered`, `PostFails`, `Retry`, `GiveUp` |
| the client's endpoint (external) | `sent`, `received`, `ReportArrives` |
| signal, drain, end of `main` | `Signal`, `Exit` |

A report is in `sent` once `try_deliver` has sent it and in `received` when the
endpoint has seen it, which may be late, out of order, after an attempt was given
up, after the process has ended, or never. A worker may believe an attempt failed
that has arrived; it can only believe one delivered that has.

Two facts of Rust ownership matter. The workers hold the only references to the
receiver: when the last of them panics the channel closes, the jobs in it are gone
and `send` fails from then on. The console's sampler holds a clone of the state,
and with it a sender, until the process exits: the workers never see the channel
closed while they live. Requests for the synchronous mode touch none of this state
and are left out, and so are the permit a handler holds meanwhile, the length of a
backoff and the bytes of a report.

### 2.4 ChromiumEngine

| Code | Model |
|---|---|
| `Inner.browser`, a mutex around an option | `lock` and `browser` |
| `Inner.is_shutdown`; the clones of the handle | `shut`; `alive` |
| the future of `html_to_pdf`, `url_to_pdf` | `pc`, `want`, `outcome` of a render: `Begin` ... `PageCloses` |
| `map_cdp_error` and the errors that do not go through it | `Mapped`, `Errors`, `CommandFails` |
| `tokio::time::timeout`, a dropped request | `TimesOut`, `Dropped` |
| the listener and the task of a `spawn_*_capture` | `unread`, `recorded`, `Captures` |
| `html_to_screenshot`, `url_to_screenshot`, `healthy` | `ShotBegins` ... `ShotDropped` |
| `shutdown`, and its caller's drain timer | `ShutdownBegins`, `TakesBrowser` or `FindsItTaken`, `BrowserCloses`; `ShutdownDropped` |
| `Drop for Inner` | `LastDrop` |
| Chrome and its pages (external) | `chrome`, `page`, `doc`: `Crashes`, `Answers`, `PageReports`, `Loads`, `NetworkIdles` |

A step is what a task does from one await to the next, with Chrome's answer to the
command it awaited; a command may be answered, fail, or stay open until the timer
drops the future. The commands of one phase (the request context; media, background
and style; measuring and printing) are one step, which may fail as each of them may.

What is listened to, and from when, is kept exactly: the capture tasks from before
the navigation until it ends, the wait conditions for events only once the page has
been prepared. A capture task runs on its own and may be behind the events in its
channel, up to `MaxUnread` of them. The four kinds of capture are two here: the one
for `fail_on_status` records the last document's status, whichever frame it is of;
the three others record failures only. Chrome need not do anything, except that a
document which has loaded fires no further `domContentEventFired`: a page that
navigates again by itself is left out.

Dropping a future drops what it owns: the guard of the mutex, and in `shutdown` the
browser it has taken out, with which the process ends. A render cut off in
`new_page` may have a page that nobody knows of. Screenshots rely on the drop of the
page handle and are not followed further; `healthy` holds the guard as they do. A
`selector` wait stands for `window.status` as well.

### 2.5 PdfOps, PdfRoutes, CliCommands and PdfSession

An operation of the engine crate is a function of documents, and so is a route: the
handlers share nothing but permits and engines, which `Server` has. What could go
wrong is in the composition, so a document is reduced to what the operations can tell
apart from one another: pages with the page they descend from, their own rotation, the
attributes their page tree lends them (`lent`), the texts drawn on them and their
annotations; the object numbers of the pages (`ids`); the outline in preorder; title,
form, attachments and passwords.

| Code | Model |
|---|---|
| `pdfops::merge`, `split`, `rotate`, `flatten`, `watermark`, ... | `Merge`, `Split`, `Rotate`, `Flatten`, `Watermark`, ... |
| `qpdf`, ghostscript (external) | `Qpdf`, `Ghostscript`: what the code's flags keep and lose |
| `encrypt_pdf`, `decrypt_pdf`; the gate `is_encrypted` | `EncryptPdf`, `DecryptPdf`; `Open` |
| `read_bookmarks`, `write_bookmarks` | `ReadBookmarks`, `WriteBookmarks` |
| `MultipartFields`: the name a part is stored under | `Path`, `Content`, `Received` |
| the checks of a handler, in their order | `Refusal`, a `First` of named checks per route |
| the operations a handler strings together | `MergeFiles`, `SplitFiles`, ..., `Convert` |
| the `match` of the webhook executor on `JobData` | `PdfJob`, `ChromiumJob`, `OfficeJob` |
| `ApiError::status_code`, the exit codes of the binary | `Status`, `ExitCode` |
| a client's sequence of requests | `PdfSession`: `Run`, `Answer`, `Accept`, `Work` |

Three details of the code carry most of the consequences. lopdf opens a document that
has only an owner password by itself, and the test `is_encrypted` may or may not see
the lock afterwards: both outcomes are in `Open`. `build_page_map`
(`bookmarks/mod.rs:141-152`) takes page n for object n: a bookmark of page n is written
with object n as its destination, and the number of a destination's object is read as a
page number. pdfbro so reads the numbers it wrote until something renumbers the objects
(`Renumbered`), while a viewer is led to the page only if its object happens to have
that number. And no operation looks at what the page tree lends a page: a merge puts
the pages under a bare node and loses it (`Severed`), `rotate` counts from the page's
own rotation and hides a lent one, `watermark` gives a page without resources some of
its own, which hide the lent ones. Where qpdf and ghostscript put such attributes is
left as it was. Titles are taken to be text that comes back as it was written, which in
the code only ASCII does.

An operation returns the set of its possible outcomes. Every one of them may fail
with an internal error (a file that does not parse, a full disk, a missing tool). An
operation on every file of a request comes to one outcome for each file (`Ways`), and
the first error ends the request (`Each`, and `Merge`, which opens all its inputs first).
An empty field, password or title is `Absent`.
Values of form fields are present, absent or bad ("bad" names the group that does
not parse); pages' contents, dates, custom keys and permissions are left out.

`OriginalsAssumption` says that what the client has at first are documents
(`IsDocument`). `RequestsAssumption` says what forms and command lines can say at all:
a page route takes no PDF files, a command takes one (merge several, convert none unless
it prints an office document), and its arguments are those of its own subcommand, as
`clap` parses them. Without it a request could name passwords for a subcommand that has
no such option, and properties about "the passwords of the form" would be about nothing.

### 2.6 Server

| Code | Model |
|---|---|
| the eager starts in `main` | `Starts`; a task that goes by the name of its engine |
| concurrency layer, handlers of `/forms` and `/preview` | `Arrive`, `TakePermit`, `Call` ... `End` |
| `TimeoutLayer`; a connection that closes | `TimesOut`, `Disconnect`: the future leaves the line of the mutex, too |
| `SupervisedEngine`: mutex, `is_running` | `line` (holder first, then the waiters in their order), `there`, `running` |
| `get_engine`, `convert`, `healthy` | `StarterQueues`, `Begin`, `Unavailable`, `Finish`, `Probe` |
| `shutdown` and its bound in `main` | `Takes`, then for LibreOffice `Closes`; `GivesUp` |
| webhook workers, console sampler | `PickUp`, `SamplerTicks`, `SamplerProbes` |
| console streams | `Connect`, `Follow`, `StreamEnds`, `Leave` |
| signal, drain with axum or with axum_server, end of `serve` | `Signal`, `Drained`, `CloserQueues`, `Exit` |

A future that is dropped leaves its place in the line, and the others move up in their
order: `Remaining(line[e], ts)` is the line without the places of `ts`. Requests, jobs,
the starters, the sampler and `serve` itself are different tasks of the runtime
(`TasksAssumption`).

`shutdown` of Chromium takes the engine and drops it in one go; that of LibreOffice
awaits the engine's own shutdown with the mutex held (`supervised_engine.rs:385`), and
only then clears `is_running`. The bound of `main.rs:217-233` may drop either while it
waits for the mutex, and the latter at that await: the engine is gone then and
`is_running` stays set, which `TypeOK` allows of an engine that `serve` has come to.

The idle monitors are left out because they do nothing: `supervised_engine.rs:89`
compares the seconds since an instant just taken, always 0.

### 2.7 ChromeFetch

Clients are calls of `launch` in any process that uses the same cache; they meet only
in the file system. A step is one operation on it (`Sweep` one file of a
`remove_dir_all`, `Unpack` one file of the archive), a client may die or fail between
any two, and an open directory or file moves with a rename, as on a POSIX system.
`overlapped` is a history variable: whether two downloads were ever under way at
once. It separates what the code achieves (`AloneIsAtomic`) from what it says.

### 2.8 CliBatch

| Code | Model |
|---|---|
| walk, `--pattern`, `--dry-run`, `mirror_target` | `Init`, `Refuse`, `DryRun`, the constant `Target` |
| engines of the run | `LaunchChrome`, `FindOffice`, `Close` |
| a task between two awaits | `Acquire`, `Read`, `Converted`, `Open`, `Write` |
| `abort_all` | `aborted`; `Cancelled` wherever a task awaits |
| `join_next`, `--on-error` | `Join`, `JoinStops`, `JoinedAll`, `Verdict` |
| the drop of the runtime | `LeaveAtOnce`, `Leave` |

`tokio::fs::write` is a task of the blocking pool: an aborted task stops waiting for it,
the write goes on, and the drop of the runtime waits for it. That is why a write is two
steps and survives its task.

### 2.9 Console

| Code | Model |
|---|---|
| the middleware: log, error log, counters | `Answer`, `LogRequest`, `LogError`, `Count`; `Lose` when the client is gone |
| `/health` | `ProbeChromium`, `ProbeOffice`, `UpdateEngineHealth` |
| the sampler's round | `Tick`, `ReadOffice`, `Update`, `Gather`, `Book`, `Push`, `Build`, `Send` |
| the event stream of a browser | `Subscribe`, `Snapshot`, `Receive`, `Leave` |
| engines that start and stop; a LibreOffice that is wedged | `Start`, `Stop`; `Wedge` |

Prometheus' `gather` reads one child of a counter after the other while requests are
counted: `Gather(s)` reads those of one status, in any order. `covers` in a sample is a
ghost: which requests it accounts for. A stream that lagged goes on with the
oldest payload it still finds, in one step. A wedged LibreOffice (`healthy` is clear,
`libreoffice/mod.rs:318`) is down for `/health` and up for the sampler, which reads
`is_running`. Percentiles, processor and memory keep no
state; the end of the streams at the shutdown is in `Server`.

## 3. Runs

The number of distinct states is for the configuration as it stands.

| Run | Instance | Shows |
|---|---|---|
| `batch_safety` | 2 batches, 2 items each at work at once, 1 submitter, 1 downloader; 768 982 states | `ActiveHasWorker`; `AdvertisedIsDownloadable`; `NoPhantomSuccess`; the service implements `BatchLifecycle` |
| `batch_live` | 1 batch, 3 items one at a time that may fail, 2 downloaders; 26 312 states | `DeliveredIsGone`, `SerialResultsExact`, `FailedDownloadLosesNothing`, and with fairness `EveryBatchSettles`, `EventuallyReclaimed` |
| `lok_safety` | 2 callers, 2 threads, a channel of 1, eager and lazy; 83 254 states | `NoStrandedCaller`; `OneServing`; `HealthyHasWorker` |
| `lok_live` | 2 callers, 1 thread; 50 562 states | with fairness `EveryConvertReturns`, `ShutdownReturns` |
| `webhook` | 3 requests (one names an error URL), 1 worker, a channel of 1, 2 attempts; 100 423 states | `JobsConserved`; the service implements `WebhookPromise`; with fairness `EveryJobSettles` |
| `chromium` | 1 render of every kind, 1 screenshot, 2 shutdowns; 263 492 states | `ShutdownIsComplete`; `PagesAreClosed`; `PdfIsEarned`; `LateRendersRefused`; with fairness `EveryRenderReturns` |
| `pdf_session` | sessions of 2 requests out of nearly 70 on 3 documents, over every route and command; 35 783 states | type invariant; `AskedPasswordLocks`; `LockedContentStaysLocked`; `PagesAccounted`; `TopBookmarksReadBack` |
| `pdf_uploads` | 1 request of the same client | violation: an upload is stored over another |
| `server` | 1 conversion, 1 `/health` of both engines, 1 job, sampler and 1 stream, 1 permit, lazy or eager, TLS or not; 104 777 states | `NothingLeaks`; `EngineHeldWhileUsed`; with fairness `EveryRequestSettles`, `Stops` |
| `chrome_fetch` | 3 clients, 2 of which may download, 3 launches; 215 895 states | `AloneIsAtomic`; `PathIsUsable` |
| `cli_batch` | 4 inputs in two selections of 3, two of them with one output path, 2 at a time; 29 069 states | `SuccessIsWritten`; `SkipAccountsForAll`; `StopTearsNothing` |
| `console` | 2 requests, a browser, a `/health`, 2 engines in three scenarios, one that can be wedged; 229 791 states | `SamplesAddUp`; `RestartsReal`; with fairness `AnsweredIsShown`, `SamplerPrevails` |

**Why the bounds are enough.** The races of the batch API are between two tasks
of one batch, between a task and the cleanup or a download, and between two
handlers; batches share nothing but the capacity test, so two of them show it.
Three items are needed only for a semaphore with more waiters than permits, and
`batch_live` has them. In `LokEngine` a channel of one makes "full" reachable with
two callers; a third caller would only repeat the part of the second. Two threads
let an abandoned start overlap the next one, one thread makes `Builder::spawn`
fail. Safety and liveness of it are apart because an instance that has both takes
too long. Three webhook jobs behind one worker fill the channel and leave a handler
waiting at it; that two workers do not meet over one job is in the theorems, which
hold of any number of workers. Two attempts have a first, which is repeated, and a
last, which is not. Renders meet only at the browser's mutex, where a screenshot stands
for every other holder; two shutdowns are needed, since the second has to wait for
the first. A capture task that is two events behind can lose the main document's
status to a frame's. Ids are used once, so the number of batches, and of jobs, bounds a
behaviour's submissions; callers and downloaders repeat without bound.

A session of two requests is enough for what one route does to the result of
another, since a document keeps what was done to it; the second request uses a result
of the first. The three documents differ in all a route looks at: an outline of two
levels, a form with an attachment and annotations, a password, a page that owes its
rotation and resources to its page tree, pages whose object numbers are known. In `Server`
everything meets at the mutex of an engine; every kind of task that wants one is in
the run once, and a second conversion would stand where the job stands. In
`ChromeFetch` three clients are two that download and one that finds what they left.
A run of `CliBatch` has three inputs with two permits, so one waits. In `Console` the
logs and the channel have room for one, so that they overflow; the scenarios keep
apart what does not share a variable.

**Symmetry** is used in safety runs only, and only over sets whose
elements the specification never tells apart. **Deadlock** is checked in the batch,
Chrome and console runs. The others switch the check off, because there the process
really stops, after `_exit(0)` or at the end of `main`, a session is over, or nothing
is left to do with an engine whose last handle is gone.

**Fairness.** Batch: the runtime polls every task that is ready (weak fairness of
each worker and each item's task), time passes (`Expire`) and the cleanup loop
never ends. Nothing obliges a client to submit or download. LibreOffice: callers
and threads that can go on do, timers fire; strong fairness where a caller waits
for `init_lock`, because tokio's mutex serves waiters in the order they came, and
for the five seconds of `shutdown`, which go by whether or not the worker is busy
at each moment. Conversions are not fair: they may hang. Webhooks: the same for
handlers and workers, whose attempts end with the HTTP client's timeout; `execute_job`
is not fair, and `EveryJobSettles` says so in its premise. Panics, signals and the
arrival of reports are never obliged. Chromium: the timer of a render fires; a
command of a screenshot or of `close` ends, by Chrome's answer or by the request
timeout of the CDP client; the mutex serves its waiters, of which there are finitely
many. Chrome itself is under no obligation, nor are renders before their timer.
Server: every task that can run does; launches, conversions and probes end, for each
has a timeout of its own. `line` is the queue of tokio's mutex, so no strong fairness
is needed. Nothing makes a client send or leave, and no signal has to come. Console:
the sampler wakes every five seconds and reads every counter (weak fairness of its
steps), a stream that is polled goes on; nothing is asked of clients, engines or
`/health`.

## 4. Disagreements between code and documentation

One has a run that expects a violation, and `PROJECT.json` quotes the line:

1. `EveryUploadKept`. Three uploads of one file name: the third is stored over the
   second, because `unique_filename` (`multipart.rs:281`) looks for a free name among
   the names the files came with, not those they were stored under.

For others the documented claim is stated in its module, with the counterexample TLC
finds when it is checked as an invariant or property of the instance named:

2. `WithinMaxActive` (2 submitters, limit 1): `batch_max_active` is tested before the
   body is read (`batch.rs:37`) and not again when the batch is created: overlapping
   submissions exceed it. `config.rs:281`: "Maximum concurrent batches server-wide".
3. `OneTimeDownload` (`batch_live`): everyone who read the file before the first removal
   gets it (`batch.rs:193`, comment at 192).
4. `ResultsExact` (`batch_safety`): the successes a completed batch reports can be fewer
   than the items that succeeded, as whole copies overwrite each other
   (`batch_worker.rs:130`). With one item at a time they are exact (`SerialResultsExact`).
5. `WatcherSparesConversions` (`lok_safety`): the idle watcher's stamp is taken after
   conversions only, so one that starts late in the idle period is cut off, although the
   comment says it is not (`libreoffice/mod.rs:445-448`).
6. `GivesUpOnlyWhenWedged` (`lok_safety`): `let _dropped_tx` (`mod.rs:361`) keeps the
   sender alive to the end of `shutdown`, so an idle worker is never joined and every
   shutdown of a live engine takes five seconds.
7. `AllBookmarksReadBack` (`pdf_session` with one request): a merge offsets the bookmarks of the
   first level and leaves those below where they were (`pdfengines.rs:179-190`).
8. `OfficeJobMergesAll` (`pdf_session` with one request): the webhook executor of an office job
   with `merge` returns the first document only (`webhook/mod.rs:777`).
9. `AtomicDownload` (`chrome_fetch`): two downloads share one staging directory, and the
   destination can be there without its files (`chrome_fetch/download.rs:79-80`, line 93). Apart from
   each other they are atomic (`AloneIsAtomic`).
10. `BookmarksReachTheirPages` (`pdf_session` with one request): "Bookmarks reference pages by
   1-based page numbers" (`bookmarks/mod.rs:76`; also line 140), but the destination written
   for page n is object n, whichever object page n is (lines 145-148). What holds is that
   pdfbro itself reads the numbers it wrote (`TopBookmarksReadBack`).
11. `MergeKeepsLooks` (`pdf_session` with one request): a merge, which is to "concatenate a
   sequence of PDFs preserving order" (`merge.rs:1`), drops the /Pages nodes of its inputs
   (`merge.rs:75-78`) and puts the pages under a bare one (89-112): a page that owes its
   rotation, media box or resources to its page tree loses them. What a page has of its own
   it keeps (`PagesAccounted`).
12. `WedgedIsShownDown` (`console`): the sampler writes `is_running` into a gauge that is
   documented as "LibreOffice health status (1=up, 0=down)" (`metrics.rs:38`), so a wedged
   LibreOffice is shown up, over the 0 that `/health` wrote (`console_store.rs:607-617`).
   `SamplerPrevails` says just this much of the gauges: they come to show `is_running`.
13. `EverySuccessHasItsOutput` (`cli_batch`): two inputs of `pdfbro batch` that differ in the
   extension alone are mirrored to one output path (`commands/batch.rs:197-202`): both count as
   successes, and one output is left. `SuccessIsWritten` excepts them.

Noted on the way, without a formula:

- `domContentLoaded` is documented as "Wait until `Page.domContentEventFired`"
  (`types.rs:505`). Its listener is registered when `goto` or `set_content` has waited
  for `load` (`wait.rs:45`): the event is past, and the render times out. `WaitMet`
  says so. `networkIdle` has the same window if the page falls idle too early.
- `fail_on_status` is said to be about the main-frame response, but the response of
  a frame's document overwrites the recorded status (`render.rs:488-494`).
- In-flight renders are said to resolve to "engine shut down" (`mod.rs:335`), but a
  failing navigation is reported as such, and a poll swallows the error until the
  timeout.
- Asynchronous jobs drop passwords and metadata of the form, which the table of
  features (`README.md:108-109`) does not say: `PdfJob` does not get them.
- `/health` "must always respond quickly even under heavy load" (`app.rs:126-128`), but
  it waits in the line of the engines' mutexes behind whole conversions, without a timeout
  of its own (`EveryRequestSettles` is all one can say). It then writes gauges from
  what it found earlier (`health.rs:31`), which the sampler overwrites in its next round.
- Not every route honours `userPassword` and `ownerPassword`: the URL route and the office
  route with several files that it does not merge drop them. `Honours` lists the routes that
  do, and `AskedPasswordLocks` is about those.
- `is_running` stays set of a LibreOffice whose shutdown was dropped by its bound
  (`main.rs:228`); the process ends right after.
- A panic leaves the health flag of the LibreOffice engine set until a caller notices
  (`mod.rs:323`), so `HealthyHasWorker` counts a panicked worker as up: the line at
  `mod.rs:345`, taken by itself, says more.
- `rotate` and `watermark` do not look at what a page inherits (`rotate.rs:50-61`,
  `watermark.rs:206`, 281-306).
- The idle monitors never fire (`supervised_engine.rs:89`).
- `active_requests` stays too high by every client that went away (`app.rs:394`;
  `NothingLeaks` says by exactly how much).
- An eager engine whose start failed is never started again.
- `chromium_restarts` counts a probe that failed once as a restart (`RestartsReal` is
  about LibreOffice for that reason).
- The 95th percentile of a single observation is 0, because its rank is truncated, and
  the request rate divides by five seconds also when a tick came late
  (`console_store.rs:502-524`, 659).
- A stream may show its snapshot and then an older payload that was queued meanwhile
  (`console.rs:18-25`); `AnsweredIsShown` holds nevertheless.
- The console's stream subscribes to the shutdown signal after its first payload
  (`console.rs:31`): a signal in between is missed, and without a bound on the drain the
  process waits for the browser to leave. `Stops` names the exception.
- `preview_compare` promises "both previews side-by-side" and returns the second one.
- `pdfbro split` with ranges that select no page writes nothing and succeeds.

## 5. What is proved

For every value of the constants allowed by the named assumptions of the modules:
`Batches` and `Items` finite and `Items` not empty, any number of submitters and
downloaders; any nonempty set of threads, any set of callers and any capacity of
at least one; any sets of renders, screenshots and shutdowns; any set of jobs, any
finite nonempty set of workers, any capacity and number of attempts of at least one;
any set of clients; any finite set of inputs and any mirroring; any finite set of
requests, any streams and any capacities of the rings; any engines, requests, jobs,
streams and permits and any engines a task visits; any documents, forms and layouts of uploads
and any length of a session.

**BatchService** (`BatchServiceProofs`). `TypeCorrect` is inductive on its own. It
includes that the semaphore never goes below zero and that every copy written back
is a batch. Everything else needs to know what a task may still write, which the
stored batch does not say. Three further invariants say it:

- `PhaseInv`: per batch, where the tasks stand and what their copies contain, given
  where `process_batch` stands. While items are at work every copy in flight is
  "Processing" without output; once the tasks are joined there is no copy in
  flight but the worker's. It is what makes a stale write harmless to a finished
  batch, and gives `NoSlotLeaks` (`ActiveHasWorker`) and `FinishedStaysFinished`
  (`FinishedIsFinal`).
- `DownloadInv`: a handler works on a batch whose worker has ended, and a delivered
  batch has left the store for good. Gives `DeliveredStaysGone`.
- `OutputInv`: what is, or is about to be, stored as completed with an output has
  its file on disk and an item that succeeded, until it is removed. Gives
  `AdvertisedStaysDownloadable` and, with `DownloadInv`, `FailedDownloadsLoseNothing`
  (`FailedDownloadLosesNothing`): whatever makes a download fail, the batch is as it was
  advertised, or removed.

- `AttributedInv`: an item is shown as "Success" by its own task's copy only when that task
  is about to store it, and by any other copy, stored, held by the worker or by another
  task, only when its task has ended well. Whole copies overwrite each other, so it has to
  be said of every copy there is, not of the store alone. Gives `SuccessIsNeverInvented` (`NoPhantomSuccess`).
- `Balance`: the free permits and the tasks that hold one are `batch_concurrency`, which
  is `PermitsStayBalanced` (`PermitsBalance`).
- `RecordedInv`: an item whose task has ended well is a "Success" in the stored batch and
  in every copy that may still be written over it. It needs that no other task is between its read and its write,
  which `Balance` gives for one permit. Gives `SerialStaysExact` (`SerialResultsExact`,
  whose premise is `Concurrency = 1`; for two permits TLC has the counterexample, no. 4
  of section 4).

`ServiceImplementsLifecycle` is a step simulation: for each action, which step of
`BatchLifecycle` it is through the mapping of status, worker state and deliveries,
or that it is a stutter.

**LokEngine** (`LokEngineProofs`). After `TypeCorrect`, which needs that a channel
never outgrows its capacity also when an abandoned request replaces a live one, the
inductive invariant `IInv` has four parts:

- `LockInv`: `init_lock` is held exactly while a start is under way, and until it
  commits there is no sender.
- `OfficeInv`: a worker beyond `Office::new` has used up the process's one Office.
- `ServeInv`: the worker of the sender, or of a start that can still commit, is
  one that can serve; requests are nowhere else.
- `PlaceInv`: callers that wait and requests in the system correspond one to one.

`OneServing` follows because two workers that serve would both have opened the one
Office under one lock; `NoStrandedCaller` from `PlaceInv` and `ServeInv`;
`WedgeIsSticky` and `HealthyHasWorker` step by step on top of `IInv`.

**WebhookService** (`WebhookServiceProofs`). `TypeCorrect` needs the locals of the
workers with it (`LocalsInv`: a worker has a job from `recv` to the end of
`process_webhook_job`, and an outcome and an attempt within the limit while it
reports). The inductive invariant `IInv` adds:

- `PlaceInv`: a job is in one place only, and only once its request was accepted.
- `SomewhereInv`: an accepted job is somewhere, unless no worker is left. The two
  give `JobsConserved` (`AcceptedJobsStay`).
- `VerdictInv`: the reports sent of a job that is not over carry the outcome its
  worker still holds. It needs `PlaceInv` (a second worker with the same job could
  come to another outcome) and gives `OneVerdict` (`ClientHearsOneVerdict`).

`ServiceImplementsPromise` is again a step simulation, on top of `IInv` and of
`CountInv`: what has been sent of a job at work is one report per attempt, so that
the attempt number of `deliver` is the number of reports `WebhookPromise` counts.
`PhaseTable` says which phase of the promise a job is in, wherever it is.

**ChromiumEngine** (`ChromiumEngineProofs`). On top of `TypeCorrect` there are two
inductive invariants:

- `ShutInv`: a future past the lock holds the guard (`GuardHeld`); a browser that is
  taken is with a closer at work or its Chrome is gone (`TakenIsClosing`); a closer
  that is done has seen it gone (`DoneIsOver`). The step that needs all three is the
  one where a shutdown finds nothing: it has the lock, so no closer is at work.
  Gives `ShutdownIsComplete` and, step by step, `LateRendersRefused`.
- `RenderInv`: what a render has behind it where it stands, page, document, recorded
  failures and outcome. Gives `PagesAreClosed` and `PdfIsEarned`.

**Server** (`ServerProofs`). `IInv` (`Inductive`) has five parts:

- `Shapes` and `Places`: the types, and how far each task can be, given the phase of the
  process and the engine the shutdown has come to. A task past its last call is in no line.
  An engine that is not there while its flag is set is LibreOffice, and `serve` has taken it
  out: its shutdown is awaited at the moment, or was dropped.
- `Lines`: the line of an engine is a sequence without repetition of exactly the tasks that
  wait for the engine or use it, and who uses it is at the head. Each action is first shown
  to do one of four things to a line (`LinesEffect`: one enters at the end, the head leaves,
  dropped ones leave wherever they are, or nothing); each of the four
  keeps `Lines`. `RemainingFacts` says what dropping leaves: the other tasks, each once, and
  the holder at the head if it stays.
- `EngineHeldWhileUsed`, which is inductive with `Lines`; it gives `EngineStaysHeld`.
- `Counts`: free permits and the conversions that hold one add up to `--concurrency`;
  `active_requests` is the number of requests that are live or whose client went away; and
  only finitely many requests have arrived, so that there is something to count.

`NothingEverLeaks` (`NothingLeaks`) reads off `Lines` and `Counts`.

**PdfSession** (`ClientProofs`). The state is small; the induction over the session is the
easy part. `SessionInv` is `Library` (the client has its originals and nothing that is not
a document), `JobKept` (a job is a request that was accepted) and `ReplyKept`: the last
answer is a possible outcome (`CameFrom`) of a request that was not refused. `ReplyKept`
carries the operation itself, not what is said of it, so every property of answers follows
from `SessionInductive` by a lemma about the operations, without a further induction:

- `SessionTypeOK` and `LockedStaysLocked`, `AskedLocks`: per route and command, a lemma with
  what it makes of documents (`...Rules`: `IsDocument` is kept, `LockRule`, `AskRule`), built
  from lemmas about the operations (`...Succeeds`, `...Makes`) and about changes to one
  document (`...Facts`). `OneEach` says which results are of which file.
- `PagesAllAccounted`: pages in a row. `FlattenSeq` is a recursive function, and induction
  is out of reach, so its values are characterised by a function `Flats` that exists for
  every length, by the least counterexample (`LeastNat`, from well-foundedness). `Piece`
  and `PiecesInARow` say that a sequence cut at ascending places is its pieces in a row;
  `EveryNPages` and `SingletonsInARow` make the chunks of split such pieces, including a
  short last one; `PathsApart` shows that under `KeptApart` no upload is stored over another,
  so that what a route works on is what was sent. `Same` says that pages are those of the
  inputs, or those without what the page tree lent them, which is all a merge does to them.
- `TopBookmarksTold`: where the pages of each input are in the result (`InTheRow`,
  `PageInTheRow`), that `PagesBefore` is that offset, that what is read is what was written
  (`BookmarkRead`, `ReindexedHas`, `MergedWithBookmarks`), and that metadata and passwords
  leave it alone. It is about the page numbers pdfbro writes and reads, not about the pages a
  viewer is led to (no. 10 of section 4).

The attempt to prove `TopBookmarksReadBack` showed that it was false as first stated. A session
of three requests, one more than the run has, breaks it: encrypt with an owner password,
write bookmarks into the result, merge it with another. lopdf may open such a file without
its outline being seen, and the merge has nothing to re-index. `BookmarksReadBack` excepts such
inputs, and bookmarks whose destination is not known, as the comment on it says.

**ChromeFetch** (`ClientProofs`). `Typing` is `TypeOK` with the places where a
client can be. The invariant that matters holds unless downloads overlapped: at most
one client downloads, nobody has the destination open for removal, what the
downloader has still to unpack and what is in staging make up the distribution, and
the destination is complete or absent. Gives `AloneAtomic` and `PathUsable`.

**CliBatch** (`CliBatchProofs`). The inductive invariant `Inv` has seven parts:
`Typing`; `Disk` (what a path holds, given who has it open); `Places` (what the main
task and the tasks can be doing together); `Bounded` (permits); `Verdicts` (what was
joined, given what the tasks returned); `Written` (a task that returned success, and
shares its path with nobody, has its PDF there); `Accounted` (joined and not joined
inputs make up the entries). Gives `SuccessesAreWritten`, `NothingIsTorn` and
`SkipAccounts`.

**Console** (`ConsoleProofs`). `TypeCorrect` includes that what the sampler has read of
a status was counted. On top of it, `Room` says that between a start of LibreOffice and
its being noticed there is a start not yet counted, in each place of the sampler, which
gives `RestartsAreReal`; `Booked` says that the previous totals are those of the last
sample and that what is read anew contains it, which gives `SamplesDoAddUp`.

TLC has checked each invariant on the instances of the runs too (`SessionInv`, which
repeats the operations in every state, on sessions of one request).
Some properties are proved and in no run, which keeps the runs to the deeper ones: the
type invariants of all modules but `PdfSession` and `Server` (where `NothingLeaks` has it),
`PermitsBalance`, `WedgeIsSticky`, and `FinishedIsFinal` and `OneVerdict`, which follow
from the refinements.

## 6. What is only model-checked

- Liveness, all of it: the prover does not handle fairness and ENABLED.
  Of the properties of the runs these are `EveryBatchSettles`, `EventuallyReclaimed`,
  `EveryConvertReturns`, `ShutdownReturns`, `EveryJobSettles`, `EveryRenderReturns`,
  `EveryRequestSettles`, `Stops`, `AnsweredIsShown` and `SamplerPrevails`. Every other property
  of a passing run is a theorem.
- The disagreements of section 4, which are counterexamples.
- Stated in the modules and checked by TLC on the same instances, but in no run any
  more, in favour of deeper ones: `CutOffWorkerEnds` of LibreOffice,
  `ShutdownReturns` of Chromium.

## 7. What is not modelled

- Crash recovery of batches: `batch_state.rs:3` speaks of it, but nothing is
  written besides the output files and nothing is read at start. A restart is
  `Init` with files nobody refers to.
- `batch_concurrency = 0`, where no item ever starts (`Concurrency` may be 0 in the
  theorems, which are safety).
- What LibreOffice, Chromium, ghostscript, qpdf and the network compute: external.
- The webhook circuit breaker (`server/src/webhook/circuit_breaker.rs`): no module of the server declares it.
- URL and header validation, LibreOffice's filter names, the estimates: pure functions
  of strings and numbers. Of configuration and PDF options, only whether a value parses.
- Authentication, logging, the API description, the wording of metrics and errors: no
  protocol of their own.
- Of the PDF operations: `validate.rs`, the permission bits, dates and custom metadata.
- The benchmark, the user interface, and the bindings beyond how they come by a Chrome:
  wrappers.

## 8. Plan

All modules of the first plan exist. What would be worth adding:

| What | Why |
|---|---|
| what `rotate`, `metadata` and `watermark` keep of a document, in the manner of `PagesAccounted` | the lemmas `...Makes` of `ClientProofs` need only say more |
| that `EveryUploadKept` holds under `KeptApart`, as a theorem | `ReceivedAsSent` is nearly it, and it would say exactly how far finding 1 reaches |
| the safety half of `Stops` (the streams and requests that keep a server from its end) | the liveness is out of the prover's reach |
| `Server` with two conversions of different engines | needs a smaller model of the start-up for TLC to finish |
| `ChromiumEngine` with the status of the main frame beside the recorded one | a formula for the first remarks of section 4 |
