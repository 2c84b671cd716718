---------------------------- MODULE BatchService ----------------------------
(***************************************************************************)
(* The server-side batch API: the handlers of routes/batch.rs, the shared  *)
(* BatchStateManager of routes/batch_state.rs and the background tasks of  *)
(* batch_worker.rs.                                                        *)
(*                                                                         *)
(* Every task reads a batch by cloning it under the read lock (get_batch), *)
(* changes its own copy, and writes the whole copy back under the write    *)
(* lock (update_batch).  The two lock acquisitions are separate steps, so  *)
(* a copy can be stale when it is written.  A step of this module is what  *)
(* one task does up to and including one access to shared state.           *)
(***************************************************************************)
EXTENDS Integers, FiniteSets

CONSTANTS
  Batches,       \* the ULIDs the server may hand out; an id is used once
  Items,         \* the items of a request
  Submitters,    \* requests to batch_submit that may run at the same time
  Downloaders,   \* requests to batch_download that may run at the same time
  Concurrency,   \* config.batch_concurrency
  MaxActive,     \* config.batch_max_active
  ItemOutcomes,  \* what process_single_item may return: "Success" or "Error"
  NoBatch        \* the None of get_batch

BatchStatus == {"Queued", "Processing", "Completed", "Failed"}
ItemStatus  == {"Pending", "Processing", "Success", "Error"}

\* What a step or a property can tell apart of a BatchState: the request, the
\* timestamps and the sizes are left out; output is output_path.is_some().
BatchState == [status : BatchStatus, items : [Items -> ItemStatus],
               output : BOOLEAN]

ASSUME ConcurrencyAssumption == Concurrency \in Nat
ASSUME MaxActiveAssumption == MaxActive \in Nat
ASSUME OutcomesAssumption == ItemOutcomes \subseteq {"Success", "Error"}
ASSUME NoBatchAssumption == NoBatch \notin BatchState
\* BatchRequest::validate refuses an empty batch; a batch has at most 50 items.
ASSUME ItemsAssumption == IsFiniteSet(Items) /\ Items # {}
ASSUME BatchesAssumption == IsFiniteSet(Batches)

VARIABLES
  store,      \* BatchStateInner.batches
  disk,       \* the batches whose output file exists under outputs/
  expired,    \* the batches whose expires_at has passed
  submit,     \* where each submit handler stands
  job,        \* where process_batch of each batch stands
  jobCopy,    \* the copy of the batch that process_batch has changed
  task,       \* where the task of each item stands
  taskCopy,   \* the copy of the batch that an item's task has changed
  permits,    \* free permits of the batch's semaphore
  download,   \* where each download handler stands, or how it answered
  wanted,     \* the batch each download handler at work is about
  sweep,      \* ids cleanup_expired has collected and not yet removed
  delivered   \* history: answers 200 with the output, per batch

jobVars == <<job, jobCopy>>
taskVars == <<task, taskCopy, permits>>
downloadVars == <<download, wanted, delivered>>
vars == <<store, disk, expired, submit, jobVars, taskVars, downloadVars, sweep>>

JobPC == {"none", "spawned", "marking", "opening", "joining", "writing",
          "completing", "failing", "committing", "done", "panicked"}
TaskPC == {"none", "waiting", "admitted", "marking", "converting",
           "recording", "ok", "err", "panicked"}
DownloadPC == {"checking", "reading", "removing"}
Answers == {"none", "ok", "notFound", "notComplete", "gone", "internal"}

TaskEnded == {"ok", "err", "panicked"}
JobEnded == {"done", "panicked"}
HoldsPermit == {"admitted", "marking", "converting", "recording"}

-----------------------------------------------------------------------------
(* BatchState: the methods that change a copy, and the manager's methods.  *)

\* BatchState::new: Queued, every item Pending, no output.
NewBatch == [status |-> "Queued", items |-> [i \in Items |-> "Pending"],
             output |-> FALSE]

MarkProcessing(s) == [s EXCEPT !.status = "Processing"]
MarkEveryItem(s, i, st) ==  \* mutant: the index is not looked at
  [s EXCEPT !.items = [j \in Items |-> st]]
MarkItem(s, i, st) == [s EXCEPT !.items[i] = st]
MarkCompleted(s) == [s EXCEPT !.status = "Completed", !.output = TRUE]
MarkFailedNot(s) == s  \* mutant: the error path does not set the status
MarkFailed(s) == [s EXCEPT !.status = "Failed"]

Stored(b) == store[b] # NoBatch
Active(b) == Stored(b) /\ store[b].status \in {"Queued", "Processing"}
Finished(b) == Stored(b) /\ store[b].status \in {"Completed", "Failed"}
ActiveCount == Cardinality({b \in Batches : Active(b)})

\* update_batch inserts whatever copy it is given, also when the id is gone.
Update(b, s) == store' = [store EXCEPT ![b] = s]

RemoveFileFirst(b) ==  \* mutant: the file goes, the entry stays
  disk' = disk \ {b} /\ UNCHANGED store
\* remove_batch keeps the write lock while it deletes the output file, and
\* deletes it only if the batch it removed knew its path; an error is ignored.
Remove(b) ==
  /\ store' = [store EXCEPT ![b] = NoBatch]
  /\ disk' \in {disk, IF Stored(b) /\ store[b].output THEN disk \ {b} ELSE disk}

ItemsWith(b, st) == {i \in Items : store[b].items[i] = st}

\* BatchState::progress of a stored batch.
Progress(b) ==
  LET completed == Cardinality(ItemsWith(b, "Success"))
      failed == Cardinality(ItemsWith(b, "Error"))
  IN  [total |-> Cardinality(Items), completed |-> completed,
       failed |-> failed, pending |-> Cardinality(Items) - completed - failed]

\* to_status_response: a status answer carries a download_url.
DownloadUrl(b) ==
  Stored(b) /\ store[b].status = "Completed" /\ store[b].output

-----------------------------------------------------------------------------
Init ==
  /\ store = [b \in Batches |-> NoBatch]
  /\ disk = {}
  /\ expired = {}
  /\ submit = [s \in Submitters |-> "idle"]
  /\ job = [b \in Batches |-> "none"]
  /\ jobCopy = [b \in Batches |-> NoBatch]
  /\ task = [b \in Batches |-> [i \in Items |-> "none"]]
  /\ taskCopy = [b \in Batches |-> [i \in Items |-> NoBatch]]
  /\ permits = [b \in Batches |-> 0]
  /\ download = [d \in Downloaders |-> "none"]
  /\ wanted = [d \in Downloaders |-> NoBatch]
  /\ sweep = {}
  /\ delivered = [b \in Batches |-> 0]

-----------------------------------------------------------------------------
(* batch_submit.  The capacity test comes first; the multipart body is read *)
(* between it and create_batch.                                             *)

SubmitAdmit(s) ==
  /\ submit[s] = "idle"
  /\ ActiveCount < MaxActive
  /\ submit' = [submit EXCEPT ![s] = "admitted"]
  /\ UNCHANGED <<store, disk, expired, jobVars, taskVars, downloadVars, sweep>>

\* create_batch and tokio::spawn: no await between them.
SubmitCreate(s, b) ==
  /\ submit[s] = "admitted"
  /\ job[b] = "none"
  /\ Update(b, NewBatch)
  /\ job' = [job EXCEPT ![b] = "spawned"]
  /\ submit' = [submit EXCEPT ![s] = "idle"]
  /\ UNCHANGED <<disk, expired, jobCopy, taskVars, downloadVars, sweep>>

\* The body cannot be parsed, the request is not valid, or the request timeout
\* or a closed connection drops the handler.
SubmitReject(s) ==
  /\ submit[s] = "admitted"
  /\ submit' = [submit EXCEPT ![s] = "idle"]
  /\ UNCHANGED <<store, disk, expired, jobVars, taskVars, downloadVars, sweep>>

-----------------------------------------------------------------------------
(* process_batch and process_items.                                        *)

JobGoes(b, pc) == job' = [job EXCEPT ![b] = pc]

\* First get_batch: without the batch the task returns and leaves no trace.
JobLoad(b) ==
  /\ job[b] = "spawned"
  /\ IF Stored(b)
     THEN /\ jobCopy' = [jobCopy EXCEPT ![b] = MarkProcessing(store[b])]
          /\ JobGoes(b, "marking")
     ELSE /\ JobGoes(b, "done")
          /\ UNCHANGED jobCopy
  /\ UNCHANGED <<store, disk, expired, submit, taskVars, downloadVars, sweep>>

JobMark(b) ==
  /\ job[b] = "marking"
  /\ Update(b, jobCopy[b])
  /\ jobCopy' = [jobCopy EXCEPT ![b] = NoBatch]
  /\ JobGoes(b, "opening")
  /\ UNCHANGED <<disk, expired, submit, taskVars, downloadVars, sweep>>

\* process_items: its own get_batch, then a semaphore and a task per item.
JobSpawnItems(b) ==
  /\ job[b] = "opening"
  /\ IF Stored(b)
     THEN /\ task' = [task EXCEPT ![b] = [i \in Items |-> "waiting"]]
          /\ permits' = [permits EXCEPT ![b] = Concurrency]
          /\ JobGoes(b, "joining")
     ELSE /\ JobGoes(b, "failing")
          /\ UNCHANGED <<task, permits>>
  /\ UNCHANGED <<store, disk, expired, submit, jobCopy, taskCopy, downloadVars, sweep>>

\* mutant: the join stops at the first task that ended.
JoinedFirst(b) == \E i \in Items : task[b][i] \in TaskEnded

\* All handles are awaited; a panicked task counts as a failed item.
Joined(b) == \A i \in Items : task[b][i] \in TaskEnded

JobJoin(b) ==
  /\ job[b] = "joining"
  /\ Joined(b)
  /\ JobGoes(b, IF \E i \in Items : task[b][i] = "ok" THEN "writing" ELSE "failing")
  /\ UNCHANGED <<store, disk, expired, submit, jobCopy, taskVars, downloadVars, sweep>>

\* create_zip_output or create_merged_output.
JobWriteOutput(b) ==
  /\ job[b] = "writing"
  /\ disk' = disk \cup {b}
  /\ JobGoes(b, "completing")
  /\ UNCHANGED <<store, expired, submit, jobCopy, taskVars, downloadVars, sweep>>

JobWriteUnchecked(b) ==  \* mutant: the io error is swallowed
  /\ job[b] = "writing"
  /\ JobGoes(b, "completing")
  /\ UNCHANGED <<store, disk, expired, submit, jobCopy, taskVars, downloadVars, sweep>>

\* fs::write or fs::metadata fails, and the file may be there nevertheless.
JobWriteFails(b) ==
  /\ job[b] = "writing"
  /\ \E d \in {disk, disk \cup {b}} : disk' = d
  /\ JobGoes(b, "failing")
  /\ UNCHANGED <<store, expired, submit, jobCopy, taskVars, downloadVars, sweep>>

\* The last get_batch: expect() panics when the batch has disappeared.
JobLoadFinal(b) ==
  /\ job[b] \in {"completing", "failing"}
  /\ IF Stored(b)
     THEN /\ jobCopy' = [jobCopy EXCEPT ![b] = IF job[b] = "completing"
                                               THEN MarkCompleted(store[b])
                                               ELSE MarkFailed(store[b])]
          /\ JobGoes(b, "committing")
     ELSE /\ JobGoes(b, "panicked")
          /\ UNCHANGED jobCopy
  /\ UNCHANGED <<store, disk, expired, submit, taskVars, downloadVars, sweep>>

JobCommit(b) ==
  /\ job[b] = "committing"
  /\ Update(b, jobCopy[b])
  /\ jobCopy' = [jobCopy EXCEPT ![b] = NoBatch]
  /\ JobGoes(b, "done")
  /\ UNCHANGED <<disk, expired, submit, taskVars, downloadVars, sweep>>

JobStep(b) ==
  \/ JobLoad(b)
  \/ JobMark(b)
  \/ JobSpawnItems(b)
  \/ JobJoin(b)
  \/ JobWriteOutput(b)
  \/ JobWriteFails(b)
  \/ JobLoadFinal(b)
  \/ JobCommit(b)

-----------------------------------------------------------------------------
(* The task of one item, spawned by process_items.                         *)

TaskGoes(b, i, pc) == task' = [task EXCEPT ![b][i] = pc]

TaskAcquireUnbounded(b, i) ==  \* mutant: no permit is waited for
  /\ task[b][i] = "waiting"
  /\ permits' = [permits EXCEPT ![b] = @ - 1]
  /\ TaskGoes(b, i, "admitted")
  /\ UNCHANGED <<store, disk, expired, submit, jobVars, taskCopy, downloadVars, sweep>>

TaskAcquire(b, i) ==
  /\ task[b][i] = "waiting"
  /\ permits[b] > 0
  /\ permits' = [permits EXCEPT ![b] = @ - 1]
  /\ TaskGoes(b, i, "admitted")
  /\ UNCHANGED <<store, disk, expired, submit, jobVars, taskCopy, downloadVars, sweep>>

TaskPanicsHolding(b, i) ==  \* mutant: the permit is forgotten
  TaskGoes(b, i, "panicked") /\ UNCHANGED <<permits, taskCopy>>

\* Unwinding drops the permit.
TaskPanics(b, i) ==
  /\ TaskGoes(b, i, "panicked")
  /\ permits' = [permits EXCEPT ![b] = @ + 1]
  /\ UNCHANGED taskCopy

TaskLoadMark(b, i) ==
  /\ task[b][i] = "admitted"
  /\ \/ /\ Stored(b)
        /\ taskCopy' = [taskCopy EXCEPT ![b][i] = MarkItem(store[b], i, "Processing")]
        /\ TaskGoes(b, i, "marking")
        /\ UNCHANGED permits
     \/ /\ ~Stored(b)
        /\ TaskPanics(b, i)
  /\ UNCHANGED <<store, disk, expired, submit, jobVars, downloadVars, sweep>>

TaskMark(b, i) ==
  /\ task[b][i] = "marking"
  /\ Update(b, taskCopy[b][i])
  /\ taskCopy' = [taskCopy EXCEPT ![b][i] = NoBatch]
  /\ TaskGoes(b, i, "converting")
  /\ UNCHANGED <<disk, expired, submit, jobVars, permits, downloadVars, sweep>>

\* process_single_item has returned; the result goes into a fresh copy.
TaskLoadResult(b, i) ==
  /\ task[b][i] = "converting"
  /\ \/ /\ Stored(b)
        /\ \E st \in ItemOutcomes :
             taskCopy' = [taskCopy EXCEPT ![b][i] = MarkItem(store[b], i, st)]
        /\ TaskGoes(b, i, "recording")
        /\ UNCHANGED permits
     \/ /\ ~Stored(b)
        /\ TaskPanics(b, i)
  /\ UNCHANGED <<store, disk, expired, submit, jobVars, downloadVars, sweep>>

\* update_batch, then the task returns its result and its permit.
TaskRecord(b, i) ==
  /\ task[b][i] = "recording"
  /\ Update(b, taskCopy[b][i])
  /\ TaskGoes(b, i, IF taskCopy[b][i].items[i] = "Success" THEN "ok" ELSE "err")
  /\ taskCopy' = [taskCopy EXCEPT ![b][i] = NoBatch]
  /\ permits' = [permits EXCEPT ![b] = @ + 1]
  /\ UNCHANGED <<disk, expired, submit, jobVars, downloadVars, sweep>>

TaskStep(b, i) ==
  \/ TaskAcquire(b, i)
  \/ TaskLoadMark(b, i)
  \/ TaskMark(b, i)
  \/ TaskLoadResult(b, i)
  \/ TaskRecord(b, i)

-----------------------------------------------------------------------------
(* batch_download.                                                         *)

\* A handler goes on with its batch, or answers and forgets it.
DownloadGoes(d, b, pc) ==
  /\ download' = [download EXCEPT ![d] = pc]
  /\ wanted' = [wanted EXCEPT ![d] = IF pc \in DownloadPC THEN b ELSE NoBatch]

LookupAnyStatus(b) ==  \* mutant: the status is not tested
  IF Stored(b) THEN "checking" ELSE "notFound"

\* How get_batch's snapshot is answered; a completed batch has an output path.
Lookup(b) ==
  CASE ~Stored(b)                         -> "notFound"
    [] Stored(b) /\ ~DownloadUrl(b)       -> "notComplete"
    [] DownloadUrl(b)                     -> "checking"

DownloadStart(d, b) ==
  /\ download[d] \in Answers
  /\ DownloadGoes(d, b, Lookup(b))
  /\ UNCHANGED <<store, disk, expired, submit, jobVars, taskVars, sweep, delivered>>

\* try_exists: the file is not there, or it cannot be looked up for an I/O error
\* (unwrap_or(false)); both are answered 410.
DownloadCheck(d) ==
  /\ download[d] = "checking"
  /\ \/ wanted[d] \in disk /\ DownloadGoes(d, wanted[d], "reading")
     \/ DownloadGoes(d, wanted[d], "gone")
  /\ UNCHANGED <<store, disk, expired, submit, jobVars, taskVars, sweep, delivered>>

\* fs::read: the file is not there any more, or it cannot be read; both are
\* answered 500, and the batch is kept.
DownloadRead(d) ==
  /\ download[d] = "reading"
  /\ \/ wanted[d] \in disk /\ DownloadGoes(d, wanted[d], "removing")
     \/ DownloadGoes(d, wanted[d], "internal")
  /\ UNCHANGED <<store, disk, expired, submit, jobVars, taskVars, sweep, delivered>>

DownloadRemove(d) ==
  /\ download[d] = "removing"
  /\ Remove(wanted[d])
  /\ DownloadGoes(d, wanted[d], "ok")
  /\ delivered' = [delivered EXCEPT ![wanted[d]] = @ + 1]
  /\ UNCHANGED <<expired, submit, jobVars, taskVars, sweep>>

\* The handler is dropped while remove_batch awaits the deletion of the file,
\* which the blocking pool finishes: the batch is gone and nobody has received it.
DownloadLost(d) ==
  /\ download[d] = "removing"
  /\ Remove(wanted[d])
  /\ DownloadGoes(d, wanted[d], "none")
  /\ UNCHANGED <<expired, submit, jobVars, taskVars, sweep, delivered>>

\* The request timeout or a closed connection drops the handler at an await.
DownloadDropped(d) ==
  /\ download[d] \in DownloadPC
  /\ DownloadGoes(d, wanted[d], "none")
  /\ UNCHANGED <<store, disk, expired, submit, jobVars, taskVars, sweep, delivered>>

-----------------------------------------------------------------------------
(* Time and the hourly cleanup task.                                       *)

Expire(b) ==
  /\ job[b] # "none"
  /\ expired' = expired \cup {b}
  /\ UNCHANGED <<store, disk, submit, jobVars, taskVars, downloadVars, sweep>>

CleanupCollectCompleted ==  \* mutant: failed batches are kept
  /\ sweep = {}
  /\ sweep' = {b \in expired : DownloadUrl(b)}
  /\ UNCHANGED <<store, disk, expired, submit, jobVars, taskVars, downloadVars>>

CleanupCollect ==
  /\ sweep = {}
  /\ sweep' = {b \in expired : Stored(b)}
  /\ UNCHANGED <<store, disk, expired, submit, jobVars, taskVars, downloadVars>>

CleanupRemove(b) ==
  /\ b \in sweep
  /\ Remove(b)
  /\ sweep' = sweep \ {b}
  /\ UNCHANGED <<expired, submit, jobVars, taskVars, downloadVars>>

-----------------------------------------------------------------------------
Next ==
  \/ \E s \in Submitters : SubmitAdmit(s) \/ SubmitReject(s)
  \/ \E s \in Submitters, b \in Batches : SubmitCreate(s, b)
  \/ \E b \in Batches : JobStep(b)
  \/ \E b \in Batches, i \in Items : TaskStep(b, i)
  \/ \E d \in Downloaders, b \in Batches : DownloadStart(d, b)
  \/ \E d \in Downloaders : \/ DownloadCheck(d) \/ DownloadRead(d)
                            \/ DownloadRemove(d) \/ DownloadLost(d)
                            \/ DownloadDropped(d)
  \/ \E b \in Batches : Expire(b) \/ CleanupRemove(b)
  \/ CleanupCollect

Spec == Init /\ [][Next]_vars

\* The runtime polls every ready task, time passes, and the cleanup loop never
\* ends.  Nothing obliges a client to submit or to download.
Fairness ==
  /\ \A b \in Batches : /\ WF_vars(JobStep(b))
                        /\ WF_vars(Expire(b))
                        /\ WF_vars(CleanupRemove(b))
                        /\ \A i \in Items : WF_vars(TaskStep(b, i))
  /\ WF_vars(CleanupCollect)

FairSpec == Spec /\ Fairness
-----------------------------------------------------------------------------
(* Properties.                                                             *)

\* Every variable has its type; in particular no semaphore owes a permit.
TypeOK ==
  /\ store \in [Batches -> BatchState \cup {NoBatch}]
  /\ disk \subseteq Batches
  /\ expired \subseteq Batches
  /\ submit \in [Submitters -> {"idle", "admitted"}]
  /\ job \in [Batches -> JobPC]
  /\ jobCopy \in [Batches -> BatchState \cup {NoBatch}]
  /\ task \in [Batches -> [Items -> TaskPC]]
  /\ taskCopy \in [Batches -> [Items -> BatchState \cup {NoBatch}]]
  /\ permits \in [Batches -> Nat]
  /\ download \in [Downloaders -> DownloadPC \cup Answers]
  /\ wanted \in [Downloaders -> Batches \cup {NoBatch}]
  /\ sweep \subseteq Batches
  /\ delivered \in [Batches -> Nat]

\* A batch that counts against batch_max_active has a live process_batch that
\* will finish it: no interleaving of expiry, panics and late writes leaves a
\* Queued or Processing batch behind that nobody works on.
ActiveHasWorker ==
  \A b \in Batches : Active(b) => job[b] \notin JobEnded \cup {"none"}

\* When the status answer carries a download_url, the output file exists and
\* some item's task has succeeded (the check of process_items and the order of
\* writing and marking, against a removal at any moment).
AdvertisedIsDownloadable ==
  \A b \in Batches :
    DownloadUrl(b) => b \in disk /\ \E i \in Items : task[b][i] = "ok"

\* Whatever copies are written back, in whatever order, no copy of a batch ever
\* shows a Success that the item's own task did not put there.
NoPhantomSuccess ==
  \A b \in Batches, i \in Items :
    \A s \in {store[b], jobCopy[b]} \cup {taskCopy[b][j] : j \in Items} :
      s # NoBatch /\ s.items[i] = "Success" => task[b][i] \in {"recording", "ok"}

\* A delivered batch stays gone: no late update_batch brings it back.
DeliveredIsGone ==
  \A b \in Batches : delivered[b] > 0 => ~Stored(b)

\* Permits are neither lost (a panic) nor invented: tasks that hold one and free
\* ones add up to batch_concurrency once the semaphore exists.
PermitsBalance ==
  \A b \in Batches :
    (\E i \in Items : task[b][i] # "none")
    => permits[b] + Cardinality({i \in Items : task[b][i] \in HoldsPermit})
         = Concurrency

\* With batch_concurrency = 1 the read-modify-write windows of items do not
\* overlap, so a completed batch reports exactly the items that succeeded.
SerialResultsExact ==
  Concurrency = 1 =>
    \A b \in Batches :
      Stored(b) /\ store[b].status = "Completed" =>
        Progress(b).completed = Cardinality({i \in Items : task[b][i] = "ok"})

\* A finished batch is never written again, only removed.
FinishedIsFinal ==
  [][\A b \in Batches :
       Finished(b) => store'[b] \in {store[b], NoBatch}]_vars

\* A download that found the batch completed and then ends without delivering it
\* (410 or 500 because the file is gone or for an I/O error, a timeout, a closed
\* connection) can be tried again: the batch is as advertised and its file is
\* there, unless the batch has been removed, by this download, by another one or
\* by the cleanup.  In particular no file is missing of a batch that is stored.
FailedDownloadLosesNothing ==
  [][\A d \in Downloaders, b \in Batches :
       /\ download[d] \in DownloadPC /\ wanted[d] = b
       /\ download'[d] \in Answers \ {"ok"}
       => (Stored(b) => DownloadUrl(b) /\ b \in disk)']_vars

\* Every accepted batch is worked off and gives its slot back for good.
EveryBatchSettles ==
  \A b \in Batches :
    job[b] # "none" ~> [](job[b] \in JobEnded /\ ~Active(b))

\* Every batch leaves the memory of the server for good, downloaded or not.
EventuallyReclaimed == \A b \in Batches : <>[]~Stored(b)

\* config.rs: "Maximum concurrent batches server-wide".
WithinMaxActive == ActiveCount <= MaxActive

\* batch.rs: "one-time download".
OneTimeDownload == \A b \in Batches : delivered[b] <= 1

\* batch_types.rs, BatchResultsSummary: "Number of successful items".
ResultsExact ==
  \A b \in Batches :
    Stored(b) /\ store[b].status = "Completed" =>
      Progress(b).completed = Cardinality({i \in Items : task[b][i] = "ok"})

-----------------------------------------------------------------------------
(* The service implements the life cycle that BatchLifecycle promises.     *)

VisibleStatus(b) == IF Stored(b) THEN store[b].status ELSE "Unknown"
WorkerState(b) == CASE job[b] = "none" -> "none"
                    [] job[b] \in JobEnded -> "ended"
                    [] OTHER -> "running"

Lifecycle == INSTANCE BatchLifecycle WITH
  visible <- [b \in Batches |-> VisibleStatus(b)],
  worker <- [b \in Batches |-> WorkerState(b)]

\* Seen by clients (status answers and downloads), the service is a
\* BatchLifecycle.
ImplementsLifecycle == Lifecycle!Spec
=============================================================================
