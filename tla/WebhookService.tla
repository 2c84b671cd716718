--------------------------- MODULE WebhookService ---------------------------
(***************************************************************************)
(* The asynchronous mode of the conversion routes: handlers that put a job *)
(* on the bounded channel of webhook/queue.rs, the workers that share its  *)
(* receiver behind a mutex, the reports webhook/mod.rs delivers to the     *)
(* client's endpoint, and the end of the process.                          *)
(*                                                                         *)
(* A step is what a task does between two awaits.  A handler is named by   *)
(* the job it would spawn: ids are fresh ULIDs.                            *)
(***************************************************************************)
EXTENDS Integers, Sequences, FiniteSets

CONSTANTS
  Jobs,         \* the ids spawn_job may draw
  ErrorUrls,    \* the jobs whose request named an error URL
  Workers,      \* the tasks of start_workers
  QueueCap,     \* the capacity of the channel
  MaxAttempts,  \* webhook_max_retry
  NoJob,        \* no job at hand
  Nobody        \* the receiver's mutex is free

ASSUME JobsAssumption == NoJob \notin Jobs /\ ErrorUrls \subseteq Jobs
ASSUME WorkersAssumption == IsFiniteSet(Workers) /\ Workers # {} /\ Nobody \notin Workers
ASSUME QueueCapAssumption == QueueCap \in Nat \ {0}
\* ServerConfig refuses webhook_max_retry = 0.
ASSUME MaxAttemptsAssumption == MaxAttempts \in Nat \ {0}

VARIABLES
  handler,   \* where the handler of each job's request stands, or how it ended
  queue,     \* the channel
  receiver,  \* the worker that holds the mutex around the channel's receiver
  worker,    \* where each worker stands
  job,       \* the job each worker has, or had when it died
  attempt,   \* the attempt of deliver() each worker is at
  status,    \* what execute_job returned to each worker
  ended,     \* how process_webhook_job ended, per job
  sent,      \* reports that were put on the wire
  received,  \* reports that reached the client's endpoint
  server     \* "serving", "draining" after the signal, "exited"

workerVars == <<worker, job, attempt, status>>
wireVars == <<sent, received>>
vars == <<handler, queue, receiver, workerVars, ended, wireVars, server>>

HandlerPC == {"none", "sending", "accepted", "refused", "dropped"}
WorkerPC == {"locking", "receiving", "executing", "posting", "awaiting", "sleeping", "dead"}
Status == {"success", "error"}

-----------------------------------------------------------------------------
Running == server # "exited"
AllDead == \A w \in Workers : worker[w] = "dead"

\* The error URL, if there is one, for errors; webhook_url for the rest.
Url(j, s) == IF s = "error" /\ j \in ErrorUrls THEN "error_url" ELSE "webhook_url"

Report(j, n, s) == [job |-> j, attempt |-> n, status |-> s, url |-> Url(j, s)]
ThisReport(w) == Report(job[w], attempt[w], status[w])

Init ==
  /\ handler = [j \in Jobs |-> "none"]
  /\ queue = <<>>
  /\ receiver = Nobody
  /\ worker = [w \in Workers |-> "locking"]
  /\ job = [w \in Workers |-> NoJob]
  /\ attempt = [w \in Workers |-> 0]
  /\ status = [w \in Workers |-> "none"]
  /\ ended = [j \in Jobs |-> "no"]
  /\ sent = {}
  /\ received = {}
  /\ server = "serving"

-----------------------------------------------------------------------------
(* Handlers: maybe_spawn_webhook and spawn_job.                            *)

HandlerMoves(j, from, to) ==
  /\ Running
  /\ handler[j] = from
  /\ handler' = [handler EXCEPT ![j] = to]
  /\ UNCHANGED <<receiver, workerVars, ended, wireVars, server>>

\* The configuration is valid and asks for the asynchronous mode.
SpawnJob(j) ==
  /\ server = "serving"
  /\ HandlerMoves(j, "none", "sending")
  /\ UNCHANGED queue

SendUnbounded(j) ==  \* mutant: an unbounded channel
  HandlerMoves(j, "sending", "accepted") /\ queue' = Append(queue, j)
\* send() gets a slot; from there to the 202 the handler does not await.
SendCompletes(j) ==
  /\ HandlerMoves(j, "sending", "accepted")
  /\ ~AllDead
  /\ Len(queue) < QueueCap
  /\ queue' = Append(queue, j)

\* The last worker took the receiver with it: the channel is closed.
SendFails(j) ==
  /\ HandlerMoves(j, "sending", "refused")
  /\ AllDead
  /\ UNCHANGED queue

\* The request's timeout, or a client that went away, while send() waits.
HandlerDropped(j) == HandlerMoves(j, "sending", "dropped") /\ UNCHANGED queue

-----------------------------------------------------------------------------
(* The loop of a worker, process_webhook_job and deliver().                *)

WorkerMoves(w, from, to) ==
  /\ Running
  /\ worker[w] = from
  /\ worker' = [worker EXCEPT ![w] = to]
  /\ UNCHANGED <<handler, server>>

LockReceiver(w) ==
  /\ receiver = Nobody
  /\ WorkerMoves(w, "locking", "receiving")
  /\ receiver' = w
  /\ UNCHANGED <<queue, job, attempt, status, ended, wireVars>>

ReceiveKeepsLock(w) ==  \* mutant: the guard outlives the block
  /\ queue # <<>>
  /\ WorkerMoves(w, "receiving", "executing")
  /\ job' = [job EXCEPT ![w] = Head(queue)]
  /\ queue' = Tail(queue)
  /\ UNCHANGED <<receiver, attempt, status, ended, wireVars>>
ReceivePeeks(w) ==  \* mutant: the job is read, and stays in the channel
  /\ queue # <<>>
  /\ WorkerMoves(w, "receiving", "executing")
  /\ job' = [job EXCEPT ![w] = Head(queue)]
  /\ receiver' = Nobody
  /\ UNCHANGED <<queue, attempt, status, ended, wireVars>>
\* recv() yields a job and the guard is dropped at the end of its block.  The
\* other arm, a closed channel, is never taken: the task of the console sampler
\* keeps a clone of the state, and with it a sender, until the process exits.
Receive(w) ==
  /\ queue # <<>>
  /\ WorkerMoves(w, "receiving", "executing")
  /\ job' = [job EXCEPT ![w] = Head(queue)]
  /\ queue' = Tail(queue)
  /\ receiver' = Nobody
  /\ UNCHANGED <<attempt, status, ended, wireVars>>

\* execute_job returns, a conversion at an engine that was shut down with an error.
Execute(w) ==
  /\ WorkerMoves(w, "executing", "posting")
  /\ \E s \in Status : status' = [status EXCEPT ![w] = s]
  /\ attempt' = [attempt EXCEPT ![w] = 1]
  /\ UNCHANGED <<queue, receiver, job, ended, wireVars>>

\* A panic outside spawn_blocking (the expect() of spawn_idle_watcher, say) ends the
\* task, and nobody starts another.  The last one drops the receiver, and with it
\* the jobs that wait.
WorkerPanics(w) ==
  /\ WorkerMoves(w, "executing", "dead")
  /\ queue' = IF \A v \in Workers \ {w} : worker[v] = "dead" THEN <<>> ELSE queue
  /\ UNCHANGED <<receiver, job, attempt, status, ended, wireVars>>

\* try_deliver sends the request.
Post(w) ==
  /\ WorkerMoves(w, "posting", "awaiting")
  /\ sent' = sent \cup {ThisReport(w)}
  /\ UNCHANGED <<queue, receiver, job, attempt, status, ended, received>>

\* The next job of the worker starts with fresh locals.
JobEnds(w, how) ==
  /\ ended' = [ended EXCEPT ![job[w]] = how]
  /\ job' = [job EXCEPT ![w] = NoJob]
  /\ attempt' = [attempt EXCEPT ![w] = 0]
  /\ status' = [status EXCEPT ![w] = "none"]

\* A status 2xx came back.
PostAnswered(w) ==
  /\ ThisReport(w) \in received
  /\ WorkerMoves(w, "awaiting", "locking")
  /\ JobEnds(w, "delivered")
  /\ UNCHANGED <<queue, receiver, wireVars>>

\* Another status, a broken connection or the client's timeout, whether or not the
\* report has arrived, or will: wait for the backoff.
PostFails(w) ==
  /\ attempt[w] < MaxAttempts
  /\ WorkerMoves(w, "awaiting", "sleeping")
  /\ UNCHANGED <<queue, receiver, job, attempt, status, ended, wireVars>>

\* The same at the last attempt: there is no wait, and no further attempt.
GiveUpEarly(w) ==  \* mutant: one attempt too few
  /\ attempt[w] + 1 >= MaxAttempts
  /\ WorkerMoves(w, "awaiting", "locking")
  /\ JobEnds(w, "failed")
  /\ UNCHANGED <<queue, receiver, wireVars>>
GiveUp(w) ==
  /\ attempt[w] = MaxAttempts
  /\ WorkerMoves(w, "awaiting", "locking")
  /\ JobEnds(w, "failed")
  /\ UNCHANGED <<queue, receiver, wireVars>>

Retry(w) ==
  /\ WorkerMoves(w, "sleeping", "posting")
  /\ attempt' = [attempt EXCEPT ![w] = @ + 1]
  /\ UNCHANGED <<queue, receiver, job, status, ended, wireVars>>

-----------------------------------------------------------------------------
(* The wire and the process.                                               *)

\* A report reaches the endpoint, in any order, late, or never.
ReportArrives(r) ==
  /\ received' = received \cup {r}
  /\ UNCHANGED <<handler, queue, receiver, workerVars, ended, sent, server>>

Signal ==
  /\ server = "serving"
  /\ server' = "draining"
  /\ UNCHANGED <<handler, queue, receiver, workerVars, ended, wireVars>>

\* Connections are drained, engines closed and main returns: the runtime drops
\* the workers wherever they are, and the channel.
Exit ==
  /\ server = "draining"
  /\ \A j \in Jobs : handler[j] # "sending"
  /\ server' = "exited"
  /\ UNCHANGED <<handler, queue, receiver, workerVars, ended, wireVars>>

HandlerStep(j) == SendCompletes(j) \/ SendFails(j) \/ HandlerDropped(j)
WorkerStep(w) ==
  \/ LockReceiver(w) \/ Receive(w) \/ Execute(w) \/ Post(w)
  \/ PostAnswered(w) \/ PostFails(w) \/ GiveUp(w) \/ Retry(w)

Next ==
  \/ \E j \in Jobs : SpawnJob(j) \/ HandlerStep(j)
  \/ \E w \in Workers : WorkerStep(w) \/ WorkerPanics(w)
  \/ \E r \in sent \ received : ReportArrives(r)
  \/ Signal
  \/ Exit

\* Tasks that are ready are polled, timers fire and every attempt ends with the
\* client's timeout.  An execute_job need not end (optimise_pdf waits for its tool
\* without a timeout), no report need arrive, and nobody need send the signal.
Fairness ==
  /\ \A j \in Jobs : WF_vars(HandlerStep(j))
  /\ \A w \in Workers : WF_vars(WorkerStep(w) /\ worker[w] # "executing")
  /\ WF_vars(Exit)

Spec == Init /\ [][Next]_vars /\ Fairness

-----------------------------------------------------------------------------
(* Properties.                                                             *)

TypeOK ==
  /\ handler \in [Jobs -> HandlerPC]
  /\ queue \in Seq(Jobs) /\ Len(queue) <= QueueCap
  /\ receiver \in Workers \cup {Nobody}
  /\ worker \in [Workers -> WorkerPC]
  /\ job \in [Workers -> Jobs \cup {NoJob}]
  /\ attempt \in [Workers -> 0 .. MaxAttempts]
  /\ status \in [Workers -> Status \cup {"none"}]
  /\ ended \in [Jobs -> {"no", "delivered", "failed"}]
  /\ sent \subseteq {Report(j, n, s) : j \in Jobs, n \in 1 .. MaxAttempts, s \in Status}
  /\ received \subseteq sent
  /\ server \in {"serving", "draining", "exited"}

Waits(j) == \E i \in DOMAIN queue : queue[i] = j
AtWork(j) == \E w \in Workers : job[w] = j /\ worker[w] # "dead"
DiedWith(j) == \E w \in Workers : job[w] = j /\ worker[w] = "dead"

\* Where a job is: in the channel, at a worker, or over.
Places(j) ==
  ({"queue"} \X {i \in DOMAIN queue : queue[i] = j})
    \cup ({"worker"} \X {w \in Workers : job[w] = j})
    \cup {<<"ended", x>> : x \in {ended[j]} \ {"no"}}

\* A job answered with 202 is in exactly one place, as long as a worker is left to
\* hold the channel open; a job whose request was not accepted is nowhere.
JobsConserved ==
  \A j \in Jobs :
    /\ Cardinality(Places(j)) <= 1
    /\ Places(j) # {} => handler[j] = "accepted"
    /\ handler[j] = "accepted" /\ Places(j) = {} => AllDead

\* A client is never told both that a job succeeded and that it failed, at
\* whatever URL and however late a report arrives.
OneVerdict == \A q, r \in received : q.job = r.job => q.status = r.status

\* As long as conversions end, the 202 is followed by a verdict of deliver() unless
\* a panic or the end of the process takes the job: no accepted job waits for ever.
EveryJobSettles ==
  (\A w \in Workers : []<>(worker[w] # "executing")) =>
    \A j \in Jobs :
      handler[j] = "accepted" ~>
        (ended[j] # "no" \/ DiedWith(j) \/ AllDead \/ server = "exited")

\* The states of a job as a client may think of them.
Phase(j) ==
  IF handler[j] # "accepted" THEN "none"
  ELSE IF ended[j] = "delivered" THEN "delivered"
  ELSE IF ended[j] = "failed" THEN "abandoned"
  ELSE IF \E w \in Workers : job[w] = j /\ worker[w] \in {"posting", "awaiting", "sleeping"}
       THEN "reporting"
  ELSE IF Waits(j) \/ AtWork(j) THEN "accepted"
  ELSE "lost"

Promise == INSTANCE WebhookPromise WITH
  phase <- [j \in Jobs |-> Phase(j)],
  up <- Running

\* The service keeps the promise of its 202: at most MaxAttempts reports, none after
\* one was acknowledged, all alike, and giving up only after the last.
ImplementsPromise == Promise!Spec
=============================================================================
