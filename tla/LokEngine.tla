------------------------------ MODULE LokEngine ------------------------------
(***************************************************************************)
(* LibreOfficeEngine (engine/src/libreoffice/mod.rs): async callers of      *)
(* convert(), the dedicated LibreOfficeKit worker thread behind a bounded   *)
(* queue, the single-flight lazy start, shutdown(), and the idle watcher    *)
(* that ends the process.                                                   *)
(*                                                                          *)
(* A step is what one caller or thread does up to and including one access  *)
(* to the shared Inner.  Conversions cannot be cancelled: a caller that     *)
(* gives up leaves its request in the queue or in the worker's hands.       *)
(***************************************************************************)
EXTENDS Integers, Sequences, FiniteSets

CONSTANTS
  Callers,    \* tasks that call convert(), one conversion at a time each
  Workers,    \* the threads the process can have for workers at one time
  QueueCap,   \* capacity of the sync_channel (64)
  LazyModes,  \* the values of config.lazy_start that are looked at
  NoWorker,   \* None, for a sender or a join handle
  NoCaller,   \* nobody
  Abandoned   \* a request whose caller has stopped waiting

ASSUME QueueCapAssumption == QueueCap \in Nat \ {0}
ASSUME LazyAssumption == LazyModes \subseteq BOOLEAN
ASSUME WorkersAssumption == Workers # {} /\ NoWorker \notin Workers
ASSUME CallersAssumption ==
  NoCaller \notin Callers /\ Abandoned \notin Callers /\ NoCaller # Abandoned

Requests == Callers \cup {Abandoned}

VARIABLES
  lazy,      \* Inner.lazy_start
  tx,        \* Inner.tx: the worker whose queue it feeds
  handle,    \* Inner.worker_handle
  healthy,   \* Inner.healthy
  initLock,  \* the holder of Inner.init_lock
  office,    \* an Office has been opened in this process
  activity,  \* Inner.last_activity: "fresh" (or None), or "old": idle_timeout ago
  caller,    \* where each convert() stands
  started,   \* the worker an initialising caller has spawned
  worker,    \* where each worker thread stands
  queue,     \* the requests in the channel of each worker
  current,   \* the request each worker is at work on
  watcher,   \* where the idle watcher stands; "exited" after _exit(0)
  closing,   \* where shutdown() stands
  joining    \* the sender and the handle that shutdown() has taken

coreVars == <<lazy, tx, handle, healthy, initLock, office, activity>>
callerVars == <<caller, started>>
workerVars == <<worker, queue, current>>
closingVars == <<closing, joining>>
vars == <<coreVars, callerVars, workerVars, watcher, closingVars>>

CallerPC == {"idle", "locking", "starting", "committing", "checking", "sending",
             "waiting", "marking"}
WorkerPC == {"none", "opening", "announcing", "ready", "converting", "replying",
             "leaving", "exited", "failed", "panicked"}
WorkerGone == {"exited", "failed", "panicked"}
ClosingPC == {"none", "takingTx", "takingHandle", "joining", "dropped"}

-----------------------------------------------------------------------------
\* Where senders of a worker's queue live: in Inner, with the caller that is
\* starting the worker, and in shutdown(), whose _dropped_tx lives until the
\* function returns.
HasSender(w) ==
  \/ tx = w
  \/ \E c \in Callers : caller[c] = "starting" /\ started[c] = w
  \/ closing \in {"takingHandle", "joining"} /\ joining.tx = w

\* A thread can be spawned: ended threads make room.  (At most one worker opens
\* the Office; if it panics, its place is kept to remember that.)
Spawnable(w) ==
  \/ worker[w] = "none"
  \/ /\ worker[w] \in {"exited", "failed"}
     /\ w \notin {tx, handle, joining.tx, joining.handle}
     /\ \A c \in Callers : started[c] # w

\* Who waits, or no longer waits, for a request.
ReplaceBy(s, c, r) == [i \in DOMAIN s |-> IF s[i] = c THEN r ELSE s[i]]
Forget(c) ==
  /\ queue' = [w \in Workers |-> ReplaceBy(queue[w], c, Abandoned)]
  /\ current' = [w \in Workers |-> IF current[w] = c THEN Abandoned ELSE current[w]]

CallerGoes(c, pc) == caller' = [caller EXCEPT ![c] = pc]
WorkerGoes(w, pc) == worker' = [worker EXCEPT ![w] = pc]

\* launch(): an eager engine exists only once its worker has started.
Init ==
  /\ lazy \in LazyModes
  /\ \E w \in Workers :
       /\ tx = IF lazy THEN NoWorker ELSE w
       /\ handle = tx
       /\ worker = [v \in Workers |-> IF v = tx THEN "ready" ELSE "none"]
  /\ healthy = ~lazy
  /\ office = ~lazy
  /\ initLock = NoCaller
  /\ activity = "fresh"
  /\ caller = [c \in Callers |-> "idle"]
  /\ started = [c \in Callers |-> NoWorker]
  /\ queue = [w \in Workers |-> <<>>]
  /\ current = [w \in Workers |-> NoCaller]
  /\ watcher = "sleeping"
  /\ closing = "none"
  /\ joining = [tx |-> NoWorker, handle |-> NoWorker]

-----------------------------------------------------------------------------
(* convert() and init_worker().                                            *)

\* The arguments are fine; a lazy engine without a sender is started first.
ConvertStart(c) ==
  /\ caller[c] = "idle"
  /\ closing # "dropped"
  /\ CallerGoes(c, IF lazy /\ tx = NoWorker THEN "locking" ELSE "checking")
  /\ UNCHANGED <<coreVars, started, workerVars, watcher, closingVars>>

InitUnchecked(c) ==  \* mutant: no second look at tx under the lock
  /\ caller[c] = "locking" /\ initLock = NoCaller
  /\ initLock' = c
  /\ \E w \in Workers :
       /\ Spawnable(w)
       /\ WorkerGoes(w, "opening")
       /\ started' = [started EXCEPT ![c] = w]
  /\ CallerGoes(c, "starting")
  /\ UNCHANGED <<lazy, tx, handle, healthy, office, activity, queue, current,
                 watcher, closingVars>>

\* Under init_lock: somebody else has started the worker meanwhile.
InitFound(c) ==
  /\ caller[c] = "locking" /\ initLock = NoCaller
  /\ tx # NoWorker
  /\ CallerGoes(c, "checking")
  /\ UNCHANGED <<coreVars, started, workerVars, watcher, closingVars>>

InitSpawn(c) ==
  /\ caller[c] = "locking" /\ initLock = NoCaller
  /\ tx = NoWorker
  /\ initLock' = c
  /\ \E w \in Workers :
       /\ Spawnable(w)
       /\ WorkerGoes(w, "opening")
       /\ started' = [started EXCEPT ![c] = w]
  /\ CallerGoes(c, "starting")
  /\ UNCHANGED <<lazy, tx, handle, healthy, office, activity, queue, current,
                 watcher, closingVars>>

\* Builder::spawn fails: the process has no thread to spare.
InitSpawnFails(c) ==
  /\ caller[c] = "locking" /\ initLock = NoCaller
  /\ tx = NoWorker
  /\ \A w \in Workers : ~Spawnable(w)
  /\ CallerGoes(c, "idle")
  /\ UNCHANGED <<coreVars, started, workerVars, watcher, closingVars>>

\* The startup ack has come: commit the sender, then the handle.
InitCommitTx(c) ==
  /\ caller[c] = "starting"
  /\ worker[started[c]] = "ready"
  /\ tx' = started[c]
  /\ CallerGoes(c, "committing")
  /\ UNCHANGED <<lazy, handle, healthy, initLock, office, activity, started,
                 workerVars, watcher, closingVars>>

InitCommitHandle(c) ==
  /\ caller[c] = "committing"
  /\ handle' = started[c]
  /\ initLock' = NoCaller
  /\ started' = [started EXCEPT ![c] = NoWorker]
  /\ CallerGoes(c, "checking")
  /\ UNCHANGED <<lazy, tx, healthy, office, activity, workerVars, watcher,
                 closingVars>>

\* Office::new failed, 120 s have passed, or the caller's future is dropped: the
\* local sender and handle go, the thread runs on.
InitGivesUp(c) ==
  /\ caller[c] = "starting"
  /\ initLock' = NoCaller
  /\ started' = [started EXCEPT ![c] = NoWorker]
  /\ CallerGoes(c, "idle")
  /\ UNCHANGED <<lazy, tx, handle, healthy, office, activity, workerVars, watcher,
                 closingVars>>

\* Fail fast: the worker is known to be wedged or gone.
CheckHealthy(c) ==
  /\ caller[c] = "checking"
  /\ CallerGoes(c, IF healthy THEN "sending" ELSE "idle")
  /\ UNCHANGED <<coreVars, started, workerVars, watcher, closingVars>>

SendUnbounded(c) ==  \* mutant: an unbounded channel
  /\ caller[c] = "sending" /\ tx # NoWorker
  /\ CallerGoes(c, "waiting")
  /\ queue' = [queue EXCEPT ![tx] = Append(@, c)]
  /\ UNCHANGED <<coreVars, started, worker, current, watcher, closingVars>>

\* try_send under the lock of tx: shut down, disconnected, full, or queued.
SendRequest(c) ==
  /\ caller[c] = "sending"
  /\ \/ /\ tx = NoWorker
        /\ CallerGoes(c, "idle")
        /\ UNCHANGED queue
     \/ /\ tx # NoWorker /\ worker[tx] \in WorkerGone
        /\ CallerGoes(c, "marking")
        /\ UNCHANGED queue
     \/ /\ tx # NoWorker /\ worker[tx] \notin WorkerGone
        /\ Len(queue[tx]) = QueueCap
        /\ CallerGoes(c, "idle")
        /\ UNCHANGED queue
     \/ /\ tx # NoWorker /\ worker[tx] \notin WorkerGone
        /\ Len(queue[tx]) < QueueCap
        /\ CallerGoes(c, "waiting")
        /\ queue' = [queue EXCEPT ![tx] = Append(@, c)]
  /\ UNCHANGED <<coreVars, started, worker, current, watcher, closingVars>>

\* The conversion's timeout; the store to healthy is a step of its own.
ReplyTimesOutNever(c) ==  \* mutant: the reply is awaited without a timeout
  FALSE /\ UNCHANGED vars
ReplyTimesOut(c) ==
  /\ caller[c] = "waiting"
  /\ Forget(c)
  /\ CallerGoes(c, "marking")
  /\ UNCHANGED <<coreVars, started, worker, watcher, closingVars>>

MarkUnhealthy(c) ==
  /\ caller[c] = "marking"
  /\ healthy' = FALSE
  /\ CallerGoes(c, "idle")
  /\ UNCHANGED <<lazy, tx, handle, initLock, office, activity, started, workerVars,
                 watcher, closingVars>>

\* The future of convert() is dropped at one of its other awaits.
ConvertDropped(c) ==
  /\ caller[c] \in {"locking", "waiting"}
  /\ Forget(c)
  /\ CallerGoes(c, "idle")
  /\ UNCHANGED <<coreVars, started, worker, watcher, closingVars>>

CallerStep(c) ==
  \/ InitFound(c) \/ InitSpawn(c) \/ InitSpawnFails(c)
  \/ InitCommitTx(c) \/ InitCommitHandle(c) \/ InitGivesUp(c)
  \/ CheckHealthy(c) \/ SendRequest(c)
  \/ ReplyTimesOut(c) \/ MarkUnhealthy(c)

-----------------------------------------------------------------------------
(* lok_worker_thread.                                                      *)

\* Office::new (external): a process opens an Office once, and it may fail.
WorkerOpens(w) ==
  /\ worker[w] = "opening"
  /\ \/ /\ ~office
        /\ office' = TRUE
        /\ healthy' = TRUE
        /\ WorkerGoes(w, "announcing")
     \/ /\ WorkerGoes(w, "failed")
        /\ UNCHANGED <<office, healthy>>
  /\ UNCHANGED <<lazy, tx, handle, initLock, activity, callerVars, queue, current,
                 watcher, closingVars>>

\* The startup ack; nobody may be left to receive it.
WorkerAnnounces(w) ==
  /\ worker[w] = "announcing"
  /\ WorkerGoes(w, "ready")
  /\ UNCHANGED <<coreVars, callerVars, queue, current, watcher, closingVars>>

WorkerTakes(w) ==
  /\ worker[w] = "ready"
  /\ queue[w] # <<>>
  /\ current' = [current EXCEPT ![w] = Head(queue[w])]
  /\ queue' = [queue EXCEPT ![w] = Tail(@)]
  /\ WorkerGoes(w, "converting")
  /\ UNCHANGED <<coreVars, callerVars, watcher, closingVars>>

\* lok_convert returns, with a document or an error: stamp the activity.
WorkerConverts(w) ==
  /\ worker[w] = "converting"
  /\ activity' = "fresh"
  /\ WorkerGoes(w, "replying")
  /\ UNCHANGED <<lazy, tx, handle, healthy, initLock, office, callerVars, queue,
                 current, watcher, closingVars>>

WorkerRepliesHealthy(w) ==  \* mutant: an answer clears the unhealthy flag
  /\ worker[w] = "replying"
  /\ healthy' = TRUE
  /\ caller' = [c \in Callers |-> IF c = current[w] THEN "idle" ELSE caller[c]]
  /\ current' = [current EXCEPT ![w] = NoCaller]
  /\ WorkerGoes(w, "ready")
  /\ UNCHANGED <<lazy, tx, handle, initLock, office, activity, started, queue,
                 watcher, closingVars>>

\* With the answer convert() returns.
WorkerReplies(w) ==
  /\ worker[w] = "replying"
  /\ caller' = [c \in Callers |-> IF c = current[w] THEN "idle" ELSE caller[c]]
  /\ current' = [current EXCEPT ![w] = NoCaller]
  /\ WorkerGoes(w, "ready")
  /\ UNCHANGED <<coreVars, started, queue, watcher, closingVars>>

\* lok_convert panics: unwinding drops the request and the receiver with all that
\* is queued, but does not clear the healthy flag; its callers will.
WorkerPanics(w) ==
  /\ worker[w] = "converting"
  /\ caller' = [c \in Callers |->
                  IF c = current[w] \/ \E i \in DOMAIN queue[w] : queue[w][i] = c
                  THEN "marking" ELSE caller[c]]
  /\ current' = [current EXCEPT ![w] = NoCaller]
  /\ queue' = [queue EXCEPT ![w] = <<>>]
  /\ WorkerGoes(w, "panicked")
  /\ UNCHANGED <<coreVars, started, watcher, closingVars>>

WorkerLeavesUndrained(w) ==  \* mutant: the queue is not drained
  /\ worker[w] = "ready"
  /\ ~HasSender(w)
  /\ WorkerGoes(w, "leaving")
  /\ UNCHANGED <<coreVars, callerVars, queue, current, watcher, closingVars>>

WorkerLeavesUnhealthy(w) ==  \* mutant: only an unhealthy engine's loop ends
  /\ worker[w] = "ready"
  /\ ~healthy /\ queue[w] = <<>> /\ ~HasSender(w)
  /\ WorkerGoes(w, "leaving")
  /\ UNCHANGED <<coreVars, callerVars, queue, current, watcher, closingVars>>

\* `for req in rx` ends: the channel is drained and has no sender.
WorkerLeaves(w) ==
  /\ worker[w] = "ready"
  /\ queue[w] = <<>>
  /\ ~HasSender(w)
  /\ WorkerGoes(w, "leaving")
  /\ UNCHANGED <<coreVars, callerVars, queue, current, watcher, closingVars>>

WorkerExitsHealthy(w) ==  \* mutant: the flag is left set
  /\ worker[w] = "leaving"
  /\ WorkerGoes(w, "exited")
  /\ UNCHANGED <<coreVars, callerVars, queue, current, watcher, closingVars>>

WorkerExits(w) ==
  /\ worker[w] = "leaving"
  /\ healthy' = FALSE
  /\ WorkerGoes(w, "exited")
  /\ UNCHANGED <<lazy, tx, handle, initLock, office, activity, callerVars, queue,
                 current, watcher, closingVars>>

\* What the worker does of its own accord: a conversion may never return.
WorkerStep(w) ==
  \/ WorkerOpens(w) \/ WorkerAnnounces(w) \/ WorkerTakes(w)
  \/ WorkerReplies(w) \/ WorkerLeaves(w) \/ WorkerExits(w)

-----------------------------------------------------------------------------
(* shutdown() and Drop.                                                    *)

ShutdownBegin ==
  /\ closing = "none"
  /\ healthy' = FALSE
  /\ closing' = "takingTx"
  /\ UNCHANGED <<lazy, tx, handle, initLock, office, activity, callerVars,
                 workerVars, watcher, joining>>

ShutdownTakesTx ==
  /\ closing = "takingTx"
  /\ joining' = [joining EXCEPT !.tx = tx]
  /\ tx' = NoWorker
  /\ closing' = "takingHandle"
  /\ UNCHANGED <<lazy, handle, healthy, initLock, office, activity, callerVars,
                 workerVars, watcher>>

ShutdownEnds ==
  /\ closing' = "none"
  /\ joining' = [tx |-> NoWorker, handle |-> NoWorker]

\* Without a handle there is nothing to wait for.
ShutdownTakesHandle ==
  /\ closing = "takingHandle"
  /\ handle' = NoWorker
  /\ IF handle = NoWorker
     THEN ShutdownEnds
     ELSE /\ joining' = [joining EXCEPT !.handle = handle]
          /\ closing' = "joining"
  /\ UNCHANGED <<lazy, tx, healthy, initLock, office, activity, callerVars,
                 workerVars, watcher>>

ShutdownJoined ==
  /\ closing = "joining"
  /\ worker[joining.handle] \in WorkerGone
  /\ ShutdownEnds
  /\ UNCHANGED <<coreVars, callerVars, workerVars, watcher>>

\* 5 s are long for everything but a conversion and a worker that waits for a
\* request while its queue has a sender.
OutlastsJoin(w) ==
  \/ worker[w] = "converting"
  \/ worker[w] = "ready" /\ queue[w] = <<>> /\ HasSender(w)

ShutdownGivesUpNever ==  \* mutant: the join has no deadline
  FALSE /\ UNCHANGED vars
ShutdownGivesUp ==
  /\ closing = "joining"
  /\ OutlastsJoin(joining.handle)
  /\ ShutdownEnds
  /\ UNCHANGED <<coreVars, callerVars, workerVars, watcher>>

ShutdownStep ==
  ShutdownTakesTx \/ ShutdownTakesHandle \/ ShutdownJoined \/ ShutdownGivesUp

\* The last clone is dropped: no caller is left.
EngineDropped ==
  /\ closing = "none"
  /\ \A c \in Callers : caller[c] = "idle"
  /\ closing' = "dropped"
  /\ tx' = NoWorker
  /\ handle' = NoWorker
  /\ UNCHANGED <<lazy, healthy, initLock, office, activity, callerVars, workerVars,
                 watcher, joining>>

-----------------------------------------------------------------------------
(* The idle watcher.                                                       *)

\* idle_timeout goes by after the stamp.
TimePasses ==
  /\ activity = "fresh"
  /\ activity' = "old"
  /\ UNCHANGED <<lazy, tx, handle, healthy, initLock, office, callerVars, workerVars,
                 watcher, closingVars>>

\* The two loads that follow each other: healthy, then a snapshot of last_activity
\* for should_exit_for_idle.
WatcherLooks ==
  /\ watcher = "sleeping"
  /\ healthy /\ activity = "old"
  /\ watcher' = "firing"
  /\ UNCHANGED <<coreVars, callerVars, workerVars, closingVars>>

WatcherExits ==
  /\ watcher = "firing"
  /\ watcher' = "exited"
  /\ UNCHANGED <<coreVars, callerVars, workerVars, closingVars>>

-----------------------------------------------------------------------------
\* Nothing runs after _exit(0).
Alive == watcher # "exited"

Next ==
  /\ Alive
  /\ \/ \E c \in Callers : ConvertStart(c) \/ CallerStep(c) \/ ConvertDropped(c)
     \/ \E w \in Workers : WorkerStep(w) \/ WorkerConverts(w) \/ WorkerPanics(w)
     \/ ShutdownBegin \/ ShutdownStep \/ EngineDropped
     \/ TimePasses \/ WatcherLooks \/ WatcherExits

Spec == Init /\ [][Next]_vars

\* Callers and threads that can go on do so and timers fire; tokio's mutex serves
\* its waiters in turn; 5 s go by whether or not a conversion runs all the time.
\* No conversion has to return.
Fairness ==
  /\ \A c \in Callers :
       /\ WF_vars(Alive /\ CallerStep(c))
       /\ SF_vars(Alive /\ (InitFound(c) \/ InitSpawn(c) \/ InitSpawnFails(c)))
  /\ \A w \in Workers : WF_vars(Alive /\ WorkerStep(w))
  /\ WF_vars(Alive /\ ShutdownStep)
  /\ SF_vars(Alive /\ ShutdownGivesUp)

FairSpec == Spec /\ Fairness

-----------------------------------------------------------------------------
(* Properties.                                                             *)

\* Every variable has its type, and no channel holds more than its capacity.
TypeOK ==
  /\ lazy \in BOOLEAN /\ healthy \in BOOLEAN /\ office \in BOOLEAN
  /\ tx \in Workers \cup {NoWorker}
  /\ handle \in Workers \cup {NoWorker}
  /\ initLock \in Callers \cup {NoCaller}
  /\ activity \in {"fresh", "old"}
  /\ caller \in [Callers -> CallerPC]
  /\ started \in [Callers -> Workers \cup {NoWorker}]
  /\ worker \in [Workers -> WorkerPC]
  /\ queue \in [Workers -> Seq(Requests)]
  /\ \A w \in Workers : Len(queue[w]) <= QueueCap
  /\ current \in [Workers -> Requests \cup {NoCaller}]
  /\ watcher \in {"sleeping", "firing", "exited"}
  /\ closing \in ClosingPC
  /\ joining \in [tx : Workers \cup {NoWorker}, handle : Workers \cup {NoWorker}]

\* Where the request of a caller is: at a position of a channel, or (0) in the
\* hands of a worker.
Places(c) ==
  {p \in Workers \X (0 .. QueueCap) :
     IF p[2] = 0 THEN current[p[1]] = c
     ELSE p[2] \in DOMAIN queue[p[1]] /\ queue[p[1]][p[2]] = c}

\* A caller that waits is not forgotten: its request is in exactly one place, and
\* the worker there is alive, whatever shutdown(), panics and other callers do.
NoStrandedCaller ==
  \A c \in Callers :
    caller[c] = "waiting" =>
      /\ Cardinality(Places(c)) = 1
      /\ \A p \in Places(c) : worker[p[1]] \notin WorkerGone \cup {"none", "leaving"}

\* "We never double-spawn": at most one worker can be given requests, now or
\* when its start is committed, although the start awaits with tx unlocked.
OneServing ==
  \A v, w \in Workers :
    LET Serves(x) == tx = x \/ \E c \in Callers :
                       caller[c] = "starting" /\ started[c] = x
    IN  Serves(v) /\ Serves(w) => v = w

\* /health does not report an engine whose worker ended in order: a late or
\* abandoned start never leaves the flag set behind it.
HealthyHasWorker ==
  healthy => \E w \in Workers :
    worker[w] \in {"announcing", "ready", "converting", "replying", "leaving",
                   "panicked"}

\* "Restart required": once an engine in service is unhealthy, nothing revives
\* it, neither a late answer of the wedged worker nor another worker's start.
WedgeIsSticky == [][~healthy /\ tx # NoWorker => ~healthy']_vars

\* convert() returns, however the worker, a concurrent start and shutdown() fare.
EveryConvertReturns ==
  \A c \in Callers : caller[c] # "idle" ~> (caller[c] = "idle" \/ ~Alive)

\* A worker that nobody can reach any more drains its queue and ends, unless a
\* conversion keeps it: no thread is left over from an abandoned start.
CutOffWorkerEnds ==
  \A w \in Workers :
    []<>(worker[w] # "converting") =>
      (worker[w] = "ready" /\ ~HasSender(w)
         ~> (worker[w] \in WorkerGone \/ ~Alive))

\* shutdown() returns, also when a conversion never does.
ShutdownReturns ==
  closing \in {"takingTx", "takingHandle", "joining"}
    ~> (closing = "none" \/ ~Alive)

\* mod.rs on the watcher: "only fires when the worker truly idles, not during a
\* slow conversion".
WatcherSparesConversions ==
  ~Alive => \A w \in Workers : worker[w] # "converting"

\* mod.rs on shutdown(): "if a conversion is wedged inside an uncancellable FFI
\* call, we give up".
GivesUpOnlyWhenWedged ==
  [][ShutdownGivesUp => worker[joining.handle] = "converting"]_vars
=============================================================================
