------------------------------ MODULE Console -------------------------------
(***************************************************************************)
(* What the operator console knows of the server: the requests its         *)
(* middleware books into the logs and the Prometheus counters, the sampler *)
(* that every five seconds turns counters into a history and broadcasts    *)
(* them, the event streams that follow, and the health of the engines,     *)
(* which the sampler and /health both write.  Threads meet between any two *)
(* steps.  How streams end with the server is the matter of Server.        *)
(***************************************************************************)
EXTENDS Integers, Sequences, FiniteSets

CONSTANTS
  Requests, Probes,  \* requests to any route, and those to /health
  Streams,           \* browsers on the console
  Chrome, Office,    \* the engines
  Scenarios,         \* what comes: the requests, probes, streams and engines of a run
  LogCap, HistoryCap, BroadcastCap,
  MaxActivations,    \* bound: starts of an engine
  MaxRestarts        \* bound: what a restart counter counts to

Engines == {Chrome, Office}
Statuses == {"ok", "refused", "failed"}   \* below 400, 4xx, 5xx
Erroneous == {"refused", "failed"}

ASSUME EnginesAssumption == Chrome # Office
ASSUME RequestsAssumption == IsFiniteSet(Requests)
ASSUME ScenariosAssumption ==
  Scenarios \subseteq [requests : SUBSET Requests, probes : SUBSET Probes,
                       streams : SUBSET Streams, engines : SUBSET Engines]
ASSUME CapsAssumption ==
  /\ LogCap \in Nat \ {0} /\ HistoryCap \in Nat \ {0} /\ BroadcastCap \in Nat \ {0}
ASSUME BoundsAssumption == MaxActivations \in Nat /\ MaxRestarts \in Nat

VARIABLES
  scenario,
  stage, status,         \* per request, how far it is, and its answer
  requestLog, errorLog,  \* the rings the console lists
  counted,               \* the requests in pdfbro_http_requests_total
  up, wedged,            \* engines whose is_running is set, and those of them that
                         \* are unhealthy for good
  activations,           \* per engine, its starts
  gauge,                 \* engines whose health gauge is 1
  probe, found,          \* per /health request, how far it is, and the engines it found up
  sampler, seen, read,   \* the sampler's place, the engines it saw up, and by status
                         \* the counters it has read
  wasRunning, restarts,
  prevTotal, prevErrors,
  sample, history, payload,
  stream, queue, lagged, \* per browser: its place, the payloads it has to read; who lags
  shown                  \* per browser, the last payload shown

requests == <<stage, status, requestLog, errorLog, counted>>
engines == <<up, wedged, activations>>
probes == <<probe, found>>
locals == <<sampler, seen, read, sample, payload>>
figures == <<wasRunning, restarts, prevTotal, prevErrors, history>>
streams == <<stream, lagged, shown>>
vars == <<scenario, requests, engines, probes, gauge, locals, figures, streams, queue>>

\* What the counters of a status show: the requests counted under it.
Counters(s) == {r \in counted : status[r] = s}
Unread == [s \in {} |-> {}]

\* A sample names the requests it covers, for the properties to look at.
NoSample == [requests |-> 0, errors |-> 0, covers |-> {}]

Init ==
  /\ scenario \in Scenarios
  /\ stage = [r \in Requests |-> "none"]
  /\ status = [r \in Requests |-> "ok"]
  /\ requestLog = <<>> /\ errorLog = <<>>
  /\ counted = {}
  /\ up = {} /\ wedged = {}
  /\ activations = [e \in Engines |-> 0]
  /\ gauge = {}
  /\ probe = [p \in Probes |-> "none"]
  /\ found = [p \in Probes |-> {}]
  /\ sampler = "sleeping"
  /\ seen = {}
  /\ read = Unread
  /\ wasRunning = {}
  /\ restarts = [e \in Engines |-> 0]
  /\ prevTotal = 0 /\ prevErrors = 0
  /\ sample = NoSample
  /\ history = <<>>
  /\ payload = {}
  /\ stream = [s \in Streams |-> "none"]
  /\ queue = [s \in Streams |-> <<>>]
  /\ lagged = {}
  /\ shown = [s \in Streams |-> {}]

\* A ring of at most cap entries: the oldest makes room.
Pushed(ring, x, cap) == Append(IF Len(ring) >= cap THEN Tail(ring) ELSE ring, x)

-----------------------------------------------------------------------------
(* console_log_middleware                                                  *)

Goes(r, to) == stage' = [stage EXCEPT ![r] = to]

Arrive(r) ==
  /\ r \in scenario.requests
  /\ stage[r] = "none"
  /\ Goes(r, "running")
  /\ UNCHANGED <<status, requestLog, errorLog, counted>>

\* The response is there, of any status.
Answer(r) ==
  /\ stage[r] = "running"
  /\ Goes(r, "answered")
  /\ \E s \in Statuses : status' = [status EXCEPT ![r] = s]
  /\ UNCHANGED <<requestLog, errorLog, counted>>

LogRequest(r) ==
  /\ stage[r] = "answered"
  /\ requestLog' = Pushed(requestLog, r, LogCap)
  /\ Goes(r, IF status[r] = "failed" THEN "failing" ELSE "logged")
  /\ UNCHANGED <<status, errorLog, counted>>

LogError(r) ==
  /\ stage[r] = "failing"
  /\ errorLog' = Pushed(errorLog, r, LogCap)
  /\ Goes(r, "logged")
  /\ UNCHANGED <<status, requestLog, counted>>

\* record_http_request.
Count(r) ==
  /\ stage[r] = "logged"
  /\ counted' = counted \cup {r}
  /\ Goes(r, "over")
  /\ UNCHANGED <<status, requestLog, errorLog>>

\* The client goes away: the middleware is dropped where it waits, for the
\* response or for a log.
Lose(r) ==
  /\ stage[r] \in {"running", "answered", "failing"}
  /\ Goes(r, "gone")
  /\ UNCHANGED <<status, requestLog, errorLog, counted>>

Request(r) ==
  /\ \/ Arrive(r) \/ Answer(r) \/ Lose(r)
     \/ LogRequest(r) \/ LogError(r) \/ Count(r)
  /\ UNCHANGED <<scenario, engines, probes, gauge, locals, figures, streams, queue>>

-----------------------------------------------------------------------------
(* The engines, and /health                                                *)

Start(e) ==
  /\ e \in scenario.engines \ up
  /\ activations[e] < MaxActivations
  /\ up' = up \cup {e}
  /\ activations' = [activations EXCEPT ![e] = @ + 1]
  /\ UNCHANGED wedged

Stop(e) ==
  /\ e \in up
  /\ up' = up \ {e}
  /\ wedged' = wedged \ {e}
  /\ UNCHANGED activations

\* A conversion of LibreOffice hangs, or its worker is gone: the engine is
\* unhealthy until it is started anew, and its is_running stays set.
Wedge(e) ==
  /\ e = Office /\ e \in up \ wedged
  /\ wedged' = wedged \cup {e}
  /\ UNCHANGED <<up, activations>>

Engine(e) ==
  /\ Start(e) \/ Stop(e) \/ Wedge(e)
  /\ UNCHANGED <<scenario, requests, probes, gauge, locals, figures, streams, queue>>

\* What healthy may say of an engine: one that is down is not asked, one that is
\* up may fail to answer, a wedged one is not healthy.
Healthy(e) == IF e \in up \ wedged THEN {{}, {e}} ELSE {{}}

ProbeChromium(p) ==
  /\ p \in scenario.probes
  /\ probe[p] = "none"
  /\ \E h \in Healthy(Chrome) : found' = [found EXCEPT ![p] = h]
  /\ probe' = [probe EXCEPT ![p] = "asking"]
  /\ UNCHANGED gauge

ProbeOffice(p) ==
  /\ probe[p] = "asking"
  /\ \E h \in Healthy(Office) : found' = [found EXCEPT ![p] = @ \cup h]
  /\ probe' = [probe EXCEPT ![p] = "asked"]
  /\ UNCHANGED gauge

\* update_engine_health: what was found, however long ago.
UpdateEngineHealth(p) ==
  /\ probe[p] = "asked"
  /\ gauge' = found[p]
  /\ probe' = [probe EXCEPT ![p] = "over"]
  /\ UNCHANGED found

Health(p) ==
  /\ ProbeChromium(p) \/ ProbeOffice(p) \/ UpdateEngineHealth(p)
  /\ UNCHANGED <<scenario, requests, engines, locals, figures, streams, queue>>

-----------------------------------------------------------------------------
(* spawn_console_sampler, one round of its loop                            *)

SamplerGoes(from, to) == sampler = from /\ sampler' = to

\* The interval ticks, and Chrome is probed.
Tick ==
  /\ SamplerGoes("sleeping", "reading")
  /\ seen' \in Healthy(Chrome)
  /\ UNCHANGED <<gauge, read, sample, payload, figures, queue, lagged>>

\* LibreOffice is not probed: its flag is read, which a wedged one has set.
ReadOffice ==
  /\ SamplerGoes("reading", "updating")
  /\ seen' = seen \cup (up \cap {Office})
  /\ UNCHANGED <<gauge, read, sample, payload, figures, queue, lagged>>

\* mutant: the gauges are set only when something changed since the last round.
UpdateOnChange ==
  /\ SamplerGoes("updating", "gathering")
  /\ gauge' = IF seen = wasRunning THEN gauge ELSE seen
  /\ restarts' = [e \in Engines |-> IF e \in seen \ wasRunning /\ restarts[e] < MaxRestarts
                                    THEN restarts[e] + 1 ELSE restarts[e]]
  /\ wasRunning' = seen
  /\ UNCHANGED <<seen, read, sample, payload, prevTotal, prevErrors, history, queue, lagged>>

\* mutant: an activation is told by the gauge, which /health writes too.
UpdateByGauge ==
  /\ SamplerGoes("updating", "gathering")
  /\ gauge' = seen
  /\ restarts' = [e \in Engines |-> IF e \in seen \ gauge /\ restarts[e] < MaxRestarts
                                    THEN restarts[e] + 1 ELSE restarts[e]]
  /\ wasRunning' = seen
  /\ UNCHANGED <<seen, read, sample, payload, prevTotal, prevErrors, history, queue, lagged>>

\* The gauges are set, and an engine seen up that was not before is an
\* activation.
Update ==
  /\ SamplerGoes("updating", "gathering")
  /\ gauge' = seen
  /\ restarts' = [e \in Engines |-> IF e \in seen \ wasRunning /\ restarts[e] < MaxRestarts
                                    THEN restarts[e] + 1 ELSE restarts[e]]
  /\ wasRunning' = seen
  /\ UNCHANGED <<seen, read, sample, payload, prevTotal, prevErrors, history, queue, lagged>>

\* prometheus::gather reads the counters one after another, while requests
\* go on counting.
Gather(s) ==
  /\ sampler = "gathering"
  /\ s \notin DOMAIN read
  /\ read' = [t \in DOMAIN read \cup {s} |-> IF t = s THEN Counters(s) ELSE read[t]]
  /\ sampler' = IF DOMAIN read' = Statuses THEN "booking" ELSE "gathering"
  /\ UNCHANGED <<gauge, seen, sample, payload, figures, queue, lagged>>

\* The growth of a counter since the last round, never below none.
Delta(now, before) == IF now > before THEN now - before ELSE 0

ReadTotal == UNION {read[s] : s \in Statuses}
ReadErrors == UNION {read[s] : s \in Erroneous}

\* mutant: the errors are gathered again when they are booked.
BookTwoGathers ==
  /\ SamplerGoes("booking", "pushing")
  /\ LET total  == Cardinality(ReadTotal)
         errors == Cardinality(UNION {Counters(s) : s \in Erroneous}) IN
     /\ sample' = [requests |-> Delta(total, prevTotal),
                    errors |-> Delta(errors, prevErrors), covers |-> ReadTotal]
     /\ prevTotal' = total
     /\ prevErrors' = errors
  /\ read' = Unread
  /\ UNCHANGED <<gauge, seen, payload, wasRunning, restarts, history, queue, lagged>>

\* Both totals come from the one gathering.
Book ==
  /\ SamplerGoes("booking", "pushing")
  /\ LET total  == Cardinality(ReadTotal)
         errors == Cardinality(ReadErrors) IN
     /\ sample' = [requests |-> Delta(total, prevTotal),
                    errors |-> Delta(errors, prevErrors), covers |-> ReadTotal]
     /\ prevTotal' = total
     /\ prevErrors' = errors
  /\ read' = Unread
  /\ UNCHANGED <<gauge, seen, payload, wasRunning, restarts, history, queue, lagged>>

Push ==
  /\ SamplerGoes("pushing", "building")
  /\ history' = Pushed(history, sample, HistoryCap)
  /\ sample' = NoSample
  /\ UNCHANGED <<gauge, seen, read, payload, wasRunning, restarts, prevTotal, prevErrors,
                 queue, lagged>>

\* build_console_payload, which gathers anew for the table of routes.
Build ==
  /\ SamplerGoes("building", "sending")
  /\ payload' = counted
  /\ UNCHANGED <<gauge, seen, read, sample, figures, queue, lagged>>

\* To all that subscribe; the oldest payload of a full channel is lost, and
\* who had still to read it lags.
Subscribed == {s \in Streams : stream[s] \in {"building", "following"}}
Send ==
  /\ SamplerGoes("sending", "sleeping")
  /\ queue' = [s \in Streams |-> IF s \in Subscribed
                                  THEN Pushed(queue[s], payload, BroadcastCap) ELSE queue[s]]
  /\ lagged' = lagged \cup {s \in Subscribed : Len(queue[s]) = BroadcastCap}
  /\ payload' = {} /\ seen' = {}
  /\ UNCHANGED <<gauge, read, sample, figures>>

SamplerStep ==
  \/ Tick \/ ReadOffice \/ Update \/ (\E s \in Statuses : Gather(s))
  \/ Book \/ Push \/ Build \/ Send

Sampler ==
  /\ SamplerStep
  /\ UNCHANGED <<scenario, requests, engines, probes, stream, shown>>

-----------------------------------------------------------------------------
(* console_stream                                                          *)

\* The browser is subscribed before its first payload is built.
Subscribe(s) ==
  /\ s \in scenario.streams
  /\ stream[s] = "none"
  /\ stream' = [stream EXCEPT ![s] = "building"]
  /\ UNCHANGED <<queue, lagged, shown>>

Snapshot(s) ==
  /\ stream[s] = "building"
  /\ stream' = [stream EXCEPT ![s] = "following"]
  /\ shown' = [shown EXCEPT ![s] = counted]
  /\ UNCHANGED <<queue, lagged>>

\* mutant: a stream that lagged is over.
ReceiveEnds(s) ==
  /\ stream[s] = "following" /\ s \notin lagged
  /\ queue[s] # <<>>
  /\ queue' = [queue EXCEPT ![s] = Tail(@)]
  /\ shown' = [shown EXCEPT ![s] = Head(queue[s])]
  /\ UNCHANGED <<stream, lagged>>

\* A stream told that it lagged goes on at once with the oldest payload left:
\* nothing waits between the notice and the next recv.
Receive(s) ==
  /\ stream[s] = "following"
  /\ queue[s] # <<>>
  /\ queue' = [queue EXCEPT ![s] = Tail(@)]
  /\ shown' = [shown EXCEPT ![s] = Head(queue[s])]
  /\ lagged' = lagged \ {s}
  /\ UNCHANGED stream

\* The browser goes away, and its receiver with it.
Leave(s) ==
  /\ s \in Subscribed
  /\ stream' = [stream EXCEPT ![s] = "left"]
  /\ queue' = [queue EXCEPT ![s] = <<>>]
  /\ lagged' = lagged \ {s}
  /\ UNCHANGED shown

Serves(s) == Snapshot(s) \/ Receive(s)
Unobserved == UNCHANGED <<scenario, requests, engines, probes, gauge, locals, figures>>
Stream(s) == (Subscribe(s) \/ Serves(s) \/ Leave(s)) /\ Unobserved

-----------------------------------------------------------------------------
Next ==
  \/ \E r \in Requests : Request(r)
  \/ \E e \in Engines : Engine(e)
  \/ \E p \in Probes : Health(p)
  \/ Sampler
  \/ \E s \in Streams : Stream(s)

\* The sampler and the streams are tasks of the runtime, and the sampler
\* wakes every five seconds.  Nothing is owed by clients and engines.
Fairness ==
  /\ WF_vars(Sampler)
  /\ \A s \in Statuses : WF_vars(Gather(s) /\ Sampler)
  /\ \A s \in Streams : WF_vars(Serves(s) /\ Unobserved)

Spec == Init /\ [][Next]_vars /\ Fairness

-----------------------------------------------------------------------------
Samples == [requests : Nat, errors : Nat, covers : SUBSET Requests]
TypeOK ==
  /\ scenario \in Scenarios
  /\ stage \in [Requests -> {"none", "running", "answered", "failing", "logged", "over", "gone"}]
  /\ status \in [Requests -> Statuses]
  /\ requestLog \in Seq(Requests) /\ Len(requestLog) <= LogCap
  /\ errorLog \in Seq(Requests) /\ Len(errorLog) <= LogCap
  /\ counted = {r \in Requests : stage[r] = "over"}
  /\ up \subseteq Engines /\ gauge \subseteq Engines
  /\ wedged \subseteq up \cap {Office}
  /\ seen \subseteq Engines /\ wasRunning \subseteq Engines
  /\ activations \in [Engines -> 0..MaxActivations]
  /\ restarts \in [Engines -> 0..MaxRestarts]
  /\ probe \in [Probes -> {"none", "asking", "asked", "over"}]
  /\ found \in [Probes -> SUBSET Engines]
  /\ sampler \in {"sleeping", "reading", "updating", "gathering", "booking", "pushing",
                  "building", "sending"}
  /\ DOMAIN read \subseteq Statuses /\ \A s \in DOMAIN read : read[s] \subseteq Counters(s)
  /\ sampler = "booking" => DOMAIN read = Statuses
  /\ sampler \notin {"gathering", "booking"} => DOMAIN read = {}
  /\ prevTotal \in Nat /\ prevErrors \in Nat
  /\ sample \in Samples
  /\ history \in Seq(Samples) /\ Len(history) <= HistoryCap
  /\ payload \subseteq counted
  /\ stream \in [Streams -> {"none", "building", "following", "left"}]
  /\ queue \in [Streams -> Seq(SUBSET Requests)]
  /\ \A s \in Streams : Len(queue[s]) <= BroadcastCap
  /\ lagged \subseteq Subscribed
  /\ shown \in [Streams -> SUBSET Requests]

(***************************************************************************)
(* Samples add up: what a sample says came in since the one before it is   *)
(* what the counters grew by between them, all of it and nothing twice,    *)
(* and its errors are among its requests, however the counting of requests *)
(* falls between the reads of the sampler (console_store.rs 637-664).      *)
(***************************************************************************)
SamplesAddUp ==
  \A i \in 1..Len(history) - 1 :
    LET before == history[i].covers
        now    == history[i + 1].covers IN
    /\ before \subseteq now
    /\ history[i + 1].requests = Cardinality(now \ before)
    /\ history[i + 1].errors = Cardinality({r \in now \ before : status[r] \in Erroneous})

(***************************************************************************)
(* A restart that the console shows of LibreOffice was a start of it: the  *)
(* sampler may miss one between two rounds and never makes one up, whatever*)
(* /health writes into the gauges meanwhile (console_store.rs 619-635).  It *)
(* is not so of Chrome: a browser that once fails to answer was not        *)
(* restarted, and is counted when it answers again.                        *)
(***************************************************************************)
RestartsReal == restarts[Office] <= activations[Office]

(***************************************************************************)
(* A request that was counted comes to be shown, and stays shown, on every *)
(* console that follows: not lost to a browser that subscribed meanwhile,  *)
(* to one that lagged behind the channel, or behind an older payload       *)
(* (routes/console.rs 18-47).                                              *)
(***************************************************************************)
AnsweredIsShown ==
  \A r \in Requests : \A s \in Streams :
    (r \in counted /\ stream[s] = "following") ~> [](r \in shown[s] \/ stream[s] = "left")

(***************************************************************************)
(* Of the two that write the gauges the sampler prevails: a stale answer of *)
(* a slow /health does not stay, so an engine whose is_running stays clear *)
(* comes to be shown down for good, and LibreOffice is shown up again and  *)
(* again while its is_running stays set.  That flag is not its health: a   *)
(* wedged LibreOffice is shown up as well, over the right answer of        *)
(* /health (health.rs 31, console_store.rs 607-617).                       *)
(***************************************************************************)
SamplerPrevails ==
  /\ \A e \in Engines : <>[](e \notin up) => <>[](e \notin gauge)
  /\ <>[](Office \in up) => []<>(Office \in gauge)

(***************************************************************************)
(* metrics.rs 38: "LibreOffice health status (1=up, 0=down)".  It does not *)
(* hold: the gauge of a LibreOffice that stays wedged does not stay at 0.  *)
(***************************************************************************)
WedgedIsShownDown == <>[](Office \in wedged) => <>[](Office \notin gauge)
=============================================================================
