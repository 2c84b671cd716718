------------------------------- MODULE Server -------------------------------
(***************************************************************************)
(* The server process around the engines, from its start to its exit: the  *)
(* requests under the permits and the timeout layer, the supervised        *)
(* engines, each an Option behind a mutex, the tasks that want them (the   *)
(* eager start, handlers, webhook workers, /health, the console's          *)
(* sampler), the console's streams, and the shutdown.  What goes on inside *)
(* an engine while its mutex is held is the matter of ChromiumEngine and   *)
(* LokEngine; what a conversion returns, of PdfRoutes.                     *)
(*                                                                         *)
(* The idle monitors are left out, for they do nothing: the seconds they   *)
(* compare are those since an Instant just taken, always 0, and a timeout  *)
(* of 0 is filtered out of the configuration.                              *)
(***************************************************************************)
EXTENDS Naturals, Sequences, FiniteSets, SequencesExt, Ranking

CONSTANTS
  Engines,    \* the supervised engines; the task that starts one goes by its name
  Chrome,     \* the engine the sampler probes
  ShutOrder,  \* the engines in the order serve shuts them down
  Converts,   \* requests to the /forms routes
  Previews,   \* requests to the /preview routes
  Probes,     \* requests to /health
  Jobs,       \* jobs of the webhook workers
  Visits,     \* the engines a task calls, in order
  Sampler, Closer,   \* the sampler's task, and serve itself after the drain
  Streams,    \* browsers that open the console
  LazySets,   \* configurations: which engines are started on the first request
  Permits     \* --concurrency

Requests == Converts \cup Previews \cup Probes
Callers == Requests \cup Jobs
Tasks == Callers \cup Engines \cup {Sampler, Closer}

ASSUME PermitsAssumption == Permits \in Nat \ {0}
ASSUME OrderAssumption == ShutOrder \in Seq(Engines) /\ Chrome \in Engines
ASSUME LazyAssumption == LazySets \subseteq SUBSET Engines
ASSUME VisitsAssumption == Visits \in [Callers -> Seq(Engines)]
\* Every task of the runtime is a task of its own.
ASSUME TasksAssumption ==
  /\ Requests \cap Jobs = {}
  /\ Callers \cap Engines = {}
  /\ {Sampler, Closer} \cap (Callers \cup Engines) = {}
  /\ Sampler # Closer

VARIABLES
  lazy,      \* configuration: the engines started on the first request
  tls,       \* configuration: served by axum_server, not by axum
  phase,     \* "serving", "draining", "closing" (the engines), "exited"
  shut,      \* how many engines serve is through with
  there,     \* engines whose Option is Some
  running,   \* engines whose is_running is set
  line,      \* per engine, who holds its mutex, then who waits for it
  stage,     \* per task, how far it is
  leg,       \* per caller, the engine calls it is through with
  permits,   \* free permits of the semaphore
  active,    \* the console's active_requests
  stream     \* per browser, its event stream

config == <<lazy, tls>>
ending == <<phase, shut>>
engines == <<there, running>>
callers == <<stage, leg>>
vars == <<config, ending, engines, line, callers, permits, active, stream>>

Init ==
  /\ lazy \in LazySets
  /\ tls \in BOOLEAN
  /\ phase = "serving"
  /\ shut = 0
  /\ there = {}
  /\ running = {}
  /\ line = [e \in Engines |-> <<>>]
  /\ stage = [t \in Tasks |-> "idle"]
  /\ leg = [t \in Callers |-> 0]
  /\ permits = Permits
  /\ active = 0
  /\ stream = [s \in Streams |-> "none"]

Live(r) == stage[r] \in {"parked", "ready", "queued", "using"}
HasPermit(r) == r \in Converts /\ stage[r] \in {"ready", "queued", "using"}
Destination(t) == Visits[t][leg[t] + 1]

-----------------------------------------------------------------------------
(* The mutex of an engine is fair: first come, first served.  A future that *)
(* is dropped gives up its place, or the mutex.                            *)

Holds(t, e) == line[e] # <<>> /\ Head(line[e]) = t
Queued(t, e) == line' = [line EXCEPT ![e] = Append(@, t)]
Unlocks(e) == line' = [line EXCEPT ![e] = Tail(@)]

\* A line after the tasks ts have gone: what is at the places that are kept.
KeptPlaces(s, ts) == {n \in DOMAIN s : s[n] \notin ts}
Remaining(s, ts) == At(s, KeptPlaces(s, ts))
Without(ts) == [e \in Engines |-> Remaining(line[e], ts)]

Launched(e) ==
  /\ there' = there \cup {e}
  /\ running' = running \cup {e}

-----------------------------------------------------------------------------
(* Engines started eagerly, each by a task of its own.                     *)

StarterQueues(e) ==
  /\ e \notin lazy
  /\ stage[e] = "idle"
  /\ Queued(e, e)
  /\ stage' = [stage EXCEPT ![e] = "queued"]
  /\ UNCHANGED <<config, ending, engines, leg, permits, active, stream>>

\* A launch that fails is logged, and not tried again.
Starts(e) ==
  /\ stage[e] = "queued"
  /\ Holds(e, e)
  /\ \/ e \notin there /\ Launched(e)
     \/ UNCHANGED engines
  /\ Unlocks(e)
  /\ stage' = [stage EXCEPT ![e] = "over"]
  /\ UNCHANGED <<config, ending, leg, permits, active, stream>>

-----------------------------------------------------------------------------
(* Requests and jobs.  The console's middleware is outermost; the /forms   *)
(* routes take a permit before they read the body.  Previews and /health   *)
(* take none and are not timed.                                            *)

Arrive(r) ==
  /\ phase = "serving"
  /\ stage[r] = "idle"
  /\ active' = active + 1
  /\ stage' = [stage EXCEPT ![r] = IF r \in Converts THEN "parked" ELSE "ready"]
  /\ UNCHANGED <<config, ending, engines, line, leg, permits, stream>>

TakePermit(r) ==
  /\ stage[r] = "parked"
  /\ permits > 0
  /\ permits' = permits - 1
  /\ stage' = [stage EXCEPT ![r] = "ready"]
  /\ UNCHANGED <<config, ending, engines, line, leg, active, stream>>

\* A worker picks up a job, whatever the server is about.
PickUp(j) ==
  /\ stage[j] = "idle"
  /\ stage' = [stage EXCEPT ![j] = "ready"]
  /\ UNCHANGED <<config, ending, engines, line, leg, permits, active, stream>>

\* The next call into an engine.  /health skips one that is not running.
Call(t) ==
  /\ stage[t] = "ready"
  /\ leg[t] < Len(Visits[t])
  /\ IF t \in Probes /\ Destination(t) \notin running
     THEN /\ leg' = [leg EXCEPT ![t] = @ + 1]
          /\ UNCHANGED <<line, stage>>
     ELSE /\ Queued(t, Destination(t))
          /\ stage' = [stage EXCEPT ![t] = "queued"]
          /\ UNCHANGED leg
  /\ UNCHANGED <<config, ending, engines, permits, active, stream>>

\* get_engine: the caller has the mutex, and starts a lazy engine that is not
\* there; the conversion begins.
Begin(t) ==
  /\ t \notin Probes
  /\ stage[t] = "queued"
  /\ LET e == Destination(t)
     IN /\ Holds(t, e)
        /\ \/ e \in there /\ UNCHANGED engines
           \/ e \notin there /\ e \in lazy /\ Launched(e)
  /\ stage' = [stage EXCEPT ![t] = "using"]
  /\ UNCHANGED <<config, ending, line, leg, permits, active, stream>>

\* mutant: get_engine waits, with the mutex, for an eager engine to be there.
AwaitsStarter(t) ==
  /\ t \notin Probes
  /\ stage[t] = "queued"
  /\ LET e == Destination(t)
     IN Holds(t, e) /\ e \notin there /\ e \in lazy /\ Unlocks(e)
  /\ stage' = [stage EXCEPT ![t] = "ready"]
  /\ leg' = [leg EXCEPT ![t] = Len(Visits[t])]
  /\ UNCHANGED <<config, ending, engines, permits, active, stream>>

\* No engine: it does not start, or was never started, or is shut down.
Unavailable(t) ==
  /\ t \notin Probes
  /\ stage[t] = "queued"
  /\ LET e == Destination(t) IN Holds(t, e) /\ e \notin there /\ Unlocks(e)
  /\ stage' = [stage EXCEPT ![t] = "ready"]
  /\ leg' = [leg EXCEPT ![t] = Len(Visits[t])]
  /\ UNCHANGED <<config, ending, engines, permits, active, stream>>

\* The conversion is over, one way or the other; after an error the caller
\* makes no further call.
Finish(t) ==
  /\ stage[t] = "using"
  /\ Unlocks(Destination(t))
  /\ stage' = [stage EXCEPT ![t] = "ready"]
  /\ \E n \in {leg[t] + 1, Len(Visits[t])} : leg' = [leg EXCEPT ![t] = n]
  /\ UNCHANGED <<config, ending, engines, permits, active, stream>>

\* healthy: the engine is asked under its mutex.
Probe(r) ==
  /\ r \in Probes
  /\ stage[r] = "queued"
  /\ Holds(r, Destination(r))
  /\ Unlocks(Destination(r))
  /\ stage' = [stage EXCEPT ![r] = "ready"]
  /\ leg' = [leg EXCEPT ![r] = @ + 1]
  /\ UNCHANGED <<config, ending, engines, permits, active, stream>>

\* mutant: the permit is taken out of its guard and forgotten.
EndForgets(t) ==
  /\ stage[t] = "ready"
  /\ t \in Probes \cup Jobs => leg[t] = Len(Visits[t])
  /\ stage' = [stage EXCEPT ![t] = "over"]
  /\ active' = IF t \in Requests THEN active - 1 ELSE active
  /\ UNCHANGED <<config, ending, engines, line, leg, permits, stream>>

\* The response, or the job's end.  A handler may answer an error before it
\* calls an engine.
End(t) ==
  /\ stage[t] = "ready"
  /\ t \in Probes \cup Jobs => leg[t] = Len(Visits[t])
  /\ stage' = [stage EXCEPT ![t] = "over"]
  /\ permits' = IF HasPermit(t) THEN permits + 1 ELSE permits
  /\ active' = IF t \in Requests THEN active - 1 ELSE active
  /\ UNCHANGED <<config, ending, engines, line, leg, stream>>

\* The futures of the requests rs are dropped wherever they are, and with them
\* their permits and guards.
Dropped(rs, to) ==
  /\ stage' = [t \in Tasks |-> IF t \in rs THEN to ELSE stage[t]]
  /\ line' = Without(rs)
  /\ permits' = permits + Cardinality({r \in rs : HasPermit(r)})
  /\ UNCHANGED leg

\* The timeout layer answers in the place of the handler.
TimesOut(r) ==
  /\ r \in Converts
  /\ Live(r)
  /\ Dropped({r}, "over")
  /\ active' = active - 1
  /\ UNCHANGED <<config, ending, engines, stream>>

\* The client closes the connection: the middleware is dropped as well.
Disconnect(r) ==
  /\ Live(r)
  /\ Dropped({r}, "gone")
  /\ UNCHANGED <<config, ending, engines, active, stream>>

-----------------------------------------------------------------------------
(* The console: the sampler, every five seconds, and the event streams.    *)

\* Only Chromium is probed under its mutex; of LibreOffice the flag is read.
SamplerTicks ==
  /\ stage[Sampler] = "idle"
  /\ Chrome \in running
  /\ Queued(Sampler, Chrome)
  /\ stage' = [stage EXCEPT ![Sampler] = "queued"]
  /\ UNCHANGED <<config, ending, engines, leg, permits, active, stream>>

SamplerProbes ==
  /\ stage[Sampler] = "queued"
  /\ Holds(Sampler, Chrome)
  /\ Unlocks(Chrome)
  /\ stage' = [stage EXCEPT ![Sampler] = "idle"]
  /\ UNCHANGED <<config, ending, engines, leg, permits, active, stream>>

Connect(s) ==
  /\ phase = "serving"
  /\ stream[s] = "none"
  /\ stream' = [stream EXCEPT ![s] = "building"]
  /\ UNCHANGED <<config, ending, engines, line, callers, permits, active>>

\* The first payload is built; only then the stream subscribes to the shutdown
\* signal, and one already sent does not count as a change.
Follow(s) ==
  /\ stream[s] = "building"
  /\ stream' = [stream EXCEPT ![s] = IF phase = "serving" THEN "following" ELSE "late"]
  /\ UNCHANGED <<config, ending, engines, line, callers, permits, active>>

\* mutant: the signal is passed on to the streams after the drain.
StreamEndsAtExit(s) ==
  /\ stream[s] = "following"
  /\ phase = "closing"
  /\ stream' = [stream EXCEPT ![s] = "closed"]
  /\ UNCHANGED <<config, ending, engines, line, callers, permits, active>>

StreamEnds(s) ==
  /\ stream[s] = "following"
  /\ phase # "serving"
  /\ stream' = [stream EXCEPT ![s] = "closed"]
  /\ UNCHANGED <<config, ending, engines, line, callers, permits, active>>

\* The browser goes away.
Leave(s) ==
  /\ stream[s] \in {"building", "following", "late"}
  /\ stream' = [stream EXCEPT ![s] = "closed"]
  /\ UNCHANGED <<config, ending, engines, line, callers, permits, active>>

-----------------------------------------------------------------------------
(* Shutdown                                                                *)

\* SIGINT or SIGTERM.  axum stops accepting and waits for what is in flight;
\* with TLS everything in flight is dropped.
Signal ==
  /\ phase = "serving"
  /\ IF tls
     THEN /\ phase' = "closing"
          /\ Dropped({r \in Requests : Live(r)}, "gone")
          /\ stream' = [s \in Streams |-> "closed"]
     ELSE /\ phase' = "draining"
          /\ UNCHANGED <<line, callers, permits, stream>>
  /\ UNCHANGED <<config, shut, engines, active>>

Drained ==
  /\ phase = "draining"
  /\ \A r \in Requests : ~Live(r)
  /\ \A s \in Streams : stream[s] \in {"none", "closed"}
  /\ phase' = "closing"
  /\ UNCHANGED <<config, shut, engines, line, callers, permits, active, stream>>

Due(e) == shut < Len(ShutOrder) /\ e = ShutOrder[shut + 1]

CloserQueues(e) ==
  /\ phase = "closing"
  /\ Due(e)
  /\ stage[Closer] = "idle"
  /\ Queued(Closer, e)
  /\ stage' = [stage EXCEPT ![Closer] = "queued"]
  /\ UNCHANGED <<config, ending, engines, leg, permits, active, stream>>

\* mutant: the engine is taken without waiting for its mutex.
TakesAtOnce(e) ==
  /\ stage[Closer] = "queued"
  /\ Due(e)
  /\ there' = there \ {e}
  /\ running' = running \ {e}
  /\ line' = Without({Closer})
  /\ stage' = [stage EXCEPT ![Closer] = "idle"]
  /\ shut' = shut + 1
  /\ UNCHANGED <<config, phase, leg, permits, active, stream>>

\* The end of an engine's shutdown: is_running is cleared, the guard dropped.
Cleared(e) ==
  /\ running' = running \ {e}
  /\ Unlocks(e)
  /\ stage' = [stage EXCEPT ![Closer] = "idle"]
  /\ shut' = shut + 1

\* shutdown: take the engine under the mutex.  Chromium's is dropped on the spot;
\* the worker of LibreOffice is awaited, with the mutex.
Takes(e) ==
  /\ stage[Closer] = "queued"
  /\ Due(e)
  /\ Holds(Closer, e)
  /\ there' = there \ {e}
  /\ \/ (e = Chrome \/ e \notin there) /\ Cleared(e)
     \/ /\ e # Chrome /\ e \in there
        /\ stage' = [stage EXCEPT ![Closer] = "using"]
        /\ UNCHANGED <<running, line, shut>>
  /\ UNCHANGED <<config, phase, leg, permits, active, stream>>

\* LibreOfficeEngine::shutdown has returned.
Closes(e) ==
  /\ stage[Closer] = "using"
  /\ Due(e)
  /\ Cleared(e)
  /\ UNCHANGED <<config, phase, there, leg, permits, active, stream>>

\* DEFAULT_DRAIN is over before the mutex is free, or before the worker has ended:
\* then the engine is dropped where it is, and is_running stays set.
GivesUp(e) ==
  /\ Due(e)
  /\ \/ stage[Closer] = "queued" /\ ~Holds(Closer, e)
     \/ stage[Closer] = "using"
  /\ line' = Without({Closer})
  /\ stage' = [stage EXCEPT ![Closer] = "idle"]
  /\ shut' = shut + 1
  /\ UNCHANGED <<config, phase, engines, leg, permits, active, stream>>

Exit ==
  /\ phase = "closing"
  /\ shut = Len(ShutOrder)
  /\ phase' = "exited"
  /\ UNCHANGED <<config, shut, engines, line, callers, permits, active, stream>>

-----------------------------------------------------------------------------

Progress(t) ==
  \/ Call(t)
  \/ Begin(t)
  \/ Unavailable(t)
  \/ Finish(t)
  \/ Probe(t)
  \/ End(t)

Closing == \E e \in Engines : CloserQueues(e) \/ Takes(e) \/ Closes(e) \/ GivesUp(e)

Step ==
  \/ \E e \in Engines : StarterQueues(e) \/ Starts(e)
  \/ \E r \in Requests : Arrive(r) \/ TakePermit(r) \/ TimesOut(r) \/ Disconnect(r)
  \/ \E j \in Jobs : PickUp(j)
  \/ \E t \in Callers : Progress(t)
  \/ SamplerTicks
  \/ SamplerProbes
  \/ \E s \in Streams : Connect(s) \/ Follow(s) \/ StreamEnds(s) \/ Leave(s)
  \/ Signal
  \/ Drained
  \/ Closing
  \/ Exit

Next == phase # "exited" /\ Step

Spec == Init /\ [][Next]_vars

\* Every task that can run does, up to the exit: launches, conversions and probes
\* end, for each has its own timeout.  Nothing makes a client send, leave or a
\* browser go away, and no signal has to come.
Fairness ==
  /\ \A e \in Engines : WF_vars(phase # "exited" /\ Starts(e))
  /\ \A r \in Requests : WF_vars(phase # "exited" /\ TakePermit(r))
  /\ \A t \in Callers : WF_vars(phase # "exited" /\ Progress(t))
  /\ WF_vars(phase # "exited" /\ SamplerProbes)
  /\ \A s \in Streams : WF_vars(phase # "exited" /\ (Follow(s) \/ StreamEnds(s)))
  /\ WF_vars(Drained)
  /\ WF_vars(Closing)
  /\ WF_vars(Exit)

FairSpec == Spec /\ Fairness

-----------------------------------------------------------------------------
(* Properties                                                              *)

\* serve has taken the engine out of its Option.
Taken(e) == \E n \in 1..Len(ShutOrder) :
  ShutOrder[n] = e /\ (n <= shut \/ (n = shut + 1 /\ stage[Closer] = "using"))

\* Types and ranges; the flag of an engine that is not there is clear, but for one
\* whose awaited shutdown is still at work or was dropped by its budget.
TypeOK ==
  /\ lazy \subseteq Engines /\ tls \in BOOLEAN
  /\ phase \in {"serving", "draining", "closing", "exited"}
  /\ shut \in 0..Len(ShutOrder)
  /\ there \subseteq Engines /\ running \subseteq Engines
  /\ line \in [Engines -> Seq(Tasks)]
  /\ stage \in [Tasks -> {"idle", "parked", "ready", "queued", "using", "over", "gone"}]
  /\ \A t \in Callers : leg[t] \in 0..Len(Visits[t])
  /\ permits \in 0..Permits
  /\ active \in Nat
  /\ \A e \in running \ there : e # Chrome /\ Taken(e)
  /\ stream \in [Streams -> {"none", "building", "following", "late", "closed"}]

\* Wherever a future is dropped, by the timeout layer, a lost client, the signal
\* or the budget of the shutdown, its permit and its place in the line of an
\* engine go with it: every permit out is a live request's, and a line holds
\* just the tasks that wait for the engine.  The counter of active requests is
\* too high by the clients that went away, and by no other.
NothingLeaks ==
  /\ TypeOK
  /\ active = Cardinality({r \in Requests : Live(r) \/ stage[r] = "gone"})
  /\ permits + Cardinality({r \in Converts : HasPermit(r)}) = Permits
  /\ \A e \in Engines :
       /\ IsInjective(line[e])
       /\ \A t \in Callers : t \in ToSet(line[e]) <=>
            stage[t] \in {"queued", "using"} /\ Destination(t) = e

\* A conversion has the engine to itself, and the engine is not taken from under
\* it, not by the shutdown either.
EngineHeldWhileUsed ==
  \A t \in Callers : stage[t] = "using" => Holds(t, Destination(t)) /\ Destination(t) \in there

\* A request gets its answer, be it /health behind any number of conversions.
EveryRequestSettles == \A r \in Requests : Live(r) ~> ~Live(r)

\* After the signal the process comes to its end, unless a console stream
\* subscribed to the signal too late.
Stops == phase # "serving" ~> (phase = "exited" \/ \E s \in Streams : stream[s] = "late")
=============================================================================
