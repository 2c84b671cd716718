---------------------------- MODULE ConsoleProofs ----------------------------
(***************************************************************************)
(* What Console promises for every number of requests, probes and          *)
(* browsers, every mixture of them, and every size of the rings.           *)
(***************************************************************************)
EXTENDS Console, FiniteSetTheorems, TLAPS

-----------------------------------------------------------------------------
(* Types.                                                                  *)

\* A ring keeps its type and its cap.
LEMMA PushedType ==
  ASSUME NEW S, NEW cap \in Nat \ {0}, NEW ring \in Seq(S), Len(ring) <= cap, NEW x \in S
  PROVE  /\ Pushed(ring, x, cap) \in Seq(S)
         /\ Len(Pushed(ring, x, cap)) <= cap
BY DEF Pushed

LEMMA TypeInit == Init => TypeOK
<1> SUFFICES ASSUME Init PROVE TypeOK OBVIOUS
<1>1. /\ scenario \in Scenarios /\ counted = {} /\ up = {} /\ wedged = {} /\ gauge = {} /\ seen = {}
      /\ wasRunning = {} /\ payload = {} /\ lagged = {} /\ sampler = "sleeping"
      /\ prevTotal = 0 /\ prevErrors = 0 /\ sample = NoSample /\ read = Unread
  BY DEF Init
<1>2. /\ requestLog \in Seq(Requests) /\ Len(requestLog) <= LogCap
      /\ errorLog \in Seq(Requests) /\ Len(errorLog) <= LogCap
      /\ history \in Seq(Samples) /\ Len(history) <= HistoryCap
  BY CapsAssumption DEF Init
<1>3. /\ stage \in [Requests -> {"none", "running", "answered", "failing", "logged", "over", "gone"}]
      /\ \A r \in Requests : stage[r] = "none"
      /\ status \in [Requests -> Statuses]
  BY DEF Init, Statuses
<1>4. /\ activations \in [Engines -> 0..MaxActivations]
      /\ restarts \in [Engines -> 0..MaxRestarts]
  BY BoundsAssumption DEF Init
<1>5. /\ probe \in [Probes -> {"none", "asking", "asked", "over"}]
      /\ found \in [Probes -> SUBSET Engines]
  BY DEF Init
<1>6. /\ stream \in [Streams -> {"none", "building", "following", "left"}]
      /\ queue \in [Streams -> Seq(SUBSET Requests)]
      /\ \A s \in Streams : Len(queue[s]) <= BroadcastCap
      /\ shown \in [Streams -> SUBSET Requests]
  BY CapsAssumption DEF Init
<1>7. sample \in Samples BY <1>1 DEF NoSample, Samples
<1>8. counted = {r \in Requests : stage[r] = "over"} BY <1>1, <1>3
<1>9. DOMAIN read = {} /\ \A s \in DOMAIN read : read[s] \subseteq Counters(s)
  BY <1>1 DEF Unread
<1> HIDE DEF Init
<1> QED BY <1>1, <1>2, <1>3, <1>4, <1>5, <1>6, <1>7, <1>8, <1>9 DEF TypeOK

\* A counted request is over, and its answer stays.
LEMMA RequestKeeps ==
  ASSUME TypeOK, NEW r \in Requests, Request(r)
  PROVE  /\ counted \subseteq counted'
         /\ \A q \in counted : status'[q] = status[q]
BY DEF Request, Arrive, Answer, Lose, LogRequest, LogError, Count, Goes, TypeOK

LEMMA TypeRequest ==
  ASSUME TypeOK, NEW r \in Requests, Request(r)
  PROVE  TypeOK'
<1> USE DEF TypeOK, Request, Goes
<1>1. /\ stage' \in [Requests -> {"none", "running", "answered", "failing", "logged", "over", "gone"}]
      /\ status' \in [Requests -> Statuses]
  <2>1. /\ stage \in [Requests -> {"none", "running", "answered", "failing", "logged", "over", "gone"}]
        /\ status \in [Requests -> Statuses]
    OBVIOUS
  <2>2. Arrive(r) \/ Answer(r) \/ Lose(r) \/ LogRequest(r) \/ LogError(r) \/ Count(r) OBVIOUS
  <2> HIDE DEF TypeOK, Request
  <2> QED BY <2>1, <2>2 DEF Arrive, Answer, Lose, LogRequest, LogError, Count
<1>8. counted' = {q \in Requests : stage'[q] = "over"}
  <2>1. CASE Count(r)
    <3>1. counted' = counted \cup {r} /\ stage' = [stage EXCEPT ![r] = "over"] BY <2>1 DEF Count
    <3>2. \A q \in Requests : stage'[q] = IF q = r THEN "over" ELSE stage[q] BY <3>1
    <3>3. \A q \in Requests : q \in counted <=> stage[q] = "over" OBVIOUS
    <3>4. counted' \subseteq Requests BY <3>1
    <3> QED BY <3>1, <3>2, <3>3, <3>4
  <2>2. CASE ~Count(r)
    <3>1. /\ counted' = counted /\ stage[r] # "over"
          /\ \E to \in {"running", "answered", "failing", "logged", "gone"} :
               stage' = [stage EXCEPT ![r] = to]
      BY <2>2 DEF Arrive, Answer, Lose, LogRequest, LogError
    <3> QED BY <3>1
  <2> QED BY <2>1, <2>2
<1>2. requestLog' \in Seq(Requests) /\ Len(requestLog') <= LogCap
  BY CapsAssumption, PushedType DEF Arrive, Answer, Lose, LogRequest, LogError, Count
<1>3. errorLog' \in Seq(Requests) /\ Len(errorLog') <= LogCap
  BY CapsAssumption, PushedType DEF Arrive, Answer, Lose, LogRequest, LogError, Count
<1>4. UNCHANGED <<scenario, engines, probes, gauge, locals, figures, streams, queue>> OBVIOUS
<1>5. \A s \in DOMAIN read' : read'[s] \subseteq Counters(s)'
  <2>1. counted \subseteq counted' /\ \A q \in counted : status'[q] = status[q] BY RequestKeeps
  <2> QED BY <1>4, <2>1 DEF Counters, locals
<1>6. payload' \subseteq counted' BY <1>4, RequestKeeps DEF locals
<1>7. lagged' \subseteq Subscribed' BY <1>4 DEF streams, Subscribed
<1> QED BY <1>1, <1>2, <1>3, <1>4, <1>5, <1>6, <1>7, <1>8
        DEF engines, probes, locals, figures, streams

LEMMA TypeEngine ==
  ASSUME TypeOK, NEW e \in Engines, Engine(e)
  PROVE  TypeOK'
<1> USE DEF TypeOK, Engine
<1>1. up' \subseteq Engines /\ wedged' \subseteq up' \cap {Office} BY DEF Start, Stop, Wedge
<1>2. activations' \in [Engines -> 0..MaxActivations]
  <2>1. activations[e] \in 0..MaxActivations OBVIOUS
  <2>2. CASE Start(e)
    <3>1. activations[e] + 1 \in 0..MaxActivations BY <2>1, <2>2, BoundsAssumption DEF Start
    <3> QED BY <2>2, <3>1 DEF Start
  <2> QED BY <2>2 DEF Stop, Wedge
<1>3. UNCHANGED <<scenario, requests, probes, gauge, locals, figures, streams, queue>> OBVIOUS
<1> QED BY <1>1, <1>2, <1>3
        DEF requests, probes, locals, figures, streams, Subscribed, Counters

LEMMA HealthyType == ASSUME NEW e \in Engines PROVE \A h \in Healthy(e) : h \subseteq Engines
BY DEF Healthy

LEMMA TypeHealth ==
  ASSUME TypeOK, NEW p \in Probes, Health(p)
  PROVE  TypeOK'
<1> USE DEF TypeOK, Health
<1>1. /\ probe' \in [Probes -> {"none", "asking", "asked", "over"}]
      /\ found' \in [Probes -> SUBSET Engines]
  <2>1. /\ probe \in [Probes -> {"none", "asking", "asked", "over"}]
        /\ found \in [Probes -> SUBSET Engines]
    OBVIOUS
  <2>2. ProbeChromium(p) \/ ProbeOffice(p) \/ UpdateEngineHealth(p) OBVIOUS
  <2> HIDE DEF TypeOK, Health
  <2> QED BY <2>1, <2>2, HealthyType DEF ProbeChromium, ProbeOffice, UpdateEngineHealth, Engines
<1>2. gauge' \subseteq Engines BY DEF ProbeChromium, ProbeOffice, UpdateEngineHealth
<1>3. UNCHANGED <<scenario, requests, engines, locals, figures, streams, queue>> OBVIOUS
<1> QED BY <1>1, <1>2, <1>3
        DEF requests, engines, locals, figures, streams, Subscribed, Counters

LEMMA TypeStream ==
  ASSUME TypeOK, NEW s \in Streams, Stream(s)
  PROVE  TypeOK'
<1> USE DEF TypeOK, Stream, Unobserved
<1>1. stream' \in [Streams -> {"none", "building", "following", "left"}]
  <2>1. stream \in [Streams -> {"none", "building", "following", "left"}] OBVIOUS
  <2>2. Subscribe(s) \/ Serves(s) \/ Leave(s) OBVIOUS
  <2> HIDE DEF TypeOK, Stream, Unobserved
  <2> QED BY <2>1, <2>2 DEF Subscribe, Serves, Snapshot, Receive, Leave
<1>2. queue' \in [Streams -> Seq(SUBSET Requests)] /\ \A t \in Streams : Len(queue'[t]) <= BroadcastCap
  <2>1. CASE Subscribe(s) BY <2>1 DEF Subscribe
  <2>2. CASE Snapshot(s) BY <2>2 DEF Snapshot
  <2>3. CASE Receive(s)
    <3>1. queue[s] \in Seq(SUBSET Requests) /\ queue[s] # <<>> BY <2>3 DEF Receive
    <3>2. Tail(queue[s]) \in Seq(SUBSET Requests) /\ Len(Tail(queue[s])) <= Len(queue[s]) BY <3>1
    <3>3. Len(queue[s]) <= BroadcastCap OBVIOUS
    <3>4. Len(Tail(queue[s])) \in Nat /\ Len(queue[s]) \in Nat /\ BroadcastCap \in Nat
      BY <3>1, <3>2, CapsAssumption
    <3> QED BY <2>3, <3>2, <3>3, <3>4 DEF Receive
  <2>4. CASE Leave(s) BY <2>4, CapsAssumption DEF Leave
  <2> QED BY <2>1, <2>2, <2>3, <2>4 DEF Serves
<1>3. shown' \in [Streams -> SUBSET Requests]
  <2>1. CASE Receive(s)
    <3>1. Head(queue[s]) \in SUBSET Requests BY <2>1 DEF Receive
    <3> QED BY <2>1, <3>1 DEF Receive
  <2>2. CASE Snapshot(s)
    <3>1. counted \in SUBSET Requests OBVIOUS
    <3> QED BY <2>2, <3>1 DEF Snapshot
  <2> QED BY <2>1, <2>2 DEF Subscribe, Serves, Leave
<1>4. lagged' \subseteq Subscribed'
  BY DEF Subscribe, Serves, Snapshot, Receive, Leave, Subscribed
<1>5. UNCHANGED <<scenario, requests, engines, probes, gauge, locals, figures>> OBVIOUS
<1> QED BY <1>1, <1>2, <1>3, <1>4, <1>5 DEF requests, engines, probes, locals, figures, Counters

\* The counters are finite when they are booked.
LEMMA BookCounts ==
  ASSUME TypeOK, Book
  PROVE  /\ \A s \in Statuses : read[s] \subseteq Counters(s)
         /\ ReadTotal \subseteq counted /\ ReadErrors \subseteq ReadTotal
         /\ counted \subseteq Requests /\ ReadTotal \subseteq Requests
         /\ IsFiniteSet(ReadTotal) /\ Cardinality(ReadTotal) \in Nat
         /\ Cardinality(ReadErrors) \in Nat
<1>1. \A s \in Statuses : read[s] \subseteq Counters(s) BY DEF TypeOK, Book, SamplerGoes
<1>2. counted \subseteq Requests BY DEF TypeOK
<1>3. ReadTotal \subseteq counted BY <1>1 DEF ReadTotal, Counters
<1>4. ReadErrors \subseteq ReadTotal BY DEF ReadTotal, ReadErrors, Erroneous, Statuses
<1>5. /\ IsFiniteSet(ReadTotal) /\ Cardinality(ReadTotal) \in Nat
      /\ Cardinality(ReadErrors) \in Nat
  BY <1>2, <1>3, <1>4, RequestsAssumption, FS_Subset, FS_CardinalityType
<1> QED BY <1>1, <1>2, <1>3, <1>4, <1>5

LEMMA TypeSampler == ASSUME TypeOK, Sampler PROVE TypeOK'
<1>1. UNCHANGED <<scenario, requests, engines, probes, stream, shown>> BY DEF Sampler
<1>2. SamplerStep BY DEF Sampler
<1>3. /\ sampler' \in {"sleeping", "reading", "updating", "gathering", "booking", "pushing",
                       "building", "sending"}
      /\ gauge' \subseteq Engines /\ seen' \subseteq Engines /\ wasRunning' \subseteq Engines
  <2>1. sampler' \in {"sleeping", "reading", "updating", "gathering", "booking", "pushing",
                     "building", "sending"}
    BY <1>2 DEF SamplerStep, Tick, ReadOffice, Update, Gather, Book, Push, Build, Send,
                SamplerGoes, TypeOK
  <2>2. seen' \subseteq Engines
    BY <1>2, HealthyType
    DEF SamplerStep, Tick, ReadOffice, Update, Gather, Book, Push, Build, Send, TypeOK, Engines
  <2>3. gauge' \subseteq Engines /\ wasRunning' \subseteq Engines
    BY <1>2 DEF SamplerStep, Tick, ReadOffice, Update, Gather, Book, Push, Build, Send, TypeOK,
                figures
  <2> QED BY <2>1, <2>2, <2>3
<1>4. restarts' \in [Engines -> 0..MaxRestarts]
  <2>1. CASE Update
    <3>1. \A e \in Engines : restarts[e] \in 0..MaxRestarts BY DEF TypeOK
    <3>2. \A e \in Engines : restarts[e] < MaxRestarts => restarts[e] + 1 \in 0..MaxRestarts
      BY <3>1, BoundsAssumption
    <3> QED BY <2>1, <3>1, <3>2 DEF Update
  <2>2. CASE ~Update
    BY <1>2, <2>2 DEF SamplerStep, Tick, ReadOffice, Gather, Book, Push, Build, Send, TypeOK,
                      figures
  <2> QED BY <2>1, <2>2
<1>5. DOMAIN read' \subseteq Statuses /\ \A s \in DOMAIN read' : read'[s] \subseteq Counters(s)'
  <2>1. ASSUME NEW s \in Statuses, Gather(s)
        PROVE  DOMAIN read' \subseteq Statuses /\ \A t \in DOMAIN read' : read'[t] \subseteq Counters(t)'
    <3>1. /\ DOMAIN read' = DOMAIN read \cup {s}
          /\ \A t \in DOMAIN read' : read'[t] = IF t = s THEN Counters(s) ELSE read[t]
      BY <2>1 DEF Gather
    <3>2. \A t \in Statuses : Counters(t)' = Counters(t) BY <1>1 DEF Counters, requests
    <3> QED BY <3>1, <3>2 DEF TypeOK
  <2>2. CASE Book BY <2>2 DEF Book, Unread
  <2>3. CASE UNCHANGED read BY <1>1, <2>3 DEF TypeOK, Counters, requests
  <2> QED BY <1>2, <2>1, <2>2, <2>3 DEF SamplerStep, Tick, ReadOffice, Update, Push, Build, Send
<1>6. /\ sampler' = "booking" => DOMAIN read' = Statuses
      /\ sampler' \notin {"gathering", "booking"} => DOMAIN read' = {}
  <2>1. CASE \E s \in Statuses : Gather(s) BY <2>1 DEF Gather
  <2>2. CASE Book BY <2>2 DEF Book, Unread, SamplerGoes
  <2>3. CASE Tick \/ ReadOffice \/ Update \/ Push \/ Build \/ Send
    BY <2>3 DEF Tick, ReadOffice, Update, Push, Build, Send, SamplerGoes, TypeOK
  <2> QED BY <1>2, <2>1, <2>2, <2>3 DEF SamplerStep
<1>7. prevTotal' \in Nat /\ prevErrors' \in Nat /\ sample' \in Samples
  <2>1. CASE Book
    <3>1. /\ ReadTotal \subseteq Requests /\ Cardinality(ReadTotal) \in Nat
          /\ Cardinality(ReadErrors) \in Nat
      BY <2>1, BookCounts
    <3>2. /\ Delta(Cardinality(ReadTotal), prevTotal) \in Nat
          /\ Delta(Cardinality(ReadErrors), prevErrors) \in Nat
      BY <3>1 DEF Delta, TypeOK
    <3> QED BY <2>1, <3>1, <3>2 DEF Book, Samples
  <2>2. CASE Push BY <2>2 DEF Push, NoSample, Samples, TypeOK
  <2>3. CASE UNCHANGED <<prevTotal, prevErrors, sample>> BY <2>3 DEF TypeOK
  <2> QED BY <1>2, <2>1, <2>2, <2>3
          DEF SamplerStep, Tick, ReadOffice, Update, Gather, Build, Send, figures
<1>8. history' \in Seq(Samples) /\ Len(history') <= HistoryCap
  <2>1. CASE Push BY <2>1, PushedType, CapsAssumption DEF Push, TypeOK
  <2>2. CASE UNCHANGED history BY <2>2 DEF TypeOK
  <2> QED BY <1>2, <2>1, <2>2
          DEF SamplerStep, Tick, ReadOffice, Update, Gather, Book, Build, Send, figures
<1>9. payload' \subseteq counted'
  BY <1>1, <1>2 DEF SamplerStep, Tick, ReadOffice, Update, Gather, Book, Push, Build, Send,
                    TypeOK, requests
<1>10. /\ queue' \in [Streams -> Seq(SUBSET Requests)]
       /\ \A s \in Streams : Len(queue'[s]) <= BroadcastCap
       /\ lagged' \subseteq Subscribed'
  <2>1. CASE Send
    <3>1. payload \in SUBSET Requests BY DEF TypeOK
    <3>2. \A s \in Streams : /\ queue[s] \in Seq(SUBSET Requests)
                            /\ Len(queue[s]) <= BroadcastCap
      BY DEF TypeOK
    <3>3. \A s \in Streams : /\ Pushed(queue[s], payload, BroadcastCap) \in Seq(SUBSET Requests)
                            /\ Len(Pushed(queue[s], payload, BroadcastCap)) <= BroadcastCap
      BY <3>1, <3>2, PushedType, CapsAssumption
    <3>4. lagged' \subseteq Subscribed' BY <1>1, <2>1 DEF Send, Subscribed, TypeOK
    <3> QED BY <2>1, <3>2, <3>3, <3>4 DEF Send
  <2>2. CASE UNCHANGED <<queue, lagged>> BY <1>1, <2>2 DEF TypeOK, Subscribed
  <2> QED BY <1>2, <2>1, <2>2
          DEF SamplerStep, Tick, ReadOffice, Update, Gather, Book, Push, Build
<1> QED BY <1>1, <1>3, <1>4, <1>5, <1>6, <1>7, <1>8, <1>9, <1>10
        DEF TypeOK, requests, engines, probes

LEMMA TypeNext == TypeOK /\ [Next]_vars => TypeOK'
<1> SUFFICES ASSUME TypeOK, [Next]_vars PROVE TypeOK' OBVIOUS
<1>1. CASE Next BY <1>1, TypeRequest, TypeEngine, TypeHealth, TypeSampler, TypeStream DEF Next
<1>2. CASE UNCHANGED vars
  BY <1>2 DEF vars, requests, engines, probes, locals, figures, streams, TypeOK, Counters, Subscribed
<1> QED BY <1>1, <1>2

(***************************************************************************)
(* Every variable keeps its type: the rings stay within their caps, what   *)
(* was counted is over, what was read of the counters was counted.         *)
(***************************************************************************)
THEOREM TypeCorrect == Spec => []TypeOK
BY TypeInit, TypeNext, PTL DEF Spec

-----------------------------------------------------------------------------
(* Restarts.                                                               *)

\* A start of LibreOffice that the sampler has not booked yet leaves room
\* between the two counters.
Room ==
  /\ restarts[Office] <= activations[Office]
  /\ \/ Office \in up \ wasRunning
     \/ sampler = "updating" /\ Office \in seen \ wasRunning
     \/ sampler = "updating" /\ Office \in up \ seen
     => restarts[Office] < activations[Office]
  /\ sampler \in {"sleeping", "reading"} => Office \notin seen

LEMMA RoomInit == Init => Room
BY BoundsAssumption DEF Init, Room, Engines

LEMMA RoomNext == ASSUME TypeOK, Room, [Next]_vars PROVE Room'
<1>1. /\ restarts[Office] \in Nat /\ activations[Office] \in Nat /\ Office \in Engines
  BY BoundsAssumption DEF TypeOK, Engines
<1>2. CASE UNCHANGED <<up, activations, restarts, wasRunning, sampler, seen>> BY <1>2 DEF Room
<1>3. ASSUME NEW e \in Engines, Engine(e) PROVE Room'
  <2>1. UNCHANGED <<restarts, wasRunning, sampler, seen>> BY <1>3 DEF Engine, locals, figures
  <2>2. CASE Start(e) /\ e = Office
    <3>1. activations'[Office] = activations[Office] + 1 BY <2>2 DEF Start, TypeOK
    <3> QED BY <1>1, <2>1, <3>1 DEF Room
  <2>3. CASE Start(e) /\ e # Office
    <3>1. activations'[Office] = activations[Office] /\ (Office \in up' <=> Office \in up)
      BY <1>1, <2>3 DEF Start, TypeOK
    <3> QED BY <2>1, <3>1 DEF Room
  <2>4. CASE Stop(e) \/ Wedge(e) BY <2>1, <2>4 DEF Stop, Wedge, Room
  <2> QED BY <1>3, <2>2, <2>3, <2>4 DEF Engine
<1>4. CASE Sampler
  <2>1. UNCHANGED <<up, activations>> BY <1>4 DEF Sampler, engines
  <2>2. CASE Tick
    <3>1. Office \notin seen' BY <2>2, EnginesAssumption DEF Tick, Healthy
    <3> QED BY <2>1, <2>2, <3>1 DEF Tick, SamplerGoes, Room, figures
  <2>3. CASE ReadOffice
    <3>1. /\ Office \in seen' <=> Office \in up
          /\ UNCHANGED <<restarts, wasRunning>> /\ sampler' = "updating"
      BY <2>3 DEF ReadOffice, SamplerGoes, Room, figures
    <3> QED BY <2>1, <3>1 DEF Room
  <2>4. CASE Update
    <3>1. /\ wasRunning' = seen /\ sampler = "updating" /\ sampler' = "gathering"
          /\ seen' = seen
          /\ restarts'[Office] = IF Office \in seen \ wasRunning /\ restarts[Office] < MaxRestarts
                                THEN restarts[Office] + 1 ELSE restarts[Office]
      BY <1>1, <2>4 DEF Update, SamplerGoes
    <3>2. Office \in seen \ wasRunning => restarts[Office] < activations[Office]
      BY <3>1 DEF Room
    <3>3. Office \in up \ seen => restarts[Office] < activations[Office]
      BY <3>1 DEF Room
    <3>4. restarts'[Office] <= activations[Office] BY <1>1, <3>1, <3>2 DEF Room
    <3>5. Office \in up \ wasRunning' => restarts'[Office] < activations[Office]
      BY <3>1, <3>3
    <3> QED BY <2>1, <3>1, <3>4, <3>5 DEF Room
  <2>5. CASE Send BY <2>1, <2>5 DEF Send, SamplerGoes, Room, figures
  <2>6. CASE (\E s \in Statuses : Gather(s)) \/ Book \/ Push \/ Build
    <3>1. UNCHANGED <<restarts, wasRunning, seen>>
      BY <2>6 DEF Gather, Book, Push, Build, figures
    <3>2. sampler' \notin {"updating", "sleeping", "reading"}
      BY <2>6 DEF Gather, Book, Push, Build, SamplerGoes
    <3> QED BY <2>1, <3>1, <3>2 DEF Room
  <2> QED BY <1>4, <2>2, <2>3, <2>4, <2>5, <2>6 DEF Sampler, SamplerStep
<1>5. CASE \/ \E r \in Requests : Request(r)
           \/ \E p \in Probes : Health(p)
           \/ \E s \in Streams : Stream(s)
           \/ UNCHANGED vars
  BY <1>2, <1>5 DEF Request, Health, Stream, Unobserved, vars, engines, locals, figures
<1> QED BY <1>3, <1>4, <1>5 DEF Next

(***************************************************************************)
(* RestartsReal: the sampler never books a restart of LibreOffice that was *)
(* no start of it, whatever /health writes meanwhile.                      *)
(***************************************************************************)
THEOREM RestartsAreReal == Spec => []RestartsReal
<1>1. Init => TypeOK /\ Room BY TypeInit, RoomInit
<1>2. TypeOK /\ Room /\ [Next]_vars => TypeOK' /\ Room' BY TypeNext, RoomNext
<1>3. Room => RestartsReal BY DEF Room, RestartsReal
<1> QED BY <1>1, <1>2, <1>3, PTL DEF Spec

-----------------------------------------------------------------------------
(* Samples.                                                                *)

\* What the totals of the last round cover: the sample that is about to be
\* pushed, or the last one that was.
Covered == IF sampler = "pushing" THEN sample.covers
           ELSE IF history = <<>> THEN {} ELSE history[Len(history)].covers
ErrorsOf(S) == {r \in S : status[r] \in Erroneous}

\* A sample adds up with the requests covered before it.
AddsUp(before, x) ==
  /\ before \subseteq x.covers
  /\ x.requests = Cardinality(x.covers \ before)
  /\ x.errors = Cardinality(ErrorsOf(x.covers \ before))

\* What was booked was counted; what is read anew holds all that was booked.
Booked ==
  /\ \A i \in 1..Len(history) : history[i].covers \subseteq counted
  /\ sampler = "pushing" => sample.covers \subseteq counted
  /\ \A i \in 1..Len(history) - 1 : AddsUp(history[i].covers, history[i + 1])
  /\ sampler = "pushing" /\ history # <<>> => AddsUp(history[Len(history)].covers, sample)
  /\ prevTotal = Cardinality(Covered) /\ prevErrors = Cardinality(ErrorsOf(Covered))
  /\ \A s \in DOMAIN read : {r \in Covered : status[r] = s} \subseteq read[s]

LEMMA AddsUpKept ==
  ASSUME UNCHANGED status, NEW i
  PROVE  AddsUp(history'[i].covers, history'[i + 1])
           => AddsUp(history[i].covers, history[i + 1])'
<1>1. ErrorsOf(history[i + 1].covers \ history[i].covers)'
        = ErrorsOf(history'[i + 1].covers \ history'[i].covers)
  BY DEF ErrorsOf
<1> QED BY <1>1 DEF AddsUp

LEMMA CoveredType == ASSUME TypeOK, Booked PROVE Covered \subseteq counted
<1>1. CASE sampler = "pushing" BY <1>1 DEF Covered, Booked
<1>2. CASE sampler # "pushing" /\ history = <<>> BY <1>2 DEF Covered
<1>3. CASE sampler # "pushing" /\ history # <<>>
  <2>1. Len(history) \in 1..Len(history) BY <1>3 DEF TypeOK
  <2> QED BY <1>3, <2>1 DEF Covered, Booked
<1> QED BY <1>1, <1>2, <1>3

LEMMA BookedInit == Init => Booked
<1> SUFFICES ASSUME Init PROVE Booked OBVIOUS
<1>1. history = <<>> /\ sampler = "sleeping" /\ DOMAIN read = {} /\ prevTotal = 0 /\ prevErrors = 0
  BY DEF Init, Unread
<1>2. Covered = {} /\ ErrorsOf(Covered) = {} BY <1>1 DEF Covered, ErrorsOf
<1> QED BY <1>1, <1>2, FS_EmptySet DEF Booked

\* Nothing but the sampler's booking disturbs it.
LEMMA BookedKept ==
  ASSUME TypeOK, Booked, counted \subseteq counted', \A r \in counted : status'[r] = status[r],
         UNCHANGED <<sample, history, prevTotal, prevErrors, read>>,
         sampler' = "pushing" <=> sampler = "pushing"
  PROVE  Booked'
<1>1. Covered' = Covered BY DEF Covered
<1>2. \A S \in SUBSET counted : ErrorsOf(S)' = ErrorsOf(S) BY DEF ErrorsOf
<1>3. Covered \subseteq counted BY CoveredType
<1>4. ErrorsOf(Covered)' = ErrorsOf(Covered) BY <1>1, <1>2, <1>3 DEF ErrorsOf
<1>5. \A s : {r \in Covered' : status'[r] = s} = {r \in Covered : status[r] = s} BY <1>1, <1>3
<1>6. history' = history /\ sample' = sample OBVIOUS
<1>7. \A i \in 1..Len(history) : history[i].covers \subseteq counted BY DEF Booked
<1>8. \A i \in 1..Len(history) - 1 : AddsUp(history[i].covers, history[i + 1])'
  <2> SUFFICES ASSUME NEW i \in 1..Len(history) - 1
               PROVE  AddsUp(history[i].covers, history[i + 1])'
    BY <1>6
  <2>1. Len(history) \in Nat BY DEF TypeOK
  <2>2. i \in 1..Len(history) /\ i + 1 \in 1..Len(history) BY <2>1
  <2>3. AddsUp(history[i].covers, history[i + 1]) BY DEF Booked
  <2>4. ErrorsOf(history[i + 1].covers \ history[i].covers)'
          = ErrorsOf(history[i + 1].covers \ history[i].covers)
    BY <1>6, <1>7, <2>2 DEF ErrorsOf
  <2> QED BY <1>6, <2>3, <2>4 DEF AddsUp
<1>9. ASSUME sampler = "pushing", history # <<>>
      PROVE  AddsUp(history[Len(history)].covers, sample)'
  <2>1. sample.covers \subseteq counted /\ AddsUp(history[Len(history)].covers, sample)
    BY <1>9 DEF Booked
  <2>2. ErrorsOf(sample.covers \ history[Len(history)].covers)'
          = ErrorsOf(sample.covers \ history[Len(history)].covers)
    BY <1>6, <2>1 DEF ErrorsOf
  <2> QED BY <1>6, <2>1, <2>2 DEF AddsUp
<1>10. \A s \in DOMAIN read' : {r \in Covered : status[r] = s}' \subseteq read'[s]
  <2> SUFFICES ASSUME NEW s \in DOMAIN read PROVE {r \in Covered : status[r] = s}' \subseteq read[s]
    OBVIOUS
  <2>1. {r \in Covered : status[r] = s} \subseteq read[s] BY DEF Booked
  <2> QED BY <1>5, <2>1
<1>11. prevTotal' = Cardinality(Covered') /\ prevErrors' = Cardinality(ErrorsOf(Covered)')
  BY <1>1, <1>4 DEF Booked
<1>12. /\ \A i \in 1..Len(history') : history'[i].covers \subseteq counted'
       /\ sampler' = "pushing" => sample'.covers \subseteq counted'
  BY <1>6, <1>7 DEF Booked
<1> QED BY <1>6, <1>8, <1>9, <1>10, <1>11, <1>12 DEF Booked

\* What a gathering reads holds all that was booked before.
LEMMA BookedGather ==
  ASSUME TypeOK, Booked, NEW s \in Statuses, Gather(s), Sampler PROVE Booked'
<1>1. /\ UNCHANGED <<status, counted, sample, history, prevTotal, prevErrors>>
      /\ sampler # "pushing" /\ sampler' # "pushing"
  BY DEF Gather, Sampler, requests, figures
<1>2. Covered' = Covered /\ ErrorsOf(Covered)' = ErrorsOf(Covered)
  BY <1>1 DEF Covered, ErrorsOf
<1>3. \A t \in DOMAIN read' : {r \in Covered : status[r] = t}' \subseteq read'[t]
  <2>1. \A t \in DOMAIN read' : t \in DOMAIN read \cup {s}
                              /\ read'[t] = IF t = s THEN Counters(s) ELSE read[t]
    BY DEF Gather
  <2>2. {r \in Covered : status[r] = s} \subseteq Counters(s) BY CoveredType DEF Counters
  <2> QED BY <1>1, <1>2, <2>1, <2>2 DEF Booked
<1>4. \A i \in 1..Len(history) - 1 : AddsUp(history[i].covers, history[i + 1])'
  BY <1>1, AddsUpKept DEF Booked
<1> QED BY <1>1, <1>2, <1>3, <1>4 DEF Booked

\* The growth of the total is the size of what is new.
LEMMA Growth ==
  ASSUME NEW B, NEW C, IsFiniteSet(C), B \subseteq C
  PROVE  /\ Delta(Cardinality(C), Cardinality(B)) = Cardinality(C \ B)
         /\ Cardinality(C) \in Nat /\ Cardinality(B) \in Nat
<1>1. IsFiniteSet(B) /\ IsFiniteSet(C \ B) BY FS_Subset
<1>2. Cardinality(C) \in Nat /\ Cardinality(B) \in Nat /\ Cardinality(C \ B) \in Nat
  BY <1>1, FS_CardinalityType
<1>3. Cardinality(C \ B) = Cardinality(C) - Cardinality(C \cap B) BY <1>1, FS_Difference
<1>4. C \cap B = B OBVIOUS
<1> QED BY <1>2, <1>3, <1>4 DEF Delta

LEMMA BookedBook == ASSUME TypeOK, Booked, Book, Sampler PROVE Booked'
<1>1. /\ UNCHANGED <<status, counted, history>> /\ DOMAIN read = Statuses /\ DOMAIN read' = {}
      /\ sampler = "booking" /\ sampler' = "pushing"
  BY DEF Book, Sampler, requests, SamplerGoes, TypeOK, Unread
<1>2. /\ prevTotal' = Cardinality(ReadTotal) /\ prevErrors' = Cardinality(ReadErrors)
      /\ sample' = [requests |-> Delta(Cardinality(ReadTotal), prevTotal),
                    errors |-> Delta(Cardinality(ReadErrors), prevErrors), covers |-> ReadTotal]
  BY DEF Book
<1>3. /\ ReadTotal \subseteq counted /\ IsFiniteSet(ReadTotal) BY BookCounts
<1>4. Covered \subseteq ReadTotal
  <2>1. \A s \in Statuses : {r \in Covered : status[r] = s} \subseteq read[s]
    BY <1>1 DEF Booked
  <2>2. \A r \in Covered : status[r] \in Statuses BY CoveredType DEF TypeOK
  <2> QED BY <2>1, <2>2 DEF ReadTotal
<1>5. ReadErrors = ErrorsOf(ReadTotal)
  <2>1. \A s \in Statuses : read[s] \subseteq Counters(s) BY BookCounts
  <2>2. \A s \in Statuses : \A r \in read[s] : status[r] = s BY <2>1 DEF Counters
  <2>3. Erroneous \subseteq Statuses BY DEF Erroneous, Statuses
  <2> QED BY <2>2, <2>3 DEF ReadErrors, ReadTotal, ErrorsOf
<1>6. Covered' = ReadTotal BY <1>1, <1>2 DEF Covered
<1>7. ErrorsOf(Covered)' = ReadErrors BY <1>1, <1>5, <1>6 DEF ErrorsOf
<1>8. AddsUp(Covered, sample')
  <2>1. Delta(Cardinality(ReadTotal), prevTotal) = Cardinality(ReadTotal \ Covered)
    BY <1>3, <1>4, Growth DEF Booked
  <2>2. /\ ErrorsOf(Covered) \subseteq ErrorsOf(ReadTotal)
        /\ ErrorsOf(ReadTotal) \ ErrorsOf(Covered) = ErrorsOf(ReadTotal \ Covered)
    BY <1>4 DEF ErrorsOf
  <2>3. IsFiniteSet(ErrorsOf(ReadTotal))
    <3>1. ErrorsOf(ReadTotal) \subseteq ReadTotal BY DEF ErrorsOf
    <3> QED BY <1>3, <3>1, FS_Subset
  <2>4. Delta(Cardinality(ReadErrors), prevErrors) = Cardinality(ErrorsOf(ReadTotal \ Covered))
    BY <1>5, <2>2, <2>3, Growth DEF Booked
  <2> QED BY <1>2, <1>4, <2>1, <2>4 DEF AddsUp
<1>9. history # <<>> => AddsUp(history[Len(history)].covers, sample)'
  <2>1. history # <<>> => Covered = history[Len(history)].covers BY <1>1 DEF Covered
  <2>2. history # <<>> => AddsUp(history[Len(history)].covers, sample') BY <1>8, <2>1
  <2> QED BY <1>1, <2>2 DEF AddsUp, ErrorsOf
<1>10. \A i \in 1..Len(history) - 1 : AddsUp(history[i].covers, history[i + 1])'
  BY <1>1, AddsUpKept DEF Booked
<1>11. /\ \A i \in 1..Len(history') : history'[i].covers \subseteq counted'
       /\ sample'.covers \subseteq counted'
  BY <1>1, <1>2, <1>3 DEF Booked
<1> QED BY <1>1, <1>2, <1>6, <1>7, <1>9, <1>10, <1>11 DEF Booked

\* "now" shows entries of the ring and x after them, in their order.
Shows(now, ring, x) ==
  /\ Len(now) \in Nat \ {0} /\ now[Len(now)] = x
  /\ \A i \in 1..Len(now) - 1 :
       \E j \in 1..Len(ring) :
         /\ now[i] = ring[j]
         /\ now[i + 1] = IF j = Len(ring) THEN x ELSE ring[j + 1]
         /\ j # Len(ring) => j \in 1..Len(ring) - 1

LEMMA PushedShows ==
  ASSUME NEW ring \in Seq(Samples), Len(ring) <= HistoryCap, NEW x \in Samples
  PROVE  Shows(Pushed(ring, x, HistoryCap), ring, x)
<1>1. HistoryCap \in Nat \ {0} BY CapsAssumption
<1>2. CASE Len(ring) < HistoryCap
  <2>1. Pushed(ring, x, HistoryCap) = Append(ring, x) BY <1>1, <1>2 DEF Pushed
  <2>2. ASSUME NEW i \in 1..Len(Append(ring, x)) - 1
        PROVE  \E j \in 1..Len(ring) :
                /\ Append(ring, x)[i] = ring[j]
                /\ Append(ring, x)[i + 1] = IF j = Len(ring) THEN x ELSE ring[j + 1]
                /\ j # Len(ring) => j \in 1..Len(ring) - 1
    <3>1. i \in 1..Len(ring) OBVIOUS
    <3> QED BY <3>1
  <2>3. Len(Append(ring, x)) \in Nat \ {0} /\ Append(ring, x)[Len(Append(ring, x))] = x
    OBVIOUS
  <2>4. Shows(Append(ring, x), ring, x) BY <2>2, <2>3 DEF Shows
  <2> QED BY <2>1, <2>4
<1>3. CASE Len(ring) = HistoryCap
  <2> DEFINE rest == Tail(ring)
  <2>1. Pushed(ring, x, HistoryCap) = Append(rest, x) BY <1>1, <1>3 DEF Pushed
  <2>2. /\ rest \in Seq(Samples) /\ Len(rest) = Len(ring) - 1
        /\ \A i \in 1..Len(rest) : rest[i] = ring[i + 1]
    BY <1>1, <1>3
  <2> HIDE DEF rest
  <2>3. ASSUME NEW i \in 1..Len(Append(rest, x)) - 1
        PROVE  \E j \in 1..Len(ring) :
                /\ Append(rest, x)[i] = ring[j]
                /\ Append(rest, x)[i + 1] = IF j = Len(ring) THEN x ELSE ring[j + 1]
                /\ j # Len(ring) => j \in 1..Len(ring) - 1
    <3>1. i \in 1..Len(rest) /\ i + 1 \in 1..Len(ring) BY <2>2
    <3>2. Append(rest, x)[i] = ring[i + 1] BY <2>2, <3>1
    <3>3. Append(rest, x)[i + 1] = IF i + 1 = Len(ring) THEN x ELSE ring[i + 2]
      BY <2>2, <3>1
    <3>4. i + 1 # Len(ring) => i + 1 \in 1..Len(ring) - 1 BY <3>1
    <3> QED BY <3>1, <3>2, <3>3, <3>4
  <2>4. Len(Append(rest, x)) \in Nat \ {0} /\ Append(rest, x)[Len(Append(rest, x))] = x
    BY <2>2
  <2>5. Shows(Append(rest, x), ring, x) BY <2>3, <2>4 DEF Shows
  <2> QED BY <2>1, <2>5
<1>4. Len(ring) < HistoryCap \/ Len(ring) = HistoryCap BY <1>1
<1> QED BY <1>2, <1>3, <1>4

LEMMA BookedPush == ASSUME TypeOK, Booked, Push, Sampler PROVE Booked'
<1>1. /\ UNCHANGED <<status, counted, prevTotal, prevErrors, read>> /\ sampler = "pushing"
      /\ sampler' = "building" /\ history' = Pushed(history, sample, HistoryCap)
      /\ DOMAIN read' = {}
  BY DEF Push, Sampler, requests, SamplerGoes, TypeOK
<1>2. Shows(history', history, sample)
  <2>1. /\ history \in Seq(Samples) /\ Len(history) <= HistoryCap /\ sample \in Samples
        /\ HistoryCap \in Nat \ {0}
    BY CapsAssumption DEF TypeOK
  <2> QED BY <1>1, <2>1, PushedShows
<1>3. \A i \in 1..Len(history') - 1 : AddsUp(history'[i].covers, history'[i + 1])
  <2> SUFFICES ASSUME NEW i \in 1..Len(history') - 1
               PROVE  AddsUp(history'[i].covers, history'[i + 1])
    OBVIOUS
  <2>1. PICK j \in 1..Len(history) :
             /\ history'[i] = history[j]
             /\ history'[i + 1] = IF j = Len(history) THEN sample ELSE history[j + 1]
             /\ j # Len(history) => j \in 1..Len(history) - 1
    BY <1>2 DEF Shows
  <2>2. CASE j = Len(history)
    <3>1. history # <<>> BY DEF TypeOK
    <3>2. AddsUp(history[Len(history)].covers, sample) BY <1>1, <3>1 DEF Booked
    <3> QED BY <2>1, <2>2, <3>2
  <2>3. CASE j # Len(history)
    <3>1. AddsUp(history[j].covers, history[j + 1]) BY <2>1, <2>3 DEF Booked
    <3> QED BY <2>1, <2>3, <3>1
  <2> QED BY <2>2, <2>3
<1>4. \A i \in 1..Len(history') - 1 : AddsUp(history[i].covers, history[i + 1])'
  BY <1>1, <1>3, AddsUpKept
<1>5. history' # <<>> /\ history'[Len(history')] = sample BY <1>2 DEF Shows
<1>6. Covered' = Covered /\ ErrorsOf(Covered)' = ErrorsOf(Covered)
  BY <1>1, <1>5 DEF Covered, ErrorsOf
<1>7. \A i \in 1..Len(history') : history'[i].covers \subseteq counted
  <2>1. \A i \in 1..Len(history') : i = Len(history') \/ i \in 1..Len(history') - 1 BY <1>2 DEF Shows
  <2>2. sample.covers \subseteq counted BY <1>1 DEF Booked
  <2>3. \A j \in 1..Len(history) : history[j].covers \subseteq counted BY DEF Booked
  <2> QED BY <1>2, <2>1, <2>2, <2>3 DEF Shows
<1>8. prevTotal' = Cardinality(Covered') /\ prevErrors' = Cardinality(ErrorsOf(Covered)')
  BY <1>1, <1>6 DEF Booked
<1> QED BY <1>1, <1>4, <1>7, <1>8 DEF Booked

LEMMA BookedNext == ASSUME TypeOK, Booked, [Next]_vars PROVE Booked'
<1>1. ASSUME NEW r \in Requests, Request(r) PROVE Booked'
  <2>1. UNCHANGED <<sample, history, prevTotal, prevErrors, read, sampler>>
    BY <1>1 DEF Request, locals, figures
  <2> QED BY <1>1, <2>1, RequestKeeps, BookedKept
<1>2. CASE \/ \E e \in Engines : Engine(e)
           \/ \E p \in Probes : Health(p)
           \/ \E s \in Streams : Stream(s)
           \/ UNCHANGED vars
  <2>1. UNCHANGED <<status, counted, sample, history, prevTotal, prevErrors, read, sampler>>
    BY <1>2 DEF Engine, Health, Stream, Unobserved, vars, requests, locals, figures
  <2> QED BY <2>1, BookedKept
<1>3. CASE Sampler
  <2>1. ASSUME Tick \/ ReadOffice \/ Update \/ Build \/ Send PROVE Booked'
    <3>1. UNCHANGED <<sample, history, prevTotal, prevErrors, read>>
      BY <2>1 DEF Tick, ReadOffice, Update, Build, Send, figures
    <3>2. sampler # "pushing" /\ sampler' # "pushing"
      BY <2>1 DEF Tick, ReadOffice, Update, Build, Send, SamplerGoes
    <3>3. UNCHANGED <<status, counted>> BY <1>3 DEF Sampler, requests
    <3> QED BY <3>1, <3>2, <3>3, BookedKept
  <2> QED BY <1>3, <2>1, BookedGather, BookedBook, BookedPush DEF Sampler, SamplerStep
<1> QED BY <1>1, <1>2, <1>3 DEF Next

(***************************************************************************)
(* SamplesAddUp: each sample accounts for exactly the requests counted     *)
(* since the one before it, and for their errors, wherever the counting    *)
(* falls between the reads, for every length of the history.               *)
(***************************************************************************)
THEOREM SamplesDoAddUp == Spec => []SamplesAddUp
<1>1. Init => TypeOK /\ Booked BY TypeInit, BookedInit
<1>2. TypeOK /\ Booked /\ [Next]_vars => TypeOK' /\ Booked' BY TypeNext, BookedNext
<1>3. TypeOK /\ Booked => SamplesAddUp BY DEF Booked, AddsUp, ErrorsOf, SamplesAddUp
<1> QED BY <1>1, <1>2, <1>3, PTL DEF Spec
=============================================================================
