--------------------------- MODULE LokEngineProofs ---------------------------
(* Theorems about LokEngine, for every value of its constants.              *)
EXTENDS LokEngine, FiniteSetTheorems, TLAPS

\* Replacing one request by another keeps the length of a channel, and every
\* other request where it is.
LEMMA ReplaceFacts ==
  ASSUME NEW s \in Seq(Requests), NEW c, NEW r \in Requests
  PROVE  /\ ReplaceBy(s, c, r) \in Seq(Requests)
         /\ Len(ReplaceBy(s, c, r)) = Len(s)
         /\ \A i \in 1 .. Len(s) :
              ReplaceBy(s, c, r)[i] = IF s[i] = c THEN r ELSE s[i]
<1>1. DOMAIN s = 1 .. Len(s) /\ Len(s) \in Nat
  OBVIOUS
<1>2. \A i \in 1 .. Len(s) : (IF s[i] = c THEN r ELSE s[i]) \in Requests
  OBVIOUS
<1>3. ReplaceBy(s, c, r) = [i \in 1 .. Len(s) |-> IF s[i] = c THEN r ELSE s[i]]
  BY <1>1 DEF ReplaceBy
<1>4. ReplaceBy(s, c, r) \in [1 .. Len(s) -> Requests]
  BY <1>2, <1>3
<1>5. ReplaceBy(s, c, r) \in Seq(Requests)
  BY <1>1, <1>4
<1>6. DOMAIN ReplaceBy(s, c, r) = 1 .. Len(s)
  BY <1>3
<1>7. Len(ReplaceBy(s, c, r)) = Len(s)
  BY <1>1, <1>5, <1>6
<1> QED BY <1>3, <1>5, <1>7

\* A caller that gives up leaves every channel as long as it was.
LEMMA ForgetTypes ==
  ASSUME TypeOK, NEW c \in Callers, Forget(c)
  PROVE  /\ queue' \in [Workers -> Seq(Requests)]
         /\ \A w \in Workers : Len(queue[w])' <= QueueCap
         /\ current' \in [Workers -> Requests \cup {NoCaller}]
<1>1. /\ queue \in [Workers -> Seq(Requests)]
      /\ current \in [Workers -> Requests \cup {NoCaller}]
      /\ \A w \in Workers : Len(queue[w]) <= QueueCap
  BY DEF TypeOK
<1>2. Abandoned \in Requests
  BY DEF Requests
<1>3. ASSUME NEW w \in Workers
      PROVE  /\ ReplaceBy(queue[w], c, Abandoned) \in Seq(Requests)
             /\ Len(ReplaceBy(queue[w], c, Abandoned)) <= QueueCap
  <2>1. queue[w] \in Seq(Requests) /\ Len(queue[w]) <= QueueCap
    BY <1>1
  <2> QED BY <1>2, <2>1, ReplaceFacts
<1> QED BY <1>1, <1>2, <1>3 DEF Forget

\* Type correctness of the engine: no channel outgrows its capacity, whatever
\* callers, worker threads, shutdown() and the watcher do.
THEOREM TypeCorrect == Spec => []TypeOK
<1>1. Init => TypeOK
  <2> SUFFICES ASSUME Init PROVE TypeOK
    OBVIOUS
  <2>1. PICK w \in Workers :
          /\ tx = IF lazy THEN NoWorker ELSE w
          /\ handle = tx
          /\ worker = [v \in Workers |-> IF v = tx THEN "ready" ELSE "none"]
    BY DEF Init
  <2>2. \A v \in Workers : (IF v = tx THEN "ready" ELSE "none") \in WorkerPC
    BY DEF WorkerPC
  <2>3. queue \in [Workers -> Seq(Requests)] /\ \A v \in Workers : Len(queue[v]) = 0
    BY DEF Init
  <2> QED BY <2>1, <2>2, <2>3, LazyAssumption, QueueCapAssumption
          DEF Init, TypeOK, CallerPC, ClosingPC
<1>2. TypeOK /\ [Next]_vars => TypeOK'
  <2> SUFFICES ASSUME TypeOK, [Next]_vars PROVE TypeOK'
    OBVIOUS
  <2>0. /\ caller \in [Callers -> CallerPC]
        /\ started \in [Callers -> Workers \cup {NoWorker}]
        /\ worker \in [Workers -> WorkerPC]
        /\ queue \in [Workers -> Seq(Requests)]
        /\ \A w \in Workers : Len(queue[w]) <= QueueCap
        /\ current \in [Workers -> Requests \cup {NoCaller}]
        /\ QueueCap \in Nat
    BY QueueCapAssumption DEF TypeOK
  <2> USE DEF callerVars, workerVars, coreVars, closingVars, CallerGoes, WorkerGoes
  <2>1. ASSUME NEW c \in Callers,
               ConvertStart(c) \/ InitFound(c) \/ InitSpawnFails(c) \/ CheckHealthy(c)
        PROVE  TypeOK'
    BY <2>1 DEF ConvertStart, InitFound, InitSpawnFails, CheckHealthy, TypeOK, CallerPC
  <2>2. ASSUME NEW c \in Callers, InitSpawn(c)
        PROVE  TypeOK'
    BY <2>2 DEF InitSpawn, TypeOK, CallerPC, WorkerPC
  <2>3. ASSUME NEW c \in Callers,
               InitCommitTx(c) \/ InitCommitHandle(c) \/ InitGivesUp(c) \/ MarkUnhealthy(c)
        PROVE  TypeOK'
    BY <2>3 DEF InitCommitTx, InitCommitHandle, InitGivesUp, MarkUnhealthy, TypeOK, CallerPC
  <2>4. ASSUME NEW c \in Callers, SendRequest(c)
        PROVE  TypeOK'
    <3>1. caller' \in [Callers -> CallerPC]
      BY <2>0, <2>4 DEF SendRequest, CallerPC
    <3>2. queue' \in [Workers -> Seq(Requests)] /\ \A w \in Workers : Len(queue'[w]) <= QueueCap
      <4>1. CASE UNCHANGED queue
        BY <2>0, <4>1
      <4>2. CASE /\ tx # NoWorker /\ Len(queue[tx]) < QueueCap
                 /\ queue' = [queue EXCEPT ![tx] = Append(@, c)]
        <5>1. tx \in Workers /\ c \in Requests
          BY <4>2 DEF TypeOK, Requests
        <5>2. /\ Append(queue[tx], c) \in Seq(Requests)
              /\ Len(Append(queue[tx], c)) = Len(queue[tx]) + 1
              /\ Len(queue[tx]) \in Nat
          BY <2>0, <5>1
        <5> QED BY <2>0, <4>2, <5>1, <5>2
      <4> QED BY <2>4, <4>1, <4>2 DEF SendRequest
    <3> QED BY <2>4, <3>1, <3>2 DEF SendRequest, TypeOK
  <2>5. ASSUME NEW c \in Callers, ReplyTimesOut(c) \/ ConvertDropped(c)
        PROVE  TypeOK'
    <3>1. Forget(c)
      BY <2>5 DEF ReplyTimesOut, ConvertDropped
    <3>2. caller' \in [Callers -> CallerPC]
      BY <2>0, <2>5 DEF ReplyTimesOut, ConvertDropped, CallerPC
    <3> QED BY <2>5, <3>1, <3>2, ForgetTypes DEF ReplyTimesOut, ConvertDropped, TypeOK
  <2>6. ASSUME NEW w \in Workers,
               WorkerOpens(w) \/ WorkerAnnounces(w) \/ WorkerConverts(w) \/
               WorkerLeaves(w) \/ WorkerExits(w)
        PROVE  TypeOK'
    BY <2>6 DEF WorkerOpens, WorkerAnnounces, WorkerConverts, WorkerLeaves, WorkerExits,
                TypeOK, WorkerPC
  <2>7. ASSUME NEW w \in Workers, WorkerTakes(w)
        PROVE  TypeOK'
    <3>1. /\ Head(queue[w]) \in Requests
          /\ Tail(queue[w]) \in Seq(Requests)
          /\ Len(Tail(queue[w])) = Len(queue[w]) - 1
          /\ Len(queue[w]) \in Nat
      BY <2>0, <2>7 DEF WorkerTakes
    <3>2. current' \in [Workers -> Requests \cup {NoCaller}]
      BY <2>0, <2>7, <3>1 DEF WorkerTakes
    <3>3. queue' \in [Workers -> Seq(Requests)] /\ \A v \in Workers : Len(queue'[v]) <= QueueCap
      BY <2>0, <2>7, <3>1 DEF WorkerTakes
    <3> QED BY <2>7, <3>2, <3>3 DEF WorkerTakes, TypeOK, WorkerPC
  <2>8. ASSUME NEW w \in Workers, WorkerReplies(w)
        PROVE  TypeOK'
    <3>1. caller' \in [Callers -> CallerPC]
      BY <2>0, <2>8 DEF WorkerReplies, CallerPC
    <3> QED BY <2>8, <3>1 DEF WorkerReplies, TypeOK, WorkerPC
  <2>9. ASSUME NEW w \in Workers, WorkerPanics(w)
        PROVE  TypeOK'
    <3>1. caller' \in [Callers -> CallerPC]
      <4>1. "marking" \in CallerPC
        BY DEF CallerPC
      <4> QED BY <2>0, <2>9, <4>1 DEF WorkerPanics
    <3>2. queue' \in [Workers -> Seq(Requests)] /\ \A v \in Workers : Len(queue'[v]) <= QueueCap
      <4>1. <<>> \in Seq(Requests) /\ Len(<<>>) = 0
        OBVIOUS
      <4> QED BY <2>0, <2>9, <4>1 DEF WorkerPanics
    <3> QED BY <2>9, <3>1, <3>2 DEF WorkerPanics, TypeOK, WorkerPC
  <2>10. ASSUME ShutdownBegin \/ ShutdownStep \/ EngineDropped
         PROVE  TypeOK'
    <3> DEFINE Ends == Workers \cup {NoWorker}
    <3>1. joining \in [tx : Ends, handle : Ends] /\ tx \in Ends /\ handle \in Ends
      BY DEF TypeOK
    <3>2. joining' \in [tx : Ends, handle : Ends]
      BY <2>10, <3>1 DEF ShutdownBegin, ShutdownStep, ShutdownTakesTx, ShutdownTakesHandle,
                         ShutdownJoined, ShutdownGivesUp, ShutdownEnds, EngineDropped
    <3>3. tx' \in Ends /\ handle' \in Ends
      BY <2>10, <3>1 DEF ShutdownBegin, ShutdownStep, ShutdownTakesTx, ShutdownTakesHandle,
                         ShutdownJoined, ShutdownGivesUp, ShutdownEnds, EngineDropped
    <3>4. closing' \in ClosingPC /\ healthy' \in BOOLEAN
      BY <2>10 DEF ShutdownBegin, ShutdownStep, ShutdownTakesTx, ShutdownTakesHandle,
                   ShutdownJoined, ShutdownGivesUp, ShutdownEnds, EngineDropped, TypeOK,
                   ClosingPC
    <3>5. UNCHANGED <<lazy, initLock, office, activity, callerVars, workerVars, watcher>>
      BY <2>10 DEF ShutdownBegin, ShutdownStep, ShutdownTakesTx, ShutdownTakesHandle,
                   ShutdownJoined, ShutdownGivesUp, ShutdownEnds, EngineDropped
    <3> QED BY <3>2, <3>3, <3>4, <3>5 DEF TypeOK
  <2>11. ASSUME TimePasses \/ WatcherLooks \/ WatcherExits
         PROVE  TypeOK'
    BY <2>11 DEF TimePasses, WatcherLooks, WatcherExits, TypeOK
  <2>12. CASE UNCHANGED vars
    BY <2>12 DEF vars, TypeOK
  <2> QED BY <2>1, <2>2, <2>3, <2>4, <2>5, <2>6, <2>7, <2>8, <2>9, <2>10, <2>11, <2>12
          DEF Next, CallerStep, WorkerStep
<1> QED BY <1>1, <1>2, PTL DEF Spec

-----------------------------------------------------------------------------
(* The inductive invariant, in parts.                                      *)

\* init_lock is held exactly while a start is under way; until its sender is
\* committed nobody can send.
LockInv ==
  /\ \A c \in Callers : initLock = c <=> caller[c] \in {"starting", "committing"}
  /\ \A c \in Callers : initLock = c => started[c] \in Workers
  /\ \A c \in Callers : caller[c] = "starting" => tx = NoWorker

Serving == {"ready", "converting", "replying"}

\* A worker that has got past Office::new has opened the process's only Office.
OfficeInv ==
  /\ \A w \in Workers :
       worker[w] \in Serving \cup {"announcing", "leaving", "panicked"} => office
  /\ tx # NoWorker => office

\* Requests are only where a worker serves them.
ServeInv ==
  /\ \A w \in Workers : tx = w => worker[w] \in Serving \cup {"panicked"}
  /\ \A c \in Callers, w \in Workers :
       caller[c] = "starting" /\ started[c] = w =>
         worker[w] \in {"opening", "announcing", "ready", "failed"} /\ queue[w] = <<>>
  /\ \A w \in Workers : worker[w] \notin Serving => queue[w] = <<>>
  /\ \A w \in Workers : current[w] # NoCaller <=> worker[w] \in {"converting", "replying"}

\* The request of c is at work at w (0) or at position i of its channel.
At(c, w, i) ==
  IF i = 0 THEN current[w] = c ELSE i \in 1 .. Len(queue[w]) /\ queue[w][i] = c

\* Callers that wait and requests in the system belong to each other, one to one.
PlaceInv ==
  /\ \A c \in Callers, w \in Workers, i \in Nat : At(c, w, i) => caller[c] = "waiting"
  /\ \A c \in Callers : caller[c] = "waiting" => \E w \in Workers, i \in Nat : At(c, w, i)
  /\ \A c \in Callers, v, w \in Workers, i, j \in Nat :
       At(c, v, i) /\ At(c, w, j) => v = w /\ i = j

IInv == TypeOK /\ LockInv /\ OfficeInv /\ ServeInv /\ PlaceInv

\* An answer, and a panic, reach only callers that wait.
LEMMA OnlyWaiting ==
  ASSUME IInv, NEW w \in Workers, NEW c \in Callers
  PROVE  /\ current[w] = c => caller[c] = "waiting"
         /\ \A i \in DOMAIN queue[w] : queue[w][i] = c => caller[c] = "waiting"
<1>1. queue[w] \in Seq(Requests)
  BY DEF IInv, TypeOK
<1>2. DOMAIN queue[w] = 1 .. Len(queue[w]) /\ Len(queue[w]) \in Nat
  BY <1>1
<1>3. At(c, w, 0) <=> current[w] = c
  BY DEF At
<1>4. \A i \in 1 .. Len(queue[w]) : At(c, w, i) <=> queue[w][i] = c
  BY DEF At
<1>5. \A i \in Nat : At(c, w, i) => caller[c] = "waiting"
  BY DEF IInv, PlaceInv
<1> QED BY <1>2, <1>3, <1>4, <1>5

\* LockInv is preserved.
LEMMA LockNext == IInv /\ [Next]_vars => LockInv'
<1> SUFFICES ASSUME IInv, [Next]_vars PROVE LockInv'
  OBVIOUS
<1>0. /\ caller \in [Callers -> CallerPC]
      /\ started \in [Callers -> Workers \cup {NoWorker}]
      /\ initLock \in Callers \cup {NoCaller}
      /\ NoCaller \notin Callers
  BY CallersAssumption DEF IInv, TypeOK
<1> USE DEF callerVars, workerVars, coreVars, closingVars, CallerGoes, WorkerGoes
<1>1. ASSUME NEW c \in Callers,
             \/ ConvertStart(c) \/ InitFound(c) \/ InitSpawnFails(c) \/ CheckHealthy(c)
             \/ SendRequest(c) \/ ReplyTimesOut(c) \/ MarkUnhealthy(c) \/ ConvertDropped(c)
      PROVE  LockInv'
  <2>1. /\ caller[c] \notin {"starting", "committing"}
        /\ \E pc \in {"locking", "checking", "idle", "sending", "marking", "waiting"} :
             caller' = [caller EXCEPT ![c] = pc]
        /\ UNCHANGED <<initLock, started, tx>>
    BY <1>1 DEF ConvertStart, InitFound, InitSpawnFails, CheckHealthy, SendRequest,
                ReplyTimesOut, MarkUnhealthy, ConvertDropped
  <2> QED BY <1>0, <2>1 DEF IInv, LockInv
<1>2. ASSUME NEW c \in Callers, InitSpawn(c)
      PROVE  LockInv'
  BY <1>0, <1>2 DEF InitSpawn, IInv, LockInv
<1>3. ASSUME NEW c \in Callers, InitCommitTx(c) \/ InitCommitHandle(c) \/ InitGivesUp(c)
      PROVE  LockInv'
  BY <1>0, <1>3 DEF InitCommitTx, InitCommitHandle, InitGivesUp, IInv, LockInv
<1>4. ASSUME NEW w \in Workers, WorkerReplies(w) \/ WorkerPanics(w)
      PROVE  LockInv'
  <2>1. \A c \in Callers :
          caller'[c] = caller[c] \/ (caller[c] = "waiting" /\ caller'[c] \in {"idle", "marking"})
    BY <1>0, <1>4, OnlyWaiting DEF WorkerReplies, WorkerPanics
  <2>2. UNCHANGED <<initLock, started, tx>>
    BY <1>4 DEF WorkerReplies, WorkerPanics
  <2> QED BY <1>0, <2>1, <2>2 DEF IInv, LockInv
<1>5. ASSUME NEW w \in Workers,
             \/ WorkerOpens(w) \/ WorkerAnnounces(w) \/ WorkerTakes(w) \/ WorkerConverts(w)
             \/ WorkerLeaves(w) \/ WorkerExits(w)
      PROVE  LockInv'
  BY <1>5 DEF WorkerOpens, WorkerAnnounces, WorkerTakes, WorkerConverts, WorkerLeaves,
              WorkerExits, IInv, LockInv
<1>6. ASSUME ShutdownBegin \/ ShutdownStep \/ EngineDropped
      PROVE  LockInv'
  <2>1. tx' \in {tx, NoWorker} /\ UNCHANGED <<initLock, caller, started>>
    BY <1>6 DEF ShutdownBegin, ShutdownStep, ShutdownTakesTx, ShutdownTakesHandle,
                ShutdownJoined, ShutdownGivesUp, EngineDropped
  <2> QED BY <2>1 DEF IInv, LockInv
<1>7. ASSUME TimePasses \/ WatcherLooks \/ WatcherExits \/ UNCHANGED vars
      PROVE  LockInv'
  BY <1>7 DEF TimePasses, WatcherLooks, WatcherExits, vars, IInv, LockInv
<1> QED BY <1>1, <1>2, <1>3, <1>4, <1>5, <1>6, <1>7 DEF Next, CallerStep, WorkerStep

\* OfficeInv is preserved.
LEMMA OfficeNext == IInv /\ [Next]_vars => OfficeInv'
<1> SUFFICES ASSUME IInv, [Next]_vars PROVE OfficeInv'
  OBVIOUS
<1>0. worker \in [Workers -> WorkerPC] /\ NoWorker \notin Workers
  BY WorkersAssumption DEF IInv, TypeOK
<1> USE DEF callerVars, workerVars, coreVars, closingVars, CallerGoes, WorkerGoes, Serving
<1>1. ASSUME NEW c \in Callers,
             \/ ConvertStart(c) \/ InitFound(c) \/ InitSpawnFails(c) \/ CheckHealthy(c)
             \/ SendRequest(c) \/ ReplyTimesOut(c) \/ MarkUnhealthy(c) \/ ConvertDropped(c)
             \/ InitCommitHandle(c) \/ InitGivesUp(c)
      PROVE  OfficeInv'
  <2>1. UNCHANGED <<worker, office, tx>>
    BY <1>1 DEF ConvertStart, InitFound, InitSpawnFails, CheckHealthy, SendRequest,
                ReplyTimesOut, MarkUnhealthy, ConvertDropped, InitCommitHandle, InitGivesUp
  <2> QED BY <2>1 DEF IInv, OfficeInv
<1>2. ASSUME NEW c \in Callers, InitSpawn(c)
      PROVE  OfficeInv'
  BY <1>0, <1>2 DEF InitSpawn, IInv, OfficeInv
<1>3. ASSUME NEW c \in Callers, InitCommitTx(c)
      PROVE  OfficeInv'
  <2>1. started[c] \in Workers
    BY <1>3 DEF InitCommitTx, IInv, LockInv
  <2> QED BY <1>3, <2>1 DEF InitCommitTx, IInv, OfficeInv
<1>4. ASSUME NEW w \in Workers, WorkerOpens(w)
      PROVE  OfficeInv'
  BY <1>0, <1>4 DEF WorkerOpens, IInv, OfficeInv
<1>5. ASSUME NEW w \in Workers,
             \/ WorkerAnnounces(w) \/ WorkerTakes(w) \/ WorkerConverts(w)
             \/ WorkerReplies(w) \/ WorkerPanics(w) \/ WorkerLeaves(w) \/ WorkerExits(w)
      PROVE  OfficeInv'
  <2>1. /\ worker[w] \in Serving \cup {"announcing", "leaving"}
        /\ \E pc \in WorkerPC : worker' = [worker EXCEPT ![w] = pc]
        /\ UNCHANGED <<office, tx>>
    BY <1>5 DEF WorkerAnnounces, WorkerTakes, WorkerConverts, WorkerReplies, WorkerPanics,
                WorkerLeaves, WorkerExits, WorkerPC
  <2> QED BY <1>0, <2>1 DEF IInv, OfficeInv
<1>6. ASSUME \/ ShutdownBegin \/ ShutdownStep \/ EngineDropped
             \/ TimePasses \/ WatcherLooks \/ WatcherExits \/ UNCHANGED vars
      PROVE  OfficeInv'
  <2>1. tx' \in {tx, NoWorker} /\ UNCHANGED <<worker, office>>
    BY <1>6 DEF ShutdownBegin, ShutdownStep, ShutdownTakesTx, ShutdownTakesHandle,
                ShutdownJoined, ShutdownGivesUp, EngineDropped, TimePasses, WatcherLooks,
                WatcherExits, vars
  <2> QED BY <2>1 DEF IInv, OfficeInv
<1> QED BY <1>1, <1>2, <1>3, <1>4, <1>5, <1>6 DEF Next, CallerStep, WorkerStep

\* A caller that gives up leaves every channel as long as it was, every worker at
\* work or not as it was, and nothing of its own in the system.
LEMMA ForgetFacts ==
  ASSUME IInv, NEW c \in Callers, Forget(c)
  PROVE  /\ \A w \in Workers : queue'[w] = <<>> <=> queue[w] = <<>>
         /\ \A w \in Workers : current'[w] = NoCaller <=> current[w] = NoCaller
         /\ \A w \in Workers, i \in Nat : ~At(c, w, i)'
         /\ \A d \in Callers \ {c}, w \in Workers, i \in Nat : At(d, w, i)' <=> At(d, w, i)
<1>1. /\ queue \in [Workers -> Seq(Requests)]
      /\ current \in [Workers -> Requests \cup {NoCaller}]
      /\ Abandoned \in Requests /\ Abandoned \notin Callers /\ NoCaller \notin Requests
  BY CallersAssumption DEF IInv, TypeOK, Requests
<1>2. SUFFICES ASSUME NEW w \in Workers
               PROVE  /\ queue'[w] = <<>> <=> queue[w] = <<>>
                      /\ current'[w] = NoCaller <=> current[w] = NoCaller
                      /\ \A i \in Nat : ~At(c, w, i)'
                      /\ \A d \in Callers \ {c}, i \in Nat : At(d, w, i)' <=> At(d, w, i)
  OBVIOUS
<1>3. current'[w] = IF current[w] = c THEN Abandoned ELSE current[w]
  BY DEF Forget
<1>4. /\ queue[w] \in Seq(Requests) /\ queue'[w] \in Seq(Requests)
      /\ Len(queue'[w]) = Len(queue[w])
      /\ \A i \in 1 .. Len(queue[w]) :
           queue'[w][i] = IF queue[w][i] = c THEN Abandoned ELSE queue[w][i]
  BY <1>1, ReplaceFacts DEF Forget
<1>5. queue'[w] = <<>> <=> queue[w] = <<>>
  BY <1>4
<1>6. c # NoCaller /\ c # Abandoned
  BY <1>1, CallersAssumption
<1>7. ASSUME NEW i \in Nat PROVE ~At(c, w, i)'
  BY <1>3, <1>4, <1>6 DEF At
<1>8. ASSUME NEW d \in Callers \ {c}, NEW i \in Nat PROVE At(d, w, i)' <=> At(d, w, i)
  <2>1. d # Abandoned
    BY <1>1
  <2> QED BY <1>3, <1>4, <2>1 DEF At
<1> QED BY <1>1, <1>3, <1>5, <1>6, <1>7, <1>8

\* ServeInv is preserved.
LEMMA ServeNext == IInv /\ [Next]_vars => ServeInv'
<1> SUFFICES ASSUME IInv, [Next]_vars PROVE ServeInv'
  OBVIOUS
<1>0. /\ caller \in [Callers -> CallerPC]
      /\ started \in [Callers -> Workers \cup {NoWorker}]
      /\ worker \in [Workers -> WorkerPC]
      /\ queue \in [Workers -> Seq(Requests)]
      /\ current \in [Workers -> Requests \cup {NoCaller}]
      /\ NoWorker \notin Workers /\ NoCaller \notin Requests
      /\ tx \in Workers \cup {NoWorker}
      /\ ServeInv
  BY WorkersAssumption, CallersAssumption DEF IInv, TypeOK, Requests
<1> USE DEF callerVars, workerVars, coreVars, closingVars, CallerGoes, WorkerGoes, Serving
<1>1. ASSUME NEW c \in Callers,
             \/ ConvertStart(c) \/ InitFound(c) \/ InitSpawnFails(c) \/ CheckHealthy(c)
             \/ InitCommitHandle(c) \/ InitGivesUp(c) \/ MarkUnhealthy(c)
      PROVE  ServeInv'
  <2>1. /\ caller'[c] # "starting"
        /\ \A d \in Callers \ {c} : caller'[d] = caller[d] /\ started'[d] = started[d]
        /\ UNCHANGED <<worker, queue, current, tx>>
    BY <1>0, <1>1 DEF ConvertStart, InitFound, InitSpawnFails, CheckHealthy,
                      InitCommitHandle, InitGivesUp, MarkUnhealthy
  <2> QED BY <1>0, <2>1 DEF ServeInv
<1>2. ASSUME NEW c \in Callers, InitSpawn(c)
      PROVE  ServeInv'
  <2>1. PICK w \in Workers :
          /\ Spawnable(w)
          /\ worker' = [worker EXCEPT ![w] = "opening"]
          /\ started' = [started EXCEPT ![c] = w]
    BY <1>2 DEF InitSpawn
  <2>2. worker[w] \in {"none", "exited", "failed"} /\ queue[w] = <<>> /\ current[w] = NoCaller
    BY <1>0, <2>1 DEF Spawnable, ServeInv
  <2>3. \A d \in Callers : caller[d] # "starting"
    BY <1>2, CallersAssumption DEF InitSpawn, IInv, LockInv
  <2>4. tx = NoWorker /\ UNCHANGED <<tx, queue, current>>
    BY <1>2 DEF InitSpawn
  <2>5. \A d \in Callers : caller'[d] = "starting" => d = c /\ started'[d] = w
    BY <1>0, <1>2, <2>1, <2>3 DEF InitSpawn
  <2> QED BY <1>0, <2>1, <2>2, <2>4, <2>5 DEF ServeInv
<1>3. ASSUME NEW c \in Callers, InitCommitTx(c)
      PROVE  ServeInv'
  <2>1. /\ caller'[c] # "starting"
        /\ \A d \in Callers \ {c} : caller'[d] = caller[d]
        /\ UNCHANGED <<worker, queue, current, started>>
        /\ tx' = started[c] /\ worker[started[c]] = "ready"
    BY <1>0, <1>3 DEF InitCommitTx
  <2> QED BY <1>0, <2>1 DEF ServeInv
<1>4. ASSUME NEW c \in Callers, SendRequest(c)
      PROVE  ServeInv'
  <2>1. /\ caller'[c] # "starting"
        /\ \A d \in Callers \ {c} : caller'[d] = caller[d]
        /\ UNCHANGED <<worker, current, started, tx>>
    BY <1>0, <1>4 DEF SendRequest
  <2>2. \/ UNCHANGED queue
        \/ /\ tx # NoWorker /\ worker[tx] \notin WorkerGone
           /\ queue' = [queue EXCEPT ![tx] = Append(@, c)]
    BY <1>4 DEF SendRequest
  <2>3. CASE UNCHANGED queue
    BY <1>0, <2>1, <2>3 DEF ServeInv
  <2>4. CASE /\ tx # NoWorker /\ worker[tx] \notin WorkerGone
             /\ queue' = [queue EXCEPT ![tx] = Append(@, c)]
    <3>1. worker[tx] \in Serving /\ \A d \in Callers : caller[d] # "starting"
      BY <1>0, <2>4 DEF ServeInv, WorkerGone, IInv, LockInv
    <3>2. \A w \in Workers \ {tx} : queue'[w] = queue[w]
      BY <1>0, <2>4
    <3> QED BY <1>0, <2>1, <3>1, <3>2 DEF ServeInv
  <2> QED BY <2>2, <2>3, <2>4
<1>5. ASSUME NEW c \in Callers, ReplyTimesOut(c) \/ ConvertDropped(c)
      PROVE  ServeInv'
  <2>1. /\ Forget(c)
        /\ caller'[c] # "starting"
        /\ \A d \in Callers \ {c} : caller'[d] = caller[d]
        /\ UNCHANGED <<worker, started, tx>>
    BY <1>0, <1>5 DEF ReplyTimesOut, ConvertDropped
  <2> QED BY <1>0, <2>1, ForgetFacts DEF ServeInv
<1>6. ASSUME NEW w \in Workers,
             WorkerOpens(w) \/ WorkerAnnounces(w) \/ WorkerConverts(w) \/ WorkerExits(w)
      PROVE  ServeInv'
  <2>1. UNCHANGED <<caller, started, queue, current, tx>>
    BY <1>6 DEF WorkerOpens, WorkerAnnounces, WorkerConverts, WorkerExits
  <2>2. ASSUME NEW from \in {"opening", "announcing"},
               NEW to \in {"announcing", "failed", "ready"},
               worker[w] = from, worker' = [worker EXCEPT ![w] = to]
        PROVE  ServeInv'
    BY <1>0, <2>1, <2>2 DEF ServeInv
  <2>3. CASE worker[w] = "converting" /\ worker' = [worker EXCEPT ![w] = "replying"]
    BY <1>0, <2>1, <2>3 DEF ServeInv
  <2>4. CASE worker[w] = "leaving" /\ worker' = [worker EXCEPT ![w] = "exited"]
    BY <1>0, <2>1, <2>4 DEF ServeInv
  <2> QED BY <1>6, <2>2, <2>3, <2>4
          DEF WorkerOpens, WorkerAnnounces, WorkerConverts, WorkerExits
<1>7. ASSUME NEW w \in Workers, WorkerTakes(w)
      PROVE  ServeInv'
  <2>1. Head(queue[w]) \in Requests /\ queue[w] # <<>> /\ worker[w] = "ready"
    BY <1>0, <1>7 DEF WorkerTakes
  <2>2. /\ worker' = [worker EXCEPT ![w] = "converting"]
        /\ current' = [current EXCEPT ![w] = Head(queue[w])]
        /\ \A v \in Workers \ {w} : queue'[v] = queue[v]
        /\ UNCHANGED <<caller, started, tx>>
    BY <1>0, <1>7 DEF WorkerTakes
  <2> QED BY <1>0, <2>1, <2>2 DEF ServeInv
<1>8. ASSUME NEW w \in Workers, WorkerReplies(w) \/ WorkerPanics(w)
      PROVE  ServeInv'
  <2>1. \A c \in Callers : caller'[c] = "starting" => caller[c] = "starting"
    BY <1>0, <1>8 DEF WorkerReplies, WorkerPanics
  <2>2. /\ worker[w] \in {"replying", "converting"}
        /\ current' = [current EXCEPT ![w] = NoCaller]
        /\ UNCHANGED <<started, tx>>
    BY <1>8 DEF WorkerReplies, WorkerPanics
  <2>3. \A c \in Callers : ~(caller[c] = "starting" /\ started[c] = w)
    BY <1>0, <2>2 DEF ServeInv
  <2>4. CASE worker' = [worker EXCEPT ![w] = "ready"] /\ queue' = queue
    BY <1>0, <2>1, <2>2, <2>3, <2>4 DEF ServeInv
  <2>5. CASE worker' = [worker EXCEPT ![w] = "panicked"] /\ queue' = [queue EXCEPT ![w] = <<>>]
    <3>1. queue'[w] = <<>> /\ \A v \in Workers \ {w} : queue'[v] = queue[v]
      BY <1>0, <2>5
    <3>2. worker'[w] = "panicked" /\ \A v \in Workers \ {w} : worker'[v] = worker[v]
      BY <1>0, <2>5
    <3>3. current'[w] = NoCaller /\ \A v \in Workers \ {w} : current'[v] = current[v]
      BY <1>0, <2>2
    <3> QED BY <1>0, <2>1, <2>2, <2>3, <3>1, <3>2, <3>3 DEF ServeInv
  <2> QED BY <1>8, <2>4, <2>5 DEF WorkerReplies, WorkerPanics
<1>9. ASSUME NEW w \in Workers, WorkerLeaves(w)
      PROVE  ServeInv'
  BY <1>0, <1>9 DEF WorkerLeaves, HasSender, ServeInv
<1>10. ASSUME \/ ShutdownBegin \/ ShutdownStep \/ EngineDropped
              \/ TimePasses \/ WatcherLooks \/ WatcherExits \/ UNCHANGED vars
       PROVE  ServeInv'
  <2>1. tx' \in {tx, NoWorker} /\ UNCHANGED <<caller, started, worker, queue, current>>
    BY <1>10 DEF ShutdownBegin, ShutdownStep, ShutdownTakesTx, ShutdownTakesHandle,
                 ShutdownJoined, ShutdownGivesUp, EngineDropped, TimePasses, WatcherLooks,
                 WatcherExits, vars
  <2> QED BY <1>0, <2>1 DEF ServeInv
<1> QED BY <1>1, <1>2, <1>3, <1>4, <1>5, <1>6, <1>7, <1>8, <1>9, <1>10
        DEF Next, CallerStep, WorkerStep

\* PlaceInv depends on the requests in the system and on who waits, nothing else.
LEMMA PlaceFrame ==
  ASSUME PlaceInv, UNCHANGED <<queue, current>>,
         \A c \in Callers : caller'[c] = "waiting" <=> caller[c] = "waiting"
  PROVE  PlaceInv'
<1>1. ASSUME NEW c \in Callers, NEW w \in Workers, NEW i \in Nat
      PROVE  At(c, w, i)' <=> At(c, w, i)
  BY DEF At
<1> QED BY <1>1 DEF PlaceInv

\* Requests that moved along one to one, each with its caller, keep PlaceInv.
LEMMA PlaceNext == IInv /\ [Next]_vars => PlaceInv'
<1> SUFFICES ASSUME IInv, [Next]_vars PROVE PlaceInv'
  OBVIOUS
<1>0. /\ caller \in [Callers -> CallerPC]
      /\ worker \in [Workers -> WorkerPC]
      /\ queue \in [Workers -> Seq(Requests)]
      /\ current \in [Workers -> Requests \cup {NoCaller}]
      /\ tx \in Workers \cup {NoWorker}
      /\ NoCaller \notin Callers /\ Callers \subseteq Requests
  BY CallersAssumption DEF IInv, TypeOK, Requests
<1>a. /\ \A c \in Callers, w \in Workers, i \in Nat : At(c, w, i) => caller[c] = "waiting"
      /\ \A c \in Callers : caller[c] = "waiting" => \E w \in Workers, i \in Nat : At(c, w, i)
      /\ \A c \in Callers, v, w \in Workers, i, j \in Nat :
           At(c, v, i) /\ At(c, w, j) => v = w /\ i = j
  BY DEF IInv, PlaceInv
<1>b. PlaceInv /\ ServeInv
  BY DEF IInv
<1> USE DEF callerVars, workerVars, coreVars, closingVars, CallerGoes, WorkerGoes
<1>1. ASSUME NEW c \in Callers,
             \/ ConvertStart(c) \/ InitFound(c) \/ InitSpawn(c) \/ InitSpawnFails(c)
             \/ InitCommitTx(c) \/ InitCommitHandle(c) \/ InitGivesUp(c)
             \/ CheckHealthy(c) \/ MarkUnhealthy(c)
      PROVE  PlaceInv'
  <2>1. /\ caller[c] # "waiting" /\ caller'[c] # "waiting"
        /\ \A d \in Callers \ {c} : caller'[d] = caller[d]
        /\ UNCHANGED <<queue, current>>
    BY <1>0, <1>1 DEF ConvertStart, InitFound, InitSpawn, InitSpawnFails, InitCommitTx,
                      InitCommitHandle, InitGivesUp, CheckHealthy, MarkUnhealthy
  <2> QED BY <1>b, <2>1, PlaceFrame
<1>2. ASSUME NEW c \in Callers, SendRequest(c)
      PROVE  PlaceInv'
  <2>1. CASE caller'[c] # "waiting" /\ UNCHANGED queue
    <3>1. /\ caller[c] # "waiting" /\ UNCHANGED <<queue, current>>
          /\ \A d \in Callers \ {c} : caller'[d] = caller[d]
      BY <1>0, <1>2, <2>1 DEF SendRequest
    <3> QED BY <1>b, <2>1, <3>1, PlaceFrame
  <2>2. CASE /\ tx # NoWorker
             /\ caller' = [caller EXCEPT ![c] = "waiting"]
             /\ queue' = [queue EXCEPT ![tx] = Append(@, c)]
    <3>1. /\ tx \in Workers /\ caller[c] = "sending" /\ current' = current
          /\ queue[tx] \in Seq(Requests) /\ Len(queue[tx]) \in Nat
      BY <1>0, <1>2, <2>2 DEF SendRequest
    <3> DEFINE last == Len(queue[tx]) + 1
    <3>2. ASSUME NEW d \in Callers, NEW w \in Workers, NEW i \in Nat
          PROVE  At(d, w, i)' <=> At(d, w, i) \/ (d = c /\ w = tx /\ i = last)
      <4>1. CASE w # tx
        BY <1>0, <2>2, <3>1, <4>1 DEF At
      <4>2. CASE w = tx
        <5>1. /\ queue'[w] = Append(queue[w], c)
              /\ Len(queue'[w]) = last
              /\ queue'[w][last] = c
              /\ \A j \in 1 .. Len(queue[w]) : queue'[w][j] = queue[w][j]
          BY <1>0, <2>2, <3>1, <4>2
        <5> QED BY <3>1, <4>2, <5>1 DEF At
      <4> QED BY <4>1, <4>2
    <3>3. \A w \in Workers, i \in Nat : ~At(c, w, i)
      BY <1>a, <3>1
    <3>4. /\ caller'[c] = "waiting"
          /\ \A d \in Callers \ {c} : caller'[d] = caller[d]
      BY <1>0, <2>2
    <3>5. last \in Nat
      BY <3>1
    <3> HIDE DEF last
    <3>6. \A d \in Callers, w \in Workers, i \in Nat : At(d, w, i)' => caller'[d] = "waiting"
      BY <1>a, <3>2, <3>4
    <3>7. ASSUME NEW d \in Callers, caller'[d] = "waiting"
          PROVE  \E w \in Workers, i \in Nat : At(d, w, i)'
      <4>1. CASE d = c
        BY <3>1, <3>2, <3>5, <4>1
      <4>2. CASE d # c
        BY <1>a, <3>2, <3>4, <3>7, <4>2
      <4> QED BY <4>1, <4>2
    <3>8. \A d \in Callers, v, w \in Workers, i, j \in Nat :
            At(d, v, i)' /\ At(d, w, j)' => v = w /\ i = j
      BY <1>a, <3>2, <3>3
    <3> QED BY <3>6, <3>7, <3>8 DEF PlaceInv
  <2> QED BY <1>0, <1>2, <2>1, <2>2 DEF SendRequest
<1>3. ASSUME NEW c \in Callers, ReplyTimesOut(c) \/ ConvertDropped(c)
      PROVE  PlaceInv'
  <2>1. /\ Forget(c)
        /\ caller'[c] # "waiting"
        /\ \A d \in Callers \ {c} : caller'[d] = caller[d]
    BY <1>0, <1>3 DEF ReplyTimesOut, ConvertDropped
  <2>2. /\ \A w \in Workers, i \in Nat : ~At(c, w, i)'
        /\ \A d \in Callers \ {c}, w \in Workers, i \in Nat : At(d, w, i)' <=> At(d, w, i)
    BY <2>1, ForgetFacts
  <2>3. \A d \in Callers, w \in Workers, i \in Nat : At(d, w, i)' => caller'[d] = "waiting"
    BY <1>a, <2>1, <2>2
  <2>4. ASSUME NEW d \in Callers, caller'[d] = "waiting"
        PROVE  \E w \in Workers, i \in Nat : At(d, w, i)'
    BY <1>a, <2>1, <2>2, <2>4
  <2>5. \A d \in Callers, v, w \in Workers, i, j \in Nat :
          At(d, v, i)' /\ At(d, w, j)' => v = w /\ i = j
    BY <1>a, <2>2
  <2> QED BY <2>3, <2>4, <2>5 DEF PlaceInv
<1>4. ASSUME NEW w \in Workers,
             \/ WorkerOpens(w) \/ WorkerAnnounces(w) \/ WorkerConverts(w)
             \/ WorkerLeaves(w) \/ WorkerExits(w)
      PROVE  PlaceInv'
  <2>1. UNCHANGED <<caller, queue, current>>
    BY <1>4 DEF WorkerOpens, WorkerAnnounces, WorkerConverts, WorkerLeaves, WorkerExits
  <2> QED BY <1>b, <2>1, PlaceFrame
<1>5. ASSUME NEW w \in Workers, WorkerTakes(w)
      PROVE  PlaceInv'
  <2>1. /\ worker[w] = "ready" /\ queue[w] # <<>> /\ UNCHANGED caller
        /\ current' = [current EXCEPT ![w] = Head(queue[w])]
        /\ queue' = [queue EXCEPT ![w] = Tail(@)]
    BY <1>5 DEF WorkerTakes
  <2>2. current[w] = NoCaller
    BY <1>b, <2>1 DEF ServeInv
  <2>3. /\ queue[w] \in Seq(Requests) /\ Len(queue[w]) \in Nat \ {0}
        /\ Head(queue[w]) = queue[w][1]
        /\ Len(Tail(queue[w])) = Len(queue[w]) - 1
        /\ \A i \in 1 .. Len(queue[w]) - 1 : Tail(queue[w])[i] = queue[w][i + 1]
    BY <1>0, <2>1
  <2>4. ASSUME NEW c \in Callers, NEW v \in Workers, NEW i \in Nat
        PROVE  At(c, v, i)' <=> At(c, v, IF v = w THEN i + 1 ELSE i)
    <3>1. CASE v # w
      BY <1>0, <2>1, <3>1 DEF At
    <3>2. CASE v = w /\ i = 0
      BY <1>0, <2>1, <2>3, <3>2 DEF At
    <3>3. CASE v = w /\ i # 0
      BY <1>0, <2>1, <2>3, <3>3 DEF At
    <3> QED BY <3>1, <3>2, <3>3
  <2>5. \A c \in Callers : ~At(c, w, 0)
    BY <1>0, <2>2 DEF At
  <2>6. ASSUME NEW c \in Callers, NEW v \in Workers, NEW i \in Nat, At(c, v, i)
        PROVE  \E j \in Nat : At(c, v, j)'
    <3>1. CASE v # w
      BY <2>4, <2>6, <3>1
    <3>2. CASE v = w
      <4>1. i # 0
        BY <2>5, <2>6, <3>2
      <4>2. i - 1 \in Nat /\ (i - 1) + 1 = i
        BY <4>1
      <4> QED BY <2>4, <2>6, <3>2, <4>2
    <3> QED BY <3>1, <3>2
  <2>7. \A c \in Callers, v \in Workers, i \in Nat : At(c, v, i)' => caller'[c] = "waiting"
    <3> SUFFICES ASSUME NEW c \in Callers, NEW v \in Workers, NEW i \in Nat, At(c, v, i)'
                 PROVE  caller[c] = "waiting"
      BY <2>1
    <3>1. i + 1 \in Nat
      OBVIOUS
    <3>2. CASE v = w
      BY <1>a, <2>4, <3>1, <3>2
    <3>3. CASE v # w
      BY <1>a, <2>4, <3>3
    <3> QED BY <3>2, <3>3
  <2>8. ASSUME NEW c \in Callers, caller'[c] = "waiting"
        PROVE  \E v \in Workers, i \in Nat : At(c, v, i)'
    BY <1>a, <2>1, <2>6, <2>8
  <2>9. ASSUME NEW c \in Callers, NEW u \in Workers, NEW v \in Workers,
               NEW i \in Nat, NEW j \in Nat, At(c, u, i)', At(c, v, j)'
        PROVE  u = v /\ i = j
    <3>1. /\ At(c, u, IF u = w THEN i + 1 ELSE i)
          /\ At(c, v, IF v = w THEN j + 1 ELSE j)
      BY <2>4, <2>9
    <3>2. u = v /\ (IF u = w THEN i + 1 ELSE i) = (IF v = w THEN j + 1 ELSE j)
      <4>1. (IF u = w THEN i + 1 ELSE i) \in Nat /\ (IF v = w THEN j + 1 ELSE j) \in Nat
        OBVIOUS
      <4> QED BY <1>a, <3>1, <4>1
    <3> QED BY <3>2
  <2> QED BY <2>7, <2>8, <2>9 DEF PlaceInv
<1>6. ASSUME NEW w \in Workers, WorkerReplies(w)
      PROVE  PlaceInv'
  <2>1. /\ \A c \in Callers : caller'[c] = IF c = current[w] THEN "idle" ELSE caller[c]
        /\ current' = [current EXCEPT ![w] = NoCaller]
        /\ UNCHANGED queue
    BY <1>6 DEF WorkerReplies
  <2>2. ASSUME NEW c \in Callers, NEW v \in Workers, NEW i \in Nat
        PROVE  At(c, v, i)' <=> At(c, v, i) /\ c # current[w]
    <3>1. CASE c # current[w]
      BY <1>0, <2>1, <3>1 DEF At
    <3>2. CASE c = current[w]
      <4>1. At(c, w, 0)
        BY <3>2 DEF At
      <4>2. At(c, v, i) => v = w /\ i = 0
        BY <1>a, <4>1
      <4>3. ~At(c, w, 0)'
        BY <1>0, <2>1 DEF At
      <4>4. i # 0 \/ v # w => (At(c, v, i)' <=> At(c, v, i))
        BY <1>0, <2>1 DEF At
      <4> QED BY <3>2, <4>2, <4>3, <4>4
    <3> QED BY <3>1, <3>2
  <2>3. \A c \in Callers, v \in Workers, i \in Nat : At(c, v, i)' => caller'[c] = "waiting"
    BY <1>a, <2>1, <2>2
  <2>4. ASSUME NEW c \in Callers, caller'[c] = "waiting"
        PROVE  \E v \in Workers, i \in Nat : At(c, v, i)'
    <3>1. c # current[w] /\ caller[c] = "waiting"
      BY <2>1, <2>4
    <3> QED BY <1>a, <2>2, <3>1
  <2>5. \A c \in Callers, u, v \in Workers, i, j \in Nat :
          At(c, u, i)' /\ At(c, v, j)' => u = v /\ i = j
    BY <1>a, <2>2
  <2> QED BY <2>3, <2>4, <2>5 DEF PlaceInv
<1>7. ASSUME NEW w \in Workers, WorkerPanics(w)
      PROVE  PlaceInv'
  <2> DEFINE Lost(c) == \E i \in Nat : At(c, w, i)
  <2>1. /\ current' = [current EXCEPT ![w] = NoCaller]
        /\ queue' = [queue EXCEPT ![w] = <<>>]
    BY <1>7 DEF WorkerPanics
  <2>2. ASSUME NEW c \in Callers
        PROVE  caller'[c] = IF Lost(c) THEN "marking" ELSE caller[c]
    <3>1. DOMAIN queue[w] = 1 .. Len(queue[w]) /\ Len(queue[w]) \in Nat
      BY <1>0
    <3>2. Lost(c) <=> c = current[w] \/ \E i \in DOMAIN queue[w] : queue[w][i] = c
      BY <3>1 DEF At
    <3> QED BY <1>7, <3>2 DEF WorkerPanics
  <2>3. ASSUME NEW c \in Callers, NEW v \in Workers, NEW i \in Nat
        PROVE  At(c, v, i)' <=> At(c, v, i) /\ v # w
    <3>1. CASE v # w
      BY <1>0, <2>1, <3>1 DEF At
    <3>2. CASE v = w
      <4>1. queue'[w] = <<>> /\ current'[w] = NoCaller
        BY <1>0, <2>1
      <4> QED BY <1>0, <3>2, <4>1 DEF At
    <3> QED BY <3>1, <3>2
  <2>4. ASSUME NEW c \in Callers, NEW v \in Workers, NEW i \in Nat, At(c, v, i), v # w
        PROVE  ~Lost(c)
    BY <1>a, <2>4
  <2> HIDE DEF Lost
  <2>5. \A c \in Callers, v \in Workers, i \in Nat : At(c, v, i)' => caller'[c] = "waiting"
    BY <1>a, <2>2, <2>3, <2>4
  <2>6. ASSUME NEW c \in Callers, caller'[c] = "waiting"
        PROVE  \E v \in Workers, i \in Nat : At(c, v, i)'
    <3>1. ~Lost(c) /\ caller[c] = "waiting"
      BY <2>2, <2>6
    <3>2. PICK v \in Workers, i \in Nat : At(c, v, i)
      BY <1>a, <3>1
    <3>3. v # w
      BY <3>1, <3>2 DEF Lost
    <3> QED BY <2>3, <3>2, <3>3
  <2>7. \A c \in Callers, u, v \in Workers, i, j \in Nat :
          At(c, u, i)' /\ At(c, v, j)' => u = v /\ i = j
    BY <1>a, <2>3
  <2> QED BY <2>5, <2>6, <2>7 DEF PlaceInv
<1>8. ASSUME \/ ShutdownBegin \/ ShutdownStep \/ EngineDropped
             \/ TimePasses \/ WatcherLooks \/ WatcherExits \/ UNCHANGED vars
      PROVE  PlaceInv'
  <2>1. UNCHANGED <<caller, queue, current>>
    BY <1>8 DEF ShutdownBegin, ShutdownStep, ShutdownTakesTx, ShutdownTakesHandle,
                ShutdownJoined, ShutdownGivesUp, EngineDropped, TimePasses, WatcherLooks,
                WatcherExits, vars
  <2> QED BY <1>b, <2>1, PlaceFrame
<1> QED BY <1>1, <1>2, <1>3, <1>4, <1>5, <1>6, <1>7, <1>8
        DEF Next, CallerStep, WorkerStep

-----------------------------------------------------------------------------
\* The inductive invariant holds, for any numbers of callers and threads and any
\* capacity of the channel.
THEOREM InvariantCorrect == Spec => []IInv
<1>1. Init => LockInv /\ OfficeInv /\ ServeInv /\ PlaceInv
  <2> SUFFICES ASSUME Init PROVE LockInv /\ OfficeInv /\ ServeInv /\ PlaceInv
    OBVIOUS
  <2>1. PICK w \in Workers :
          /\ tx = IF lazy THEN NoWorker ELSE w
          /\ worker = [v \in Workers |-> IF v = tx THEN "ready" ELSE "none"]
    BY DEF Init
  <2>2. /\ \A c \in Callers : caller[c] = "idle"
        /\ \A v \in Workers : queue[v] = <<>> /\ current[v] = NoCaller
        /\ initLock = NoCaller /\ office = ~lazy /\ NoCaller \notin Callers
    BY CallersAssumption DEF Init
  <2>3. lazy \in BOOLEAN
    BY LazyAssumption DEF Init
  <2>4. LockInv
    BY <2>2 DEF LockInv
  <2>5. OfficeInv
    BY <2>1, <2>2, <2>3, WorkersAssumption DEF OfficeInv, Serving
  <2>6. ServeInv
    BY <2>1, <2>2, <2>3, WorkersAssumption DEF ServeInv, Serving
  <2>7. \A c \in Callers, v \in Workers, i \in Nat : ~At(c, v, i)
    BY <2>2 DEF At
  <2>8. PlaceInv
    BY <2>2, <2>7 DEF PlaceInv
  <2> QED BY <2>4, <2>5, <2>6, <2>8
<1>2. LockInv /\ OfficeInv /\ ServeInv /\ PlaceInv /\ TypeOK /\ TypeOK' /\ [Next]_vars
        => LockInv' /\ OfficeInv' /\ ServeInv' /\ PlaceInv'
  BY LockNext, OfficeNext, ServeNext, PlaceNext DEF IInv
<1> QED BY <1>1, <1>2, TypeCorrect, PTL DEF Spec, IInv

\* "We never double-spawn": never two workers that can be given requests.
THEOREM NeverDoubleServes == Spec => []OneServing
<1>1. IInv => OneServing
  <2> SUFFICES ASSUME IInv, NEW v \in Workers, NEW w \in Workers,
                      tx = v \/ \E c \in Callers : caller[c] = "starting" /\ started[c] = v,
                      tx = w \/ \E c \in Callers : caller[c] = "starting" /\ started[c] = w
               PROVE  v = w
    BY DEF OneServing
  <2>1. \A c \in Callers : caller[c] = "starting" => initLock = c /\ tx = NoWorker
    BY DEF IInv, LockInv
  <2> QED BY <2>1, WorkersAssumption
<1> QED BY <1>1, InvariantCorrect, PTL

\* A caller that waits has its one request where a live worker will come to it:
\* shutdown(), panics, timeouts and other callers' starts strand nobody.
THEOREM NobodyStranded == Spec => []NoStrandedCaller
<1>1. IInv => NoStrandedCaller
  <2> SUFFICES ASSUME IInv, NEW c \in Callers, caller[c] = "waiting"
               PROVE  /\ Cardinality(Places(c)) = 1
                      /\ \A p \in Places(c) :
                           worker[p[1]] \notin WorkerGone \cup {"none", "leaving"}
    BY DEF NoStrandedCaller
  <2>0. /\ queue \in [Workers -> Seq(Requests)]
        /\ \A w \in Workers : Len(queue[w]) <= QueueCap
        /\ QueueCap \in Nat /\ c # NoCaller
    BY QueueCapAssumption, CallersAssumption DEF IInv, TypeOK
  <2>1. PICK w \in Workers, i \in Nat : At(c, w, i)
    BY DEF IInv, PlaceInv
  <2>2. ASSUME NEW v \in Workers, NEW j \in 0 .. QueueCap
        PROVE  <<v, j>> \in Places(c) <=> At(c, v, j)
    <3>1. queue[v] \in Seq(Requests) /\ DOMAIN queue[v] = 1 .. Len(queue[v])
      BY <2>0
    <3> QED BY <3>1 DEF Places, At
  <2>3. i \in 0 .. QueueCap
    <3>1. Len(queue[w]) \in Nat /\ Len(queue[w]) <= QueueCap
      BY <2>0
    <3> QED BY <2>0, <2>1, <3>1 DEF At
  <2>4. \A p \in Places(c) : \E v \in Workers, j \in 0 .. QueueCap : p = <<v, j>>
    BY DEF Places
  <2>5. ASSUME NEW v \in Workers, NEW j \in 0 .. QueueCap, At(c, v, j)
        PROVE  v = w /\ j = i
    <3>1. j \in Nat
      BY <2>0
    <3> QED BY <2>1, <2>5, <3>1 DEF IInv, PlaceInv
  <2>6. Places(c) = {<<w, i>>}
    BY <2>1, <2>2, <2>3, <2>4, <2>5
  <2>7. Cardinality(Places(c)) = 1
    BY <2>6, FS_Singleton
  <2>8. worker[w] \in Serving
    <3>1. CASE i = 0
      BY <2>0, <2>1, <3>1 DEF At, IInv, ServeInv, Serving
    <3>2. CASE i # 0
      <4>1. queue[w] # <<>>
        BY <2>1, <3>2 DEF At
      <4> QED BY <4>1 DEF IInv, ServeInv
    <3> QED BY <3>1, <3>2
  <2> QED BY <2>6, <2>7, <2>8 DEF Serving, WorkerGone
<1> QED BY <1>1, InvariantCorrect, PTL

\* "Restart required": an engine in service that is unhealthy stays so.
THEOREM WedgeStaysSticky == Spec => WedgeIsSticky
<1>1. IInv /\ [Next]_vars => [~healthy /\ tx # NoWorker => ~healthy']_vars
  <2> SUFFICES ASSUME IInv, Next, ~healthy, tx # NoWorker PROVE ~healthy'
    BY DEF vars, coreVars
  <2> USE DEF callerVars, workerVars, coreVars, closingVars
  <2>1. office
    BY DEF IInv, OfficeInv
  <2>2. ASSUME NEW c \in Callers, ConvertStart(c) \/ CallerStep(c) \/ ConvertDropped(c)
        PROVE  ~healthy'
    BY <2>2 DEF ConvertStart, CallerStep, InitFound, InitSpawn, InitSpawnFails, InitCommitTx,
                InitCommitHandle, InitGivesUp, CheckHealthy, SendRequest, ReplyTimesOut,
                MarkUnhealthy, ConvertDropped
  <2>3. ASSUME NEW w \in Workers, WorkerStep(w) \/ WorkerConverts(w) \/ WorkerPanics(w)
        PROVE  ~healthy'
    BY <2>1, <2>3 DEF WorkerStep, WorkerOpens, WorkerAnnounces, WorkerTakes, WorkerConverts,
                      WorkerReplies, WorkerPanics, WorkerLeaves, WorkerExits
  <2>4. ASSUME \/ ShutdownBegin \/ ShutdownStep \/ EngineDropped
               \/ TimePasses \/ WatcherLooks \/ WatcherExits
        PROVE  ~healthy'
    BY <2>4 DEF ShutdownBegin, ShutdownStep, ShutdownTakesTx, ShutdownTakesHandle,
                ShutdownJoined, ShutdownGivesUp, EngineDropped, TimePasses, WatcherLooks,
                WatcherExits
  <2> QED BY <2>2, <2>3, <2>4 DEF Next
<1> QED BY <1>1, InvariantCorrect, PTL DEF Spec, WedgeIsSticky

\* /health never reports an engine whose worker has ended in order or never came up.
THEOREM HealthyMeansWorker == Spec => []HealthyHasWorker
<1> DEFINE Up(w) == worker[w] \in {"announcing", "ready", "converting", "replying",
                                   "leaving", "panicked"}
<1>1. Init => HealthyHasWorker
  <2> SUFFICES ASSUME Init, healthy PROVE \E w \in Workers : Up(w)
    BY DEF HealthyHasWorker
  <2>1. PICK w \in Workers :
          /\ tx = IF lazy THEN NoWorker ELSE w
          /\ worker = [v \in Workers |-> IF v = tx THEN "ready" ELSE "none"]
    BY DEF Init
  <2>2. tx = w
    BY <2>1, LazyAssumption DEF Init
  <2> QED BY <2>1, <2>2
<1>2. TypeOK /\ HealthyHasWorker /\ [Next]_vars => HealthyHasWorker'
  <2> SUFFICES ASSUME TypeOK, HealthyHasWorker, [Next]_vars, healthy'
               PROVE  \E w \in Workers : Up(w)'
    BY DEF HealthyHasWorker
  <2>0. worker \in [Workers -> WorkerPC]
    BY DEF TypeOK
  <2> USE DEF callerVars, workerVars, coreVars, closingVars, CallerGoes, WorkerGoes
  <2>1. ASSUME NEW w \in Workers, WorkerOpens(w), healthy' # healthy
        PROVE  \E v \in Workers : Up(v)'
    BY <2>0, <2>1 DEF WorkerOpens
  <2>2. ASSUME healthy, \A w \in Workers : Up(w) => Up(w)'
        PROVE  \E w \in Workers : Up(w)'
    BY <2>2 DEF HealthyHasWorker
  <2>3. ASSUME NEW c \in Callers, ConvertStart(c) \/ CallerStep(c) \/ ConvertDropped(c)
        PROVE  healthy /\ \A w \in Workers : Up(w) => Up(w)'
    <3>1. healthy
      BY <2>3 DEF ConvertStart, CallerStep, InitFound, InitSpawn, InitSpawnFails,
                  InitCommitTx, InitCommitHandle, InitGivesUp, CheckHealthy, SendRequest,
                  ReplyTimesOut, MarkUnhealthy, ConvertDropped
    <3>2. CASE InitSpawn(c)
      BY <2>0, <3>2 DEF InitSpawn, Spawnable
    <3>3. CASE ~InitSpawn(c)
      BY <2>3, <3>3 DEF ConvertStart, CallerStep, InitFound, InitSpawnFails, InitCommitTx,
                        InitCommitHandle, InitGivesUp, CheckHealthy, SendRequest,
                        ReplyTimesOut, MarkUnhealthy, ConvertDropped
    <3> QED BY <3>1, <3>2, <3>3
  <2>4. ASSUME NEW w \in Workers, WorkerStep(w) \/ WorkerConverts(w) \/ WorkerPanics(w),
               healthy' = healthy
        PROVE  \A v \in Workers : Up(v) => Up(v)'
    BY <2>0, <2>4 DEF WorkerStep, WorkerOpens, WorkerAnnounces, WorkerTakes, WorkerConverts,
                      WorkerReplies, WorkerPanics, WorkerLeaves, WorkerExits
  <2>5. ASSUME \/ ShutdownBegin \/ ShutdownStep \/ EngineDropped
               \/ TimePasses \/ WatcherLooks \/ WatcherExits \/ UNCHANGED vars
        PROVE  healthy /\ \A w \in Workers : Up(w) => Up(w)'
    BY <2>5 DEF ShutdownBegin, ShutdownStep, ShutdownTakesTx, ShutdownTakesHandle,
                ShutdownJoined, ShutdownGivesUp, EngineDropped, TimePasses, WatcherLooks,
                WatcherExits, vars
  <2>6. ASSUME NEW w \in Workers, WorkerStep(w) \/ WorkerConverts(w) \/ WorkerPanics(w),
               healthy' # healthy
        PROVE  WorkerOpens(w)
    BY <2>6 DEF WorkerStep, WorkerAnnounces, WorkerTakes, WorkerConverts,
                WorkerReplies, WorkerPanics, WorkerLeaves, WorkerExits
  <2>7. ASSUME NEW w \in Workers, WorkerStep(w) \/ WorkerConverts(w) \/ WorkerPanics(w)
        PROVE  \E v \in Workers : Up(v)'
    <3>1. CASE healthy' = healthy
      BY <2>2, <2>4, <2>7, <3>1
    <3>2. CASE healthy' # healthy
      BY <2>1, <2>6, <2>7, <3>2
    <3> QED BY <3>1, <3>2
  <2> QED BY <2>2, <2>3, <2>5, <2>7 DEF Next
<1> QED BY <1>1, <1>2, TypeCorrect, PTL DEF Spec

=============================================================================
