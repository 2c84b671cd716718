----------------------- MODULE WebhookServiceProofs ------------------------
(* Theorems about WebhookService, for every value of its constants.         *)
EXTENDS WebhookService, FiniteSetTheorems, TLAPS

Reporting == {"posting", "awaiting", "sleeping"}

\* The locals of a worker's loop: it has a job from recv() to the end of
\* process_webhook_job, and an outcome and an attempt while it reports.
Locals(w) ==
  /\ worker[w] \in {"locking", "receiving"} <=> job[w] = NoJob
  /\ worker[w] \in Reporting => attempt[w] \in 1 .. MaxAttempts /\ status[w] \in Status
  /\ worker[w] = "sleeping" => attempt[w] < MaxAttempts
LocalsInv == \A w \in Workers : Locals(w)

\* A step of one worker leaves the locals of the others alone.
LEMMA OthersKeepLocals ==
  ASSUME LocalsInv, NEW w \in Workers, NEW v \in Workers \ {w},
         worker'[v] = worker[v], job'[v] = job[v],
         attempt'[v] = attempt[v], status'[v] = status[v]
  PROVE  Locals(v)'
BY DEF LocalsInv, Locals

\* What a worker has while it reports is a report of the declared kind.
LEMMA ReportTyped ==
  ASSUME TypeOK, LocalsInv, NEW w \in Workers, worker[w] \in Reporting
  PROVE  /\ job[w] \in Jobs
         /\ attempt[w] \in 1 .. MaxAttempts
         /\ status[w] \in Status
         /\ ThisReport(w) \in {Report(j, n, s) : j \in Jobs, n \in 1 .. MaxAttempts, s \in Status}
<1>1. job \in [Workers -> Jobs \cup {NoJob}]
  BY DEF TypeOK
<1>2. job[w] \in Jobs /\ attempt[w] \in 1 .. MaxAttempts /\ status[w] \in Status
  BY <1>1 DEF LocalsInv, Locals, Reporting
<1> QED BY <1>2 DEF ThisReport

\* Type correctness, with the locals of the workers: the channel keeps to its
\* capacity, no attempt exceeds the limit and no report is sent without an outcome.
LEMMA TypeStep == TypeOK /\ LocalsInv /\ [Next]_vars => TypeOK' /\ LocalsInv'
<1> SUFFICES ASSUME TypeOK, LocalsInv, [Next]_vars PROVE TypeOK' /\ LocalsInv'
  OBVIOUS
<1> USE JobsAssumption, WorkersAssumption, QueueCapAssumption, MaxAttemptsAssumption
<1>t. /\ handler \in [Jobs -> HandlerPC]
      /\ queue \in Seq(Jobs) /\ Len(queue) <= QueueCap
      /\ receiver \in Workers \cup {Nobody}
      /\ worker \in [Workers -> WorkerPC]
      /\ job \in [Workers -> Jobs \cup {NoJob}]
      /\ attempt \in [Workers -> 0 .. MaxAttempts]
      /\ status \in [Workers -> Status \cup {"none"}]
      /\ ended \in [Jobs -> {"no", "delivered", "failed"}]
      /\ sent \subseteq {Report(j, n, s) : j \in Jobs, n \in 1 .. MaxAttempts, s \in Status}
      /\ received \subseteq sent
      /\ server \in {"serving", "draining", "exited"}
  BY DEF TypeOK
<1>ta. attempt \in [Workers -> 0 .. MaxAttempts]
  BY <1>t
<1>ts. status \in [Workers -> Status \cup {"none"}]
  BY <1>t
<1>tj. job \in [Workers -> Jobs \cup {NoJob}]
  BY <1>t
<1>te. ended \in [Jobs -> {"no", "delivered", "failed"}]
  BY <1>t
<1>l. \A w \in Workers :
        /\ worker[w] \in {"locking", "receiving"} <=> job[w] = NoJob
        /\ worker[w] \in Reporting => attempt[w] \in 1 .. MaxAttempts /\ status[w] \in Status
        /\ worker[w] = "sleeping" => attempt[w] < MaxAttempts
  BY DEF LocalsInv, Locals
\* A handler leaves the workers, and a worker the handlers, alone.
<1>h. ASSUME NEW j \in Jobs, NEW from, NEW to \in HandlerPC, HandlerMoves(j, from, to),
             queue' \in Seq(Jobs), Len(queue') <= QueueCap
      PROVE  TypeOK' /\ LocalsInv'
  <2>1. handler' \in [Jobs -> HandlerPC]
    BY <1>t, <1>h DEF HandlerMoves
  <2>2. UNCHANGED <<receiver, worker, job, attempt, status, ended, sent, received, server>>
    BY <1>h DEF HandlerMoves, workerVars, wireVars
  <2>3. TypeOK'
    BY <1>t, <1>h, <2>1, <2>2 DEF TypeOK
  <2>4. LocalsInv'
    BY <1>l, <2>2 DEF LocalsInv, Locals
  <2> QED BY <2>3, <2>4
<1>w. ASSUME NEW w \in Workers, NEW from, NEW to \in WorkerPC, WorkerMoves(w, from, to)
      PROVE  /\ worker' \in [Workers -> WorkerPC]
             /\ worker'[w] = to /\ \A v \in Workers \ {w} : worker'[v] = worker[v]
             /\ handler' \in [Jobs -> HandlerPC]
             /\ server' \in {"serving", "draining", "exited"}
  BY <1>t, <1>w DEF WorkerMoves
<1>e. ASSUME NEW w \in Workers, NEW how \in {"delivered", "failed"}, JobEnds(w, how)
      PROVE  /\ ended' \in [Jobs -> {"no", "delivered", "failed"}]
             /\ job' \in [Workers -> Jobs \cup {NoJob}]
             /\ attempt' \in [Workers -> 0 .. MaxAttempts]
             /\ status' \in [Workers -> Status \cup {"none"}]
             /\ job'[w] = NoJob
             /\ \A v \in Workers \ {w} :
                  job'[v] = job[v] /\ attempt'[v] = attempt[v] /\ status'[v] = status[v]
  <2>1. 0 \in 0 .. MaxAttempts
    OBVIOUS
  <2>2. ended' \in [Jobs -> {"no", "delivered", "failed"}]
    BY <1>te, <1>e DEF JobEnds
  <2>3. /\ job' = [job EXCEPT ![w] = NoJob]
        /\ attempt' = [attempt EXCEPT ![w] = 0]
        /\ status' = [status EXCEPT ![w] = "none"]
    BY <1>e DEF JobEnds
  <2>4. /\ attempt' \in [Workers -> 0 .. MaxAttempts]
        /\ \A v \in Workers \ {w} : attempt'[v] = attempt[v]
    BY <1>ta, <2>1, <2>3
  <2>5. /\ job' \in [Workers -> Jobs \cup {NoJob}]
        /\ job'[w] = NoJob
        /\ \A v \in Workers \ {w} : job'[v] = job[v]
    BY <1>tj, <2>3
  <2>6. /\ status' \in [Workers -> Status \cup {"none"}]
        /\ \A v \in Workers \ {w} : status'[v] = status[v]
    BY <1>ts, <2>3
  <2> QED BY <2>2, <2>4, <2>5, <2>6
<1>1. CASE \E j \in Jobs : SpawnJob(j) \/ HandlerStep(j)
  <2> PICK j \in Jobs : SpawnJob(j) \/ HandlerStep(j)
    BY <1>1
  <2>1. CASE SpawnJob(j)
    BY <1>h, <1>t, <2>1 DEF SpawnJob, HandlerPC
  <2>2. CASE SendCompletes(j)
    <3>1. queue' \in Seq(Jobs) /\ Len(queue') <= QueueCap
      BY <1>t, <2>2 DEF SendCompletes
    <3> QED BY <1>h, <3>1, <2>2 DEF SendCompletes, HandlerPC
  <2>3. CASE SendFails(j)
    BY <1>h, <1>t, <2>3 DEF SendFails, HandlerPC
  <2>4. CASE HandlerDropped(j)
    BY <1>h, <1>t, <2>4 DEF HandlerDropped, HandlerPC
  <2> QED BY <2>1, <2>2, <2>3, <2>4 DEF HandlerStep
<1>2. ASSUME NEW w \in Workers, LockReceiver(w) PROVE TypeOK' /\ LocalsInv'
  <2>1. WorkerMoves(w, "locking", "receiving")
    BY <1>2 DEF LockReceiver
  <2>2. TypeOK'
    BY <1>2, <1>t, <1>w, <2>1 DEF LockReceiver, TypeOK, WorkerPC, wireVars
  <2>3. LocalsInv'
    BY <1>2, <1>l, <1>w, <2>1 DEF LockReceiver, LocalsInv, Locals, WorkerPC, WorkerMoves, Reporting
  <2> QED BY <2>2, <2>3
<1>3. ASSUME NEW w \in Workers, Receive(w) PROVE TypeOK' /\ LocalsInv'
  <2>1. WorkerMoves(w, "receiving", "executing")
    BY <1>3 DEF Receive
  <2>2. Head(queue) \in Jobs /\ Tail(queue) \in Seq(Jobs) /\ Len(Tail(queue)) <= QueueCap
    BY <1>3, <1>t DEF Receive
  <2>3. TypeOK'
    BY <1>3, <1>t, <1>w, <2>1, <2>2 DEF Receive, TypeOK, WorkerPC, wireVars
  <2>4. /\ worker'[w] = "executing"
        /\ job'[w] \in Jobs
        /\ \A v \in Workers \ {w} : worker'[v] = worker[v] /\ job'[v] = job[v]
        /\ UNCHANGED <<attempt, status>>
    BY <1>3, <1>t, <1>w, <2>1, <2>2 DEF Receive, WorkerPC
  <2>5. Locals(w)'
    BY <2>4 DEF Locals, Reporting
  <2>6. \A v \in Workers \ {w} : Locals(v)'
    BY <2>4, OthersKeepLocals
  <2>7. LocalsInv'
    BY <2>5, <2>6 DEF LocalsInv
  <2> QED BY <2>3, <2>7
<1>4. ASSUME NEW w \in Workers, Execute(w) PROVE TypeOK' /\ LocalsInv'
  <2>1. WorkerMoves(w, "executing", "posting")
    BY <1>4 DEF Execute
  <2>2. PICK s \in Status : status' = [status EXCEPT ![w] = s]
    BY <1>4 DEF Execute
  <2>3. attempt' = [attempt EXCEPT ![w] = 1] /\ UNCHANGED <<queue, receiver, job, ended, wireVars>>
    BY <1>4 DEF Execute
  <2>4. TypeOK'
    <3>1. 1 \in 0 .. MaxAttempts
      OBVIOUS
    <3>2. attempt' \in [Workers -> 0 .. MaxAttempts]
      BY <1>ta, <2>3, <3>1
    <3>3. status' \in [Workers -> Status \cup {"none"}]
      BY <1>ts, <2>2
    <3> QED BY <1>t, <1>w, <2>1, <2>3, <3>2, <3>3 DEF TypeOK, WorkerPC, wireVars
  <2>5. worker'[w] = "posting" /\ worker[w] = "executing"
    BY <1>w, <2>1 DEF WorkerPC, WorkerMoves
  <2>51. \A v \in Workers \ {w} : worker'[v] = worker[v]
    BY <1>w, <2>1 DEF WorkerPC
  <2>52. \A v \in Workers \ {w} : job'[v] = job[v] /\ status'[v] = status[v]
    BY <1>ts, <2>2, <2>3
  <2>53. job'[w] # NoJob
    BY <1>l, <2>3, <2>5
  <2>6. /\ attempt'[w] = 1 /\ \A v \in Workers \ {w} : attempt'[v] = attempt[v]
        /\ status'[w] \in Status
    BY <1>ta, <1>ts, <2>2, <2>3
  <2>7. Locals(w)'
    <3>1. attempt'[w] \in 1 .. MaxAttempts
      BY <2>6
    <3> QED BY <2>5, <2>53, <2>6, <3>1 DEF Locals
  <2>8. \A v \in Workers \ {w} : Locals(v)'
    BY <2>51, <2>52, <2>6, OthersKeepLocals
  <2>9. LocalsInv'
    BY <2>7, <2>8 DEF LocalsInv
  <2> QED BY <2>4, <2>9
<1>5. ASSUME NEW w \in Workers, WorkerPanics(w) PROVE TypeOK' /\ LocalsInv'
  <2>1. WorkerMoves(w, "executing", "dead")
    BY <1>5 DEF WorkerPanics
  <2>2. queue' \in Seq(Jobs) /\ Len(queue') <= QueueCap
    BY <1>5, <1>t DEF WorkerPanics
  <2>3. TypeOK'
    BY <1>5, <1>t, <1>w, <2>1, <2>2 DEF WorkerPanics, TypeOK, WorkerPC, wireVars
  <2>4. LocalsInv'
    BY <1>5, <1>l, <1>t, <1>w, <2>1 DEF WorkerPanics, LocalsInv, Locals, WorkerPC, WorkerMoves, Reporting
  <2> QED BY <2>3, <2>4
<1>6. ASSUME NEW w \in Workers, Post(w) PROVE TypeOK' /\ LocalsInv'
  <2>1. WorkerMoves(w, "posting", "awaiting") /\ worker[w] = "posting"
    BY <1>6 DEF Post, WorkerMoves
  <2>2. ThisReport(w) \in {Report(j, n, s) : j \in Jobs, n \in 1 .. MaxAttempts, s \in Status}
    BY <2>1, ReportTyped DEF Reporting
  <2>3. TypeOK'
    BY <1>6, <1>t, <1>w, <2>1, <2>2 DEF Post, TypeOK, WorkerPC
  <2>4. LocalsInv'
    BY <1>6, <1>l, <1>t, <1>w, <2>1 DEF Post, LocalsInv, Locals, WorkerPC, WorkerMoves, Reporting
  <2> QED BY <2>3, <2>4
<1>7. ASSUME NEW w \in Workers, PostAnswered(w) \/ GiveUp(w) PROVE TypeOK' /\ LocalsInv'
  <2>1. PICK how \in {"delivered", "failed"} :
          /\ WorkerMoves(w, "awaiting", "locking")
          /\ JobEnds(w, how)
          /\ UNCHANGED <<queue, receiver, wireVars>>
    BY <1>7 DEF PostAnswered, GiveUp
  <2>2. TypeOK'
    BY <1>t, <1>w, <1>e, <2>1 DEF TypeOK, WorkerPC, wireVars
  <2>3. LocalsInv'
    BY <1>l, <1>t, <1>w, <1>e, <2>1 DEF LocalsInv, Locals, WorkerPC, Reporting
  <2> QED BY <2>2, <2>3
<1>8. ASSUME NEW w \in Workers, PostFails(w) PROVE TypeOK' /\ LocalsInv'
  <2>1. WorkerMoves(w, "awaiting", "sleeping")
    BY <1>8 DEF PostFails
  <2>2. TypeOK'
    BY <1>8, <1>t, <1>w, <2>1 DEF PostFails, TypeOK, WorkerPC, wireVars
  <2>3. LocalsInv'
    BY <1>8, <1>l, <1>t, <1>w, <2>1 DEF PostFails, LocalsInv, Locals, WorkerPC, WorkerMoves, Reporting
  <2> QED BY <2>2, <2>3
<1>9. ASSUME NEW w \in Workers, Retry(w) PROVE TypeOK' /\ LocalsInv'
  <2>1. WorkerMoves(w, "sleeping", "posting") /\ worker[w] = "sleeping"
    BY <1>9 DEF Retry, WorkerMoves
  <2>2. attempt[w] \in 1 .. MaxAttempts /\ attempt[w] < MaxAttempts /\ attempt[w] + 1 \in 1 .. MaxAttempts
    BY <1>l, <2>1 DEF Reporting
  <2>3. /\ attempt' = [attempt EXCEPT ![w] = attempt[w] + 1]
        /\ UNCHANGED <<queue, receiver, job, status, ended, sent, received>>
    BY <1>9 DEF Retry, wireVars
  <2>4. attempt[w] + 1 \in 0 .. MaxAttempts
    BY <2>2
  <2>5. /\ attempt' \in [Workers -> 0 .. MaxAttempts]
        /\ attempt'[w] = attempt[w] + 1
        /\ \A v \in Workers \ {w} : attempt'[v] = attempt[v]
    BY <1>ta, <2>3, <2>4
  <2>6. TypeOK'
    BY <1>t, <1>w, <2>1, <2>3, <2>5 DEF TypeOK, WorkerPC
  <2>7. /\ worker'[w] = "posting" /\ job'[w] # NoJob /\ status'[w] \in Status
        /\ \A v \in Workers \ {w} :
             worker'[v] = worker[v] /\ job'[v] = job[v] /\ status'[v] = status[v]
    BY <1>l, <1>w, <2>1, <2>3 DEF WorkerPC, Reporting
  <2>8. Locals(w)'
    BY <2>2, <2>5, <2>7 DEF Locals
  <2>9. \A v \in Workers \ {w} : Locals(v)'
    BY <2>5, <2>7, OthersKeepLocals
  <2>10. LocalsInv'
    BY <2>8, <2>9 DEF LocalsInv
  <2> QED BY <2>6, <2>10
<1>10. ASSUME NEW r \in sent \ received, ReportArrives(r) PROVE TypeOK' /\ LocalsInv'
  BY <1>t, <1>l, <1>10 DEF ReportArrives, TypeOK, LocalsInv, Locals, workerVars
<1>11. CASE Signal \/ Exit
  BY <1>t, <1>l, <1>11 DEF Signal, Exit, TypeOK, LocalsInv, Locals, workerVars, wireVars
<1>12. CASE UNCHANGED vars
  BY <1>t, <1>l, <1>12 DEF vars, TypeOK, LocalsInv, Locals, workerVars, wireVars
<1> QED
  BY <1>1, <1>2, <1>3, <1>4, <1>5, <1>6, <1>7, <1>8, <1>9, <1>10, <1>11, <1>12
     DEF Next, WorkerStep

\* Type correctness of the asynchronous mode: the channel keeps to its capacity and
\* no attempt of deliver() exceeds webhook_max_retry.
THEOREM TypeCorrect == Spec => []TypeOK
<1>1. Init => TypeOK /\ LocalsInv
  BY JobsAssumption, QueueCapAssumption, MaxAttemptsAssumption
     DEF Init, TypeOK, LocalsInv, Locals, HandlerPC, WorkerPC, Status, Reporting
<1> QED BY <1>1, TypeStep, PTL DEF Spec

-----------------------------------------------------------------------------
(* The inductive invariant.                                                 *)

\* A job is in one place only, and only once its request was accepted.
PlaceInv ==
  /\ \A w \in Workers : job[w] # NoJob =>
       handler[job[w]] = "accepted" /\ ended[job[w]] = "no" /\ ~Waits(job[w])
  /\ \A v, w \in Workers : job[v] # NoJob /\ job[v] = job[w] => v = w
  /\ \A i, k \in 1 .. Len(queue) : queue[i] = queue[k] => i = k
  /\ \A i \in 1 .. Len(queue) : handler[queue[i]] = "accepted" /\ ended[queue[i]] = "no"
  /\ \A j \in Jobs : ended[j] # "no" => handler[j] = "accepted"

\* An accepted job is somewhere, unless the last worker took it along.
SomewhereInv ==
  \A j \in Jobs : handler[j] = "accepted" =>
    Waits(j) \/ (\E w \in Workers : job[w] = j) \/ ended[j] # "no" \/ AllDead

\* What has been sent of a job that is not over is what its worker is still saying.
VerdictInv ==
  /\ \A r \in sent :
       \/ ended[r.job] # "no"
       \/ \E w \in Workers :
            job[w] = r.job /\ worker[w] \in Reporting /\ status[w] = r.status
  /\ \A q, r \in sent : q.job = r.job => q.status = r.status

IInv == TypeOK /\ LocalsInv /\ PlaceInv /\ SomewhereInv /\ VerdictInv

\* The steps that move jobs; every other step leaves them where they are.
Quiet ==
  /\ UNCHANGED <<queue, job, ended>>
  /\ \A j \in Jobs : handler'[j] = "accepted" <=> handler[j] = "accepted"
  /\ AllDead => AllDead'

Moving ==
  \/ \E j \in Jobs : SendCompletes(j)
  \/ \E w \in Workers :
       Receive(w) \/ WorkerPanics(w) \/ PostAnswered(w) \/ GiveUp(w)

LEMMA StepKinds == TypeOK /\ [Next]_vars => Quiet \/ Moving
<1> SUFFICES ASSUME TypeOK, [Next]_vars PROVE Quiet \/ Moving
  OBVIOUS
<1>t. handler \in [Jobs -> HandlerPC]
  BY DEF TypeOK
<1>h. ASSUME NEW j \in Jobs, NEW from, NEW to, from # "accepted", to # "accepted",
             HandlerMoves(j, from, to), UNCHANGED queue
      PROVE  Quiet
  BY <1>t, <1>h DEF HandlerMoves, Quiet, AllDead, workerVars
<1>w. ASSUME NEW w \in Workers, NEW from, NEW to, from # "dead",
             WorkerMoves(w, from, to), UNCHANGED <<queue, job, ended>>
      PROVE  Quiet
  BY <1>w DEF WorkerMoves, Quiet, AllDead
<1>1. ASSUME NEW j \in Jobs, SpawnJob(j) \/ HandlerStep(j) PROVE Quiet \/ Moving
  <2>1. CASE SpawnJob(j)
    BY <1>h, <2>1 DEF SpawnJob
  <2>2. CASE SendCompletes(j)
    BY <2>2 DEF Moving
  <2>3. CASE SendFails(j)
    BY <1>h, <2>3 DEF SendFails
  <2>4. CASE HandlerDropped(j)
    BY <1>h, <2>4 DEF HandlerDropped
  <2> QED BY <1>1, <2>1, <2>2, <2>3, <2>4 DEF HandlerStep
<1>2. ASSUME NEW w \in Workers, WorkerStep(w) \/ WorkerPanics(w) PROVE Quiet \/ Moving
  <2>1. CASE LockReceiver(w)
    BY <1>w, <2>1 DEF LockReceiver
  <2>2. CASE Execute(w)
    BY <1>w, <2>2 DEF Execute
  <2>3. CASE Post(w)
    BY <1>w, <2>3 DEF Post
  <2>4. CASE PostFails(w)
    BY <1>w, <2>4 DEF PostFails
  <2>5. CASE Retry(w)
    BY <1>w, <2>5 DEF Retry
  <2>6. CASE Receive(w) \/ WorkerPanics(w) \/ PostAnswered(w) \/ GiveUp(w)
    BY <2>6 DEF Moving
  <2> QED BY <1>2, <2>1, <2>2, <2>3, <2>4, <2>5, <2>6 DEF WorkerStep
<1>3. CASE (\E r \in sent \ received : ReportArrives(r)) \/ Signal \/ Exit \/ UNCHANGED vars
  BY <1>3 DEF ReportArrives, Signal, Exit, vars, workerVars, Quiet, AllDead
<1> QED BY <1>1, <1>2, <1>3 DEF Next

\* What the moving steps do to the places of jobs.
LEMMA SendFacts ==
  ASSUME TypeOK, NEW j \in Jobs, SendCompletes(j)
  PROVE  /\ handler[j] = "sending" /\ ~AllDead
         /\ handler' = [handler EXCEPT ![j] = "accepted"]
         /\ Len(queue') = Len(queue) + 1
         /\ \A i \in 1 .. Len(queue) : queue'[i] = queue[i]
         /\ queue'[Len(queue) + 1] = j
         /\ UNCHANGED <<job, ended, worker>>
<1>1. queue \in Seq(Jobs)
  BY DEF TypeOK
<1> QED BY <1>1 DEF SendCompletes, HandlerMoves, workerVars

LEMMA ReceiveFacts ==
  ASSUME TypeOK, NEW w \in Workers, Receive(w)
  PROVE  /\ Len(queue) > 0 /\ queue[1] \in Jobs
         /\ job' = [job EXCEPT ![w] = queue[1]]
         /\ Len(queue') = Len(queue) - 1
         /\ \A i \in 1 .. Len(queue') : queue'[i] = queue[i + 1]
         /\ UNCHANGED <<handler, ended>>
<1>1. queue \in Seq(Jobs)
  BY DEF TypeOK
<1>2. queue # <<>> /\ job' = [job EXCEPT ![w] = Head(queue)] /\ queue' = Tail(queue)
      /\ UNCHANGED <<handler, ended>>
  BY DEF Receive, WorkerMoves
<1> QED BY <1>1, <1>2

LEMMA EndFacts ==
  ASSUME TypeOK, LocalsInv, NEW w \in Workers, PostAnswered(w) \/ GiveUp(w)
  PROVE  /\ job[w] \in Jobs /\ worker[w] = "awaiting" /\ worker'[w] = "locking"
         /\ job' = [job EXCEPT ![w] = NoJob]
         /\ \E how \in {"delivered", "failed"} : ended' = [ended EXCEPT ![job[w]] = how]
         /\ status' = [status EXCEPT ![w] = "none"]
         /\ \A v \in Workers \ {w} : worker'[v] = worker[v]
         /\ UNCHANGED <<handler, queue, sent>>
<1>1. /\ worker \in [Workers -> WorkerPC]
      /\ job \in [Workers -> Jobs \cup {NoJob}]
  BY DEF TypeOK
<1>2. WorkerMoves(w, "awaiting", "locking") /\ UNCHANGED <<queue, receiver, wireVars>>
  BY DEF PostAnswered, GiveUp
<1>3. PICK how \in {"delivered", "failed"} : JobEnds(w, how)
  BY DEF PostAnswered, GiveUp
<1>4. worker[w] = "awaiting"
  BY <1>2 DEF WorkerMoves
<1>5. job[w] \in Jobs
  BY <1>4, ReportTyped DEF Reporting
<1> QED BY <1>1, <1>2, <1>3, <1>4, <1>5 DEF WorkerMoves, JobEnds, wireVars

\* The channel's definition of waiting, over positions.
LEMMA WaitsFacts ==
  ASSUME TypeOK, NEW j
  PROVE  Waits(j) <=> \E i \in 1 .. Len(queue) : queue[i] = j
BY DEF TypeOK, Waits

\* A job stays in one place: what enters the channel is new, what leaves it goes to
\* one worker, and what leaves a worker is over.
LEMMA PlaceStep ==
  ASSUME TypeOK, TypeOK', LocalsInv, PlaceInv, [Next]_vars
  PROVE  PlaceInv'
<1>t. /\ handler \in [Jobs -> HandlerPC]
      /\ job \in [Workers -> Jobs \cup {NoJob}]
      /\ ended \in [Jobs -> {"no", "delivered", "failed"}]
      /\ Len(queue) \in Nat /\ \A i \in 1 .. Len(queue) : queue[i] \in Jobs
  BY DEF TypeOK
<1>j. NoJob \notin Jobs
  BY JobsAssumption
<1>q. Len(queue') \in Nat /\ \A i \in 1 .. Len(queue') : queue'[i] \in Jobs
  BY DEF TypeOK
<1>p. /\ \A w \in Workers : job[w] # NoJob =>
           /\ handler[job[w]] = "accepted" /\ ended[job[w]] = "no"
           /\ \A i \in 1 .. Len(queue) : queue[i] # job[w]
      /\ \A v, w \in Workers : job[v] # NoJob /\ job[v] = job[w] => v = w
      /\ \A i, k \in 1 .. Len(queue) : queue[i] = queue[k] => i = k
      /\ \A i \in 1 .. Len(queue) : handler[queue[i]] = "accepted" /\ ended[queue[i]] = "no"
      /\ \A j \in Jobs : ended[j] # "no" => handler[j] = "accepted"
  BY WaitsFacts DEF PlaceInv
<1> DEFINE JobsOk ==
             \A w \in Workers : job'[w] # NoJob =>
               /\ handler'[job'[w]] = "accepted" /\ ended'[job'[w]] = "no"
               /\ \A i \in 1 .. Len(queue') : queue'[i] # job'[w]
           OneOk == \A v, w \in Workers : job'[v] # NoJob /\ job'[v] = job'[w] => v = w
           QueueOk ==
             /\ \A i, k \in 1 .. Len(queue') : queue'[i] = queue'[k] => i = k
             /\ \A i \in 1 .. Len(queue') :
                  handler'[queue'[i]] = "accepted" /\ ended'[queue'[i]] = "no"
           EndedOk == \A j \in Jobs : ended'[j] # "no" => handler'[j] = "accepted"
<1>c. JobsOk /\ OneOk /\ QueueOk /\ EndedOk => PlaceInv'
  <2>1. \A x : Waits(x)' <=> \E i \in 1 .. Len(queue') : queue'[i] = x
    BY DEF TypeOK, Waits
  <2> QED BY <2>1 DEF PlaceInv
<1> HIDE DEF JobsOk, OneOk, QueueOk, EndedOk
<1>1. CASE Quiet
  <2>1. UNCHANGED <<queue, job, ended>>
    BY <1>1 DEF Quiet
  <2>2. \A j \in Jobs : handler'[j] = "accepted" <=> handler[j] = "accepted"
    BY <1>1 DEF Quiet
  <2>3. JobsOk
    BY <1>p, <1>t, <2>1, <2>2 DEF JobsOk
  <2>4. OneOk
    BY <1>p, <2>1 DEF OneOk
  <2>5. QueueOk
    BY <1>p, <1>t, <2>1, <2>2 DEF QueueOk
  <2>6. EndedOk
    BY <1>p, <2>1, <2>2 DEF EndedOk
  <2> QED BY <1>c, <2>3, <2>4, <2>5, <2>6
<1>2. ASSUME NEW j \in Jobs, SendCompletes(j) PROVE PlaceInv'
  <2>1. /\ handler[j] = "sending"
        /\ handler' = [handler EXCEPT ![j] = "accepted"]
        /\ Len(queue') = Len(queue) + 1
        /\ \A i \in 1 .. Len(queue) : queue'[i] = queue[i]
        /\ queue'[Len(queue) + 1] = j
        /\ UNCHANGED <<job, ended>>
    BY <1>2, SendFacts
  <2>2. /\ handler'[j] = "accepted"
        /\ \A x \in Jobs : handler[x] = "accepted" => handler'[x] = "accepted"
    BY <1>t, <2>1
  <2>3. /\ ended[j] = "no"
        /\ \A w \in Workers : job[w] # j
        /\ \A i \in 1 .. Len(queue) : queue[i] # j
    BY <1>j, <1>p, <1>t, <2>1
  <2>4. \A i \in 1 .. Len(queue') : i \in 1 .. Len(queue) \/ i = Len(queue) + 1
    BY <1>t, <2>1
  <2>5. JobsOk
    BY <1>p, <1>t, <2>1, <2>2, <2>3, <2>4 DEF JobsOk
  <2>6. OneOk
    BY <1>p, <2>1 DEF OneOk
  <2>7. QueueOk
    BY <1>p, <1>t, <2>1, <2>2, <2>3, <2>4 DEF QueueOk
  <2>8. EndedOk
    BY <1>p, <2>1, <2>2 DEF EndedOk
  <2> QED BY <1>c, <2>5, <2>6, <2>7, <2>8
<1>3. ASSUME NEW w \in Workers, Receive(w) PROVE PlaceInv'
  <2>1. /\ Len(queue) > 0
        /\ job' = [job EXCEPT ![w] = queue[1]]
        /\ Len(queue') = Len(queue) - 1
        /\ \A i \in 1 .. Len(queue') : queue'[i] = queue[i + 1]
        /\ UNCHANGED <<handler, ended>>
    BY <1>3, ReceiveFacts
  <2>2. \A i \in 1 .. Len(queue') : i + 1 \in 1 .. Len(queue) /\ i + 1 # 1
    BY <1>t, <1>q, <2>1
  <2>3. 1 \in 1 .. Len(queue)
    BY <1>t, <2>1
  <2>4. job'[w] = queue[1] /\ \A v \in Workers \ {w} : job'[v] = job[v]
    BY <1>t, <2>1
  <2>5. JobsOk
    <3>1. /\ handler'[job'[w]] = "accepted" /\ ended'[job'[w]] = "no"
          /\ \A i \in 1 .. Len(queue') : queue'[i] # job'[w]
      BY <1>p, <2>1, <2>2, <2>3, <2>4
    <3>2. ASSUME NEW v \in Workers \ {w}, job'[v] # NoJob
          PROVE  /\ handler'[job'[v]] = "accepted" /\ ended'[job'[v]] = "no"
                 /\ \A i \in 1 .. Len(queue') : queue'[i] # job'[v]
      BY <1>p, <2>1, <2>2, <2>4, <3>2
    <3> QED BY <3>1, <3>2 DEF JobsOk
  <2>6. OneOk
    BY <1>p, <2>3, <2>4 DEF OneOk
  <2>7. QueueOk
    <3>1. ASSUME NEW i \in 1 .. Len(queue'), NEW k \in 1 .. Len(queue'), queue'[i] = queue'[k]
          PROVE  i = k
      <4>1. i + 1 = k + 1
        BY <1>p, <2>1, <2>2, <3>1
      <4> QED BY <1>q, <4>1
    <3>2. \A i \in 1 .. Len(queue') :
            handler'[queue'[i]] = "accepted" /\ ended'[queue'[i]] = "no"
      BY <1>p, <2>1, <2>2
    <3> QED BY <3>1, <3>2 DEF QueueOk
  <2>8. EndedOk
    BY <1>p, <2>1 DEF EndedOk
  <2> QED BY <1>c, <2>5, <2>6, <2>7, <2>8
<1>4. ASSUME NEW w \in Workers, WorkerPanics(w) PROVE PlaceInv'
  <2>1. UNCHANGED <<handler, job, ended>>
    BY <1>4 DEF WorkerPanics, WorkerMoves
  <2>2. queue' = queue \/ queue' = <<>>
    BY <1>4 DEF WorkerPanics
  <2>3. JobsOk
    BY <1>p, <2>1, <2>2 DEF JobsOk
  <2>4. OneOk
    BY <1>p, <2>1 DEF OneOk
  <2>5. QueueOk
    BY <1>p, <2>1, <2>2 DEF QueueOk
  <2>6. EndedOk
    BY <1>p, <2>1 DEF EndedOk
  <2> QED BY <1>c, <2>3, <2>4, <2>5, <2>6
<1>5. ASSUME NEW w \in Workers, PostAnswered(w) \/ GiveUp(w) PROVE PlaceInv'
  <2>1. PICK how \in {"delivered", "failed"} :
          /\ job[w] \in Jobs
          /\ job' = [job EXCEPT ![w] = NoJob]
          /\ ended' = [ended EXCEPT ![job[w]] = how]
          /\ UNCHANGED <<handler, queue>>
    BY <1>5, EndFacts
  <2>2. job'[w] = NoJob /\ \A v \in Workers \ {w} : job'[v] = job[v]
    BY <1>t, <2>1
  <2>3. /\ ended'[job[w]] = how
        /\ \A x \in Jobs : x # job[w] => ended'[x] = ended[x]
    BY <1>t, <2>1
  <2>4. job[w] # NoJob
    BY <1>j, <2>1
  <2>5. JobsOk
    <3>1. ASSUME NEW v \in Workers, job'[v] # NoJob
          PROVE  /\ handler'[job'[v]] = "accepted" /\ ended'[job'[v]] = "no"
                 /\ \A i \in 1 .. Len(queue') : queue'[i] # job'[v]
      <4>1. v # w /\ job'[v] = job[v]
        BY <2>2, <3>1
      <4>2. job[v] \in Jobs /\ job[v] # job[w]
        BY <1>p, <1>t, <2>4, <3>1, <4>1
      <4> QED BY <1>p, <2>1, <2>3, <3>1, <4>1, <4>2
    <3> QED BY <3>1 DEF JobsOk
  <2>6. OneOk
    BY <1>p, <2>2 DEF OneOk
  <2>7. QueueOk
    BY <1>p, <1>t, <2>1, <2>3, <2>4 DEF QueueOk
  <2>8. EndedOk
    BY <1>p, <2>1, <2>3, <2>4 DEF EndedOk
  <2> QED BY <1>c, <2>5, <2>6, <2>7, <2>8
<1> QED BY <1>1, <1>2, <1>3, <1>4, <1>5, StepKinds DEF Moving

\* An accepted job does not go astray while a worker lives.
LEMMA SomewhereStep ==
  ASSUME TypeOK, TypeOK', LocalsInv, SomewhereInv, [Next]_vars
  PROVE  SomewhereInv'
<1>t. /\ handler \in [Jobs -> HandlerPC]
      /\ job \in [Workers -> Jobs \cup {NoJob}]
      /\ ended \in [Jobs -> {"no", "delivered", "failed"}]
      /\ Len(queue) \in Nat
  BY DEF TypeOK
<1>q. /\ \A x : Waits(x) <=> \E i \in 1 .. Len(queue) : queue[i] = x
      /\ \A x : Waits(x)' <=> \E i \in 1 .. Len(queue') : queue'[i] = x
  BY DEF TypeOK, Waits
<1> SUFFICES ASSUME NEW j \in Jobs, handler'[j] = "accepted"
             PROVE  Waits(j)' \/ (\E w \in Workers : job'[w] = j) \/ ended'[j] # "no" \/ AllDead'
  BY DEF SomewhereInv
<1>s. handler[j] = "accepted" =>
        Waits(j) \/ (\E w \in Workers : job[w] = j) \/ ended[j] # "no" \/ AllDead
  BY DEF SomewhereInv
<1>1. CASE Quiet
  <2>1. UNCHANGED <<queue, job, ended>> /\ handler[j] = "accepted" /\ (AllDead => AllDead')
    BY <1>1 DEF Quiet
  <2> QED BY <1>q, <1>s, <2>1
<1>2. ASSUME NEW k \in Jobs, SendCompletes(k)
      PROVE  Waits(j)' \/ (\E w \in Workers : job'[w] = j) \/ ended'[j] # "no" \/ AllDead'
  <2>1. /\ handler' = [handler EXCEPT ![k] = "accepted"] /\ ~AllDead
        /\ Len(queue') = Len(queue) + 1
        /\ \A i \in 1 .. Len(queue) : queue'[i] = queue[i]
        /\ queue'[Len(queue) + 1] = k
        /\ UNCHANGED <<job, ended>>
    BY <1>2, SendFacts
  <2>2. /\ Len(queue) + 1 \in 1 .. Len(queue')
        /\ \A i \in 1 .. Len(queue) : i \in 1 .. Len(queue')
    BY <1>t, <2>1
  <2>3. CASE j = k
    BY <1>q, <2>1, <2>2, <2>3
  <2>4. CASE j # k
    <3>1. handler[j] = "accepted"
      BY <1>t, <2>1, <2>4
    <3> QED BY <1>q, <1>s, <2>1, <2>2, <3>1
  <2> QED BY <2>3, <2>4
<1>3. ASSUME NEW w \in Workers, Receive(w)
      PROVE  Waits(j)' \/ (\E v \in Workers : job'[v] = j) \/ ended'[j] # "no" \/ AllDead'
  <2>1. /\ job' = [job EXCEPT ![w] = queue[1]]
        /\ Len(queue') = Len(queue) - 1
        /\ \A i \in 1 .. Len(queue') : queue'[i] = queue[i + 1]
        /\ UNCHANGED <<handler, ended>>
    BY <1>3, ReceiveFacts
  <2>2. job'[w] = queue[1] /\ \A v \in Workers \ {w} : job'[v] = job[v]
    BY <1>t, <2>1
  <2>3. worker[w] = "receiving" /\ job[w] = NoJob /\ NoJob # j
    BY <1>3, JobsAssumption DEF Receive, WorkerMoves, LocalsInv, Locals
  <2>4. ~AllDead
    BY <2>3 DEF AllDead
  <2>5. CASE Waits(j)
    <3>1. PICK i \in 1 .. Len(queue) : queue[i] = j
      BY <1>q, <2>5
    <3>2. CASE i = 1
      BY <2>2, <3>1, <3>2
    <3>3. CASE i # 1
      <4>1. i - 1 \in 1 .. Len(queue') /\ (i - 1) + 1 = i
        BY <1>t, <2>1, <3>3
      <4>2. queue'[i - 1] = j
        BY <2>1, <3>1, <4>1
      <4> QED BY <1>q, <4>1, <4>2
    <3> QED BY <3>2, <3>3
  <2>6. CASE \E v \in Workers : job[v] = j
    BY <2>2, <2>3, <2>6
  <2> QED BY <1>s, <2>1, <2>4, <2>5, <2>6
<1>4. ASSUME NEW w \in Workers, WorkerPanics(w)
      PROVE  Waits(j)' \/ (\E v \in Workers : job'[v] = j) \/ ended'[j] # "no" \/ AllDead'
  <2>1. /\ UNCHANGED <<handler, job, ended>>
        /\ worker[w] = "executing"
        /\ worker' = [worker EXCEPT ![w] = "dead"]
        /\ worker \in [Workers -> WorkerPC]
    BY <1>4 DEF WorkerPanics, WorkerMoves, TypeOK
  <2>2. ~AllDead
    BY <2>1 DEF AllDead
  <2>3. queue' = queue \/ AllDead'
    <3>1. CASE \A v \in Workers \ {w} : worker[v] = "dead"
      BY <2>1, <3>1 DEF AllDead
    <3>2. CASE ~ \A v \in Workers \ {w} : worker[v] = "dead"
      BY <1>4, <3>2 DEF WorkerPanics
    <3> QED BY <3>1, <3>2
  <2> QED BY <1>q, <1>s, <2>1, <2>2, <2>3
<1>5. ASSUME NEW w \in Workers, PostAnswered(w) \/ GiveUp(w)
      PROVE  Waits(j)' \/ (\E v \in Workers : job'[v] = j) \/ ended'[j] # "no" \/ AllDead'
  <2>1. PICK how \in {"delivered", "failed"} :
          /\ job[w] \in Jobs /\ worker[w] = "awaiting"
          /\ job' = [job EXCEPT ![w] = NoJob]
          /\ ended' = [ended EXCEPT ![job[w]] = how]
          /\ UNCHANGED <<handler, queue>>
    BY <1>5, EndFacts
  <2>2. ~AllDead
    BY <2>1 DEF AllDead
  <2>3. \A v \in Workers \ {w} : job'[v] = job[v]
    BY <1>t, <2>1
  <2>4. /\ ended'[job[w]] # "no"
        /\ ended[j] # "no" => ended'[j] # "no"
    BY <1>t, <2>1
  <2> QED BY <1>q, <1>s, <2>1, <2>2, <2>3, <2>4
<1> QED BY <1>1, <1>2, <1>3, <1>4, <1>5, StepKinds DEF Moving

\* What a report says of its job.
LEMMA ReportFields ==
  ASSUME NEW j, NEW n, NEW s
  PROVE  Report(j, n, s).job = j /\ Report(j, n, s).status = s
BY DEF Report

\* As long as a worker keeps its job, its outcome and its reporting, what has been
\* sent stays covered.
LEMMA VerdictKept ==
  ASSUME VerdictInv, UNCHANGED sent,
         \A x \in Jobs : ended[x] # "no" => ended'[x] # "no",
         TypeOK,
         \A w \in Workers : worker[w] \in Reporting =>
           \/ worker'[w] \in Reporting /\ job'[w] = job[w] /\ status'[w] = status[w]
           \/ job[w] \in Jobs /\ ended'[job[w]] # "no"
  PROVE  VerdictInv'
<1>1. \A r \in sent : r.job \in Jobs
  BY ReportFields DEF TypeOK
<1>2. \A q, r \in sent' : q.job = r.job => q.status = r.status
  BY DEF VerdictInv
<1>3. ASSUME NEW r \in sent'
      PROVE  \/ ended'[r.job] # "no"
             \/ \E w \in Workers :
                  job'[w] = r.job /\ worker'[w] \in Reporting /\ status'[w] = r.status
  <2>1. CASE ended[r.job] # "no"
    BY <1>1, <1>3, <2>1
  <2>2. ASSUME NEW w \in Workers, job[w] = r.job, worker[w] \in Reporting, status[w] = r.status
        PROVE  \/ ended'[r.job] # "no"
               \/ \E v \in Workers :
                    job'[v] = r.job /\ worker'[v] \in Reporting /\ status'[v] = r.status
    BY <2>2
  <2>3. r \in sent
    BY <1>3
  <2>4. \/ ended[r.job] # "no"
        \/ \E w \in Workers : job[w] = r.job /\ worker[w] \in Reporting /\ status[w] = r.status
    BY <2>3 DEF VerdictInv
  <2> QED BY <2>1, <2>2, <2>4
<1> QED BY <1>2, <1>3 DEF VerdictInv

\* No step makes two different verdicts: an outcome is set before the first report,
\* once, by the only worker that has the job.
LEMMA VerdictStep ==
  ASSUME TypeOK, LocalsInv, PlaceInv, VerdictInv, [Next]_vars
  PROVE  VerdictInv'
<1>t. /\ worker \in [Workers -> WorkerPC]
      /\ job \in [Workers -> Jobs \cup {NoJob}]
      /\ ended \in [Jobs -> {"no", "delivered", "failed"}]
      /\ status \in [Workers -> Status \cup {"none"}]
  BY DEF TypeOK
<1>1. ASSUME NEW j \in Jobs, SpawnJob(j) \/ HandlerStep(j) PROVE VerdictInv'
  <2>1. UNCHANGED <<worker, job, status, ended, sent>>
    BY <1>1 DEF SpawnJob, HandlerStep, SendCompletes, SendFails, HandlerDropped,
                HandlerMoves, workerVars, wireVars
  <2> QED BY <2>1, VerdictKept
<1>2. ASSUME NEW w \in Workers, LockReceiver(w) \/ Receive(w) \/ WorkerPanics(w)
      PROVE  VerdictInv'
  <2>1. /\ worker[w] \notin Reporting
        /\ UNCHANGED <<status, ended, sent>>
        /\ \A v \in Workers \ {w} : worker'[v] = worker[v] /\ job'[v] = job[v]
    BY <1>2, <1>t DEF LockReceiver, Receive, WorkerPanics, WorkerMoves, Reporting, wireVars
  <2> QED BY <2>1, VerdictKept
<1>3. ASSUME NEW w \in Workers, Execute(w) PROVE VerdictInv'
  <2>1. /\ worker[w] = "executing"
        /\ UNCHANGED <<job, ended, sent>>
        /\ \A v \in Workers \ {w} : worker'[v] = worker[v] /\ status'[v] = status[v]
    BY <1>3, <1>t DEF Execute, WorkerMoves, wireVars
  <2> QED BY <2>1, VerdictKept DEF Reporting
<1>4. ASSUME NEW w \in Workers, Post(w) PROVE VerdictInv'
  <2>1. /\ worker[w] = "posting" /\ worker'[w] = "awaiting"
        /\ \A v \in Workers \ {w} : worker'[v] = worker[v]
        /\ UNCHANGED <<job, status, ended>>
        /\ sent' = sent \cup {ThisReport(w)}
    BY <1>4, <1>t DEF Post, WorkerMoves
  <2>2. ThisReport(w).job = job[w] /\ ThisReport(w).status = status[w]
    BY ReportFields DEF ThisReport
  <2>3. job[w] \in Jobs /\ job[w] # NoJob
    BY <2>1, ReportTyped, JobsAssumption DEF Reporting
  <2>4. ended[job[w]] = "no" /\ \A v \in Workers : job[v] = job[w] => v = w
    BY <2>3 DEF PlaceInv
  <2>5. \A r \in sent : r.job = job[w] => r.status = status[w]
    BY <2>4 DEF VerdictInv
  <2>6. \A q, r \in sent' : q.job = r.job => q.status = r.status
    <3>1. \A q, r \in sent : q.job = r.job => q.status = r.status
      BY DEF VerdictInv
    <3> QED BY <2>1, <2>2, <2>5, <3>1
  <2>7. ASSUME NEW r \in sent'
        PROVE  \/ ended'[r.job] # "no"
               \/ \E v \in Workers :
                    job'[v] = r.job /\ worker'[v] \in Reporting /\ status'[v] = r.status
    <3>1. CASE r = ThisReport(w)
      BY <2>1, <2>2, <3>1 DEF Reporting
    <3>2. CASE r \in sent
      <4>1. \A v \in Workers : worker[v] \in Reporting => worker'[v] \in Reporting
        BY <2>1 DEF Reporting
      <4> QED BY <2>1, <3>2, <4>1 DEF VerdictInv
    <3> QED BY <2>1, <2>7, <3>1, <3>2
  <2> QED BY <2>6, <2>7 DEF VerdictInv
<1>5. ASSUME NEW w \in Workers, PostAnswered(w) \/ GiveUp(w) PROVE VerdictInv'
  <2>1. PICK how \in {"delivered", "failed"} :
          /\ job[w] \in Jobs
          /\ job' = [job EXCEPT ![w] = NoJob]
          /\ ended' = [ended EXCEPT ![job[w]] = how]
          /\ status' = [status EXCEPT ![w] = "none"]
          /\ \A v \in Workers \ {w} : worker'[v] = worker[v]
          /\ UNCHANGED sent
    BY <1>5, EndFacts
  <2>2. \A v \in Workers \ {w} : job'[v] = job[v] /\ status'[v] = status[v]
    BY <1>t, <2>1
  <2>3. /\ ended'[job[w]] # "no"
        /\ \A x \in Jobs : ended[x] # "no" => ended'[x] # "no"
    BY <1>t, <2>1
  <2> QED BY <2>1, <2>2, <2>3, VerdictKept
<1>6. ASSUME NEW w \in Workers, PostFails(w) \/ Retry(w) PROVE VerdictInv'
  <2>1. /\ worker'[w] \in Reporting
        /\ \A v \in Workers \ {w} : worker'[v] = worker[v]
        /\ UNCHANGED <<job, status, ended, sent>>
    BY <1>6, <1>t DEF PostFails, Retry, WorkerMoves, Reporting, wireVars
  <2> QED BY <2>1, VerdictKept
<1>7. CASE (\E r \in sent \ received : ReportArrives(r)) \/ Signal \/ Exit \/ UNCHANGED vars
  <2>1. UNCHANGED <<worker, job, status, ended, sent>>
    BY <1>7 DEF ReportArrives, Signal, Exit, vars, workerVars, wireVars
  <2> QED BY <2>1, VerdictKept
<1> QED BY <1>1, <1>2, <1>3, <1>4, <1>5, <1>6, <1>7 DEF Next, WorkerStep

\* The inductive invariant of the asynchronous mode.
THEOREM InvariantCorrect == Spec => []IInv
<1>1. Init => IInv
  <2> SUFFICES ASSUME Init PROVE IInv
    OBVIOUS
  <2>1. TypeOK /\ LocalsInv
    BY JobsAssumption, QueueCapAssumption, MaxAttemptsAssumption
       DEF Init, TypeOK, LocalsInv, Locals, HandlerPC, WorkerPC, Status, Reporting
  <2>2. PlaceInv /\ SomewhereInv /\ VerdictInv
    BY DEF Init, PlaceInv, SomewhereInv, VerdictInv
  <2> QED BY <2>1, <2>2 DEF IInv
<1>2. IInv /\ [Next]_vars => IInv'
  BY TypeStep, PlaceStep, SomewhereStep, VerdictStep DEF IInv
<1> QED BY <1>1, <1>2, PTL DEF Spec

\* A client is never told both that its job succeeded and that it failed, however
\* many workers, attempts and late reports there are.
THEOREM ClientHearsOneVerdict == Spec => []OneVerdict
<1>1. IInv => OneVerdict
  BY DEF IInv, TypeOK, VerdictInv, OneVerdict
<1> QED BY <1>1, InvariantCorrect, PTL

\* No accepted job is in two places, so none is converted twice; and none is in no
\* place while a worker lives.
THEOREM AcceptedJobsStay == Spec => []JobsConserved
<1>1. IInv => JobsConserved
  <2> SUFFICES ASSUME IInv, NEW j \in Jobs
               PROVE  /\ Cardinality(Places(j)) <= 1
                      /\ Places(j) # {} => handler[j] = "accepted"
                      /\ handler[j] = "accepted" /\ Places(j) = {} => AllDead
    BY DEF JobsConserved
  <2>t. /\ queue \in Seq(Jobs)
        /\ DOMAIN queue = 1 .. Len(queue)
        /\ j # NoJob
    BY JobsAssumption DEF IInv, TypeOK
  <2>q. Waits(j) <=> \E i \in 1 .. Len(queue) : queue[i] = j
    BY WaitsFacts DEF IInv
  <2>1. \A p \in Places(j) :
          \/ \E i \in 1 .. Len(queue) : p = <<"queue", i>> /\ queue[i] = j
          \/ \E w \in Workers : p = <<"worker", w>> /\ job[w] = j
          \/ p = <<"ended", ended[j]>> /\ ended[j] # "no"
    BY <2>t DEF Places
  <2>2. \A w \in Workers : job[w] = j =>
          /\ handler[j] = "accepted" /\ ended[j] = "no"
          /\ \A i \in 1 .. Len(queue) : queue[i] # j
          /\ \A v \in Workers : job[v] = j => v = w
    BY <2>t, <2>q DEF IInv, PlaceInv
  <2>3. \A i \in 1 .. Len(queue) : queue[i] = j =>
          /\ handler[j] = "accepted" /\ ended[j] = "no"
          /\ \A k \in 1 .. Len(queue) : queue[k] = j => k = i
    BY DEF IInv, PlaceInv
  <2>4. ended[j] # "no" => handler[j] = "accepted"
    BY DEF IInv, PlaceInv
  <2>5. \A p, q \in Places(j) : p = q
    BY <2>1, <2>2, <2>3
  <2>6. Cardinality(Places(j)) <= 1
    <3>1. CASE Places(j) = {}
      BY <3>1, FS_EmptySet
    <3>2. CASE Places(j) # {}
      <4>1. PICK p : p \in Places(j)
        BY <3>2
      <4>2. Places(j) = {p}
        BY <2>5, <4>1
      <4>3. Cardinality({p}) = 1
        BY FS_Singleton
      <4> QED BY <4>2, <4>3
    <3> QED BY <3>1, <3>2
  <2>7. Places(j) # {} => handler[j] = "accepted"
    BY <2>1, <2>2, <2>3, <2>4
  <2>8. ASSUME handler[j] = "accepted", Places(j) = {} PROVE AllDead
    <3>1. ~ Waits(j)
      <4>1. SUFFICES ASSUME NEW i \in 1 .. Len(queue), queue[i] = j PROVE FALSE
        BY <2>q
      <4>2. <<"queue", i>> \in Places(j)
        BY <2>t, <4>1 DEF Places
      <4> QED BY <2>8, <4>2
    <3>2. \A w \in Workers : job[w] # j
      <4>1. SUFFICES ASSUME NEW w \in Workers, job[w] = j PROVE FALSE
        OBVIOUS
      <4>2. <<"worker", w>> \in Places(j)
        BY <4>1 DEF Places
      <4> QED BY <2>8, <4>2
    <3>3. ended[j] = "no"
      <4>1. SUFFICES ASSUME ended[j] # "no" PROVE FALSE
        OBVIOUS
      <4>2. <<"ended", ended[j]>> \in Places(j)
        BY <4>1 DEF Places
      <4> QED BY <2>8, <4>2
    <3> QED BY <2>8, <3>1, <3>2, <3>3 DEF IInv, SomewhereInv
  <2> QED BY <2>6, <2>7, <2>8
<1> QED BY <1>1, InvariantCorrect, PTL

-----------------------------------------------------------------------------
(* WebhookService implements WebhookPromise.                                *)

\* How many reports a worker has sent of its job.
Tried(w) == IF worker[w] = "posting" THEN attempt[w] - 1 ELSE attempt[w]

\* What has been sent of a job at work: one report per attempt, all alike.
CountInv ==
  \A w \in Workers : worker[w] \in Reporting =>
    {r \in sent : r.job = job[w]} = {Report(job[w], n, status[w]) : n \in 1 .. Tried(w)}

\* Reports that differ in their attempt are different.
LEMMA ReportsCount ==
  ASSUME NEW j, NEW s, NEW k \in Nat
  PROVE  Cardinality({Report(j, n, s) : n \in 1 .. k}) = k
<1> DEFINE T == {Report(j, n, s) : n \in 1 .. k}
           f == [n \in 1 .. k |-> Report(j, n, s)]
<1>1. f \in [1 .. k -> T]
  OBVIOUS
<1>2. \A n \in 1 .. k : f[n].attempt = n
  BY DEF Report
<1>3. \A m, n \in 1 .. k : f[m] = f[n] => m = n
  BY <1>2
<1>4. \A t \in T : \E n \in 1 .. k : f[n] = t
  OBVIOUS
<1>5. f \in Bijection(1 .. k, T)
  <2> HIDE DEF f, T
  <2> QED BY <1>1, <1>3, <1>4 DEF Bijection, Injection, Surjection, IsInjective
<1>6. IsFiniteSet(1 .. k) /\ Cardinality(1 .. k) = k
  BY FS_Interval
<1>7. Cardinality(T) = Cardinality(1 .. k)
  <2> HIDE DEF f, T
  <2>1. ExistsBijection(1 .. k, T)
    BY <1>5 DEF ExistsBijection
  <2> QED BY <1>6, <2>1, FS_Bijection
<1> QED BY <1>6, <1>7

\* The reports of one job are counted by one worker.
LEMMA CountStep ==
  ASSUME IInv, CountInv, [Next]_vars
  PROVE  CountInv'
<1>t. /\ worker \in [Workers -> WorkerPC]
      /\ job \in [Workers -> Jobs \cup {NoJob}]
      /\ attempt \in [Workers -> 0 .. MaxAttempts]
      /\ status \in [Workers -> Status \cup {"none"}]
      /\ MaxAttempts \in Nat
  BY MaxAttemptsAssumption DEF IInv, TypeOK
<1>c. \A v \in Workers : worker[v] \in Reporting =>
        {r \in sent : r.job = job[v]} = {Report(job[v], n, status[v]) : n \in 1 .. Tried(v)}
  BY DEF CountInv
\* A worker that reports afterwards did so before, or has just concluded or posted.
<1>k. ASSUME NEW v \in Workers, UNCHANGED sent, worker[v] \in Reporting,
             job'[v] = job[v], status'[v] = status[v], Tried(v)' = Tried(v)
      PROVE  {r \in sent : r.job = job[v]}' = {Report(job[v], n, status[v]) : n \in 1 .. Tried(v)}'
  BY <1>c, <1>k
<1>o. ASSUME NEW w \in Workers, NEW v \in Workers \ {w}, worker'[v] \in Reporting,
             UNCHANGED sent, worker'[v] = worker[v], job'[v] = job[v],
             status'[v] = status[v], attempt'[v] = attempt[v]
      PROVE  {r \in sent : r.job = job[v]}' = {Report(job[v], n, status[v]) : n \in 1 .. Tried(v)}'
  BY <1>k, <1>o DEF Tried
<1>1. ASSUME UNCHANGED <<worker, job, attempt, status, sent>> PROVE CountInv'
  BY <1>k, <1>1 DEF CountInv, Tried
<1>2. ASSUME NEW w \in Workers, LockReceiver(w) \/ Receive(w) \/ WorkerPanics(w)
      PROVE  CountInv'
  <2>1. /\ worker'[w] \notin Reporting
        /\ UNCHANGED <<attempt, status, sent>>
        /\ \A v \in Workers \ {w} : worker'[v] = worker[v] /\ job'[v] = job[v]
    BY <1>2, <1>t DEF LockReceiver, Receive, WorkerPanics, WorkerMoves, Reporting, wireVars
  <2> QED BY <1>o, <2>1 DEF CountInv
<1>3. ASSUME NEW w \in Workers, Execute(w) PROVE CountInv'
  <2>1. /\ worker[w] = "executing" /\ worker'[w] = "posting"
        /\ UNCHANGED <<job, ended, sent>>
        /\ attempt' = [attempt EXCEPT ![w] = 1]
        /\ \A v \in Workers \ {w} : worker'[v] = worker[v] /\ status'[v] = status[v]
    BY <1>3, <1>t DEF Execute, WorkerMoves, wireVars
  <2>2. attempt'[w] = 1 /\ \A v \in Workers \ {w} : attempt'[v] = attempt[v]
    BY <1>t, <2>1
  <2>3. job[w] # NoJob
    BY <2>1 DEF IInv, LocalsInv, Locals
  <2>4. ended[job[w]] = "no" /\ \A v \in Workers : job[v] = job[w] => v = w
    BY <2>3 DEF IInv, PlaceInv
  <2>5. {r \in sent : r.job = job[w]} = {}
    BY <2>1, <2>4 DEF IInv, VerdictInv, Reporting
  <2>6. Tried(w)' = 0
    BY <2>1, <2>2 DEF Tried
  <2>7. {r \in sent : r.job = job[w]}' = {Report(job[w], n, status[w]) : n \in 1 .. Tried(w)}'
    BY <2>1, <2>5, <2>6
  <2> QED BY <1>o, <2>1, <2>2, <2>7 DEF CountInv
<1>4. ASSUME NEW w \in Workers, Post(w) PROVE CountInv'
  <2>1. /\ worker[w] = "posting" /\ worker'[w] = "awaiting"
        /\ \A v \in Workers \ {w} : worker'[v] = worker[v]
        /\ UNCHANGED <<job, attempt, status>>
        /\ sent' = sent \cup {ThisReport(w)}
    BY <1>4, <1>t DEF Post, WorkerMoves
  <2>2. /\ ThisReport(w) = Report(job[w], attempt[w], status[w])
        /\ ThisReport(w).job = job[w]
    BY ReportFields DEF ThisReport
  <2>3. /\ job[w] \in Jobs /\ job[w] # NoJob
        /\ attempt[w] \in 1 .. MaxAttempts
    BY <2>1, ReportTyped, JobsAssumption DEF Reporting, IInv
  <2>4. \A v \in Workers : job[v] = job[w] => v = w
    BY <2>3 DEF IInv, PlaceInv
  <2>5. ASSUME NEW v \in Workers, worker'[v] \in Reporting
        PROVE  {r \in sent : r.job = job[v]}' = {Report(job[v], n, status[v]) : n \in 1 .. Tried(v)}'
    <3>1. CASE v = w
      <4>1. {r \in sent : r.job = job[w]} = {Report(job[w], n, status[w]) : n \in 1 .. attempt[w] - 1}
        BY <1>c, <2>1 DEF Tried, Reporting
      <4>2. Tried(w)' = attempt[w]
        BY <2>1 DEF Tried
      <4>3. \A n : n \in 1 .. attempt[w] <=> n \in 1 .. attempt[w] - 1 \/ n = attempt[w]
        BY <2>3
      <4>4. {r \in sent' : r.job = job[w]} = {r \in sent : r.job = job[w]} \cup {ThisReport(w)}
        BY <2>1, <2>2
      <4>5. {Report(job[w], n, status[w]) : n \in 1 .. attempt[w]}
              = {Report(job[w], n, status[w]) : n \in 1 .. attempt[w] - 1} \cup {ThisReport(w)}
        BY <2>2, <4>3
      <4> QED BY <2>1, <3>1, <4>1, <4>2, <4>4, <4>5
    <3>2. CASE v # w
      <4>1. worker[v] \in Reporting /\ Tried(v)' = Tried(v)
        BY <2>1, <2>5, <3>2 DEF Tried
      <4>2. job[v] # job[w]
        BY <2>4, <3>2
      <4>3. {r \in sent' : r.job = job[v]} = {r \in sent : r.job = job[v]}
        BY <2>1, <2>2, <4>2
      <4> QED BY <1>c, <2>1, <4>1, <4>3
    <3> QED BY <3>1, <3>2
  <2> QED BY <2>5 DEF CountInv
<1>5. ASSUME NEW w \in Workers, PostAnswered(w) \/ GiveUp(w) PROVE CountInv'
  <2>1. /\ worker'[w] = "locking"
        /\ \A v \in Workers \ {w} : worker'[v] = worker[v]
        /\ UNCHANGED sent
    BY <1>5, EndFacts DEF IInv
  <2>2. PICK how : JobEnds(w, how)
    BY <1>5 DEF PostAnswered, GiveUp
  <2>3. \A v \in Workers \ {w} : job'[v] = job[v] /\ status'[v] = status[v]
    BY <1>t, <2>2 DEF JobEnds
  <2>4. attempt' = [attempt EXCEPT ![w] = 0]
    BY <2>2 DEF JobEnds
  <2>5. \A v \in Workers \ {w} : attempt'[v] = attempt[v]
    BY <1>t, <2>4
  <2> QED BY <1>o, <2>1, <2>3, <2>5 DEF CountInv, Reporting
<1>6. ASSUME NEW w \in Workers, PostFails(w) PROVE CountInv'
  <2>1. /\ worker[w] = "awaiting" /\ worker'[w] = "sleeping"
        /\ \A v \in Workers \ {w} : worker'[v] = worker[v]
        /\ UNCHANGED <<job, attempt, status, sent>>
    BY <1>6, <1>t DEF PostFails, WorkerMoves, wireVars
  <2>2. Tried(w)' = Tried(w) /\ worker[w] \in Reporting
    BY <2>1 DEF Tried, Reporting
  <2> QED BY <1>k, <1>o, <2>1, <2>2 DEF CountInv
<1>7. ASSUME NEW w \in Workers, Retry(w) PROVE CountInv'
  <2>1. /\ worker[w] = "sleeping" /\ worker'[w] = "posting"
        /\ \A v \in Workers \ {w} : worker'[v] = worker[v]
        /\ UNCHANGED <<job, status, sent>>
        /\ attempt' = [attempt EXCEPT ![w] = attempt[w] + 1]
    BY <1>7, <1>t DEF Retry, WorkerMoves, wireVars
  <2>2. /\ attempt'[w] = attempt[w] + 1 /\ attempt[w] \in Nat
        /\ \A v \in Workers \ {w} : attempt'[v] = attempt[v]
    BY <1>t, <2>1
  <2>3. Tried(w)' = Tried(w) /\ worker[w] \in Reporting
    BY <2>1, <2>2 DEF Tried, Reporting
  <2> QED BY <1>k, <1>o, <2>1, <2>2, <2>3 DEF CountInv
<1>8. ASSUME NEW j \in Jobs, SpawnJob(j) \/ HandlerStep(j)
      PROVE  UNCHANGED <<worker, job, attempt, status, sent>>
  BY <1>8 DEF SpawnJob, HandlerStep, SendCompletes, SendFails, HandlerDropped,
              HandlerMoves, workerVars, wireVars
<1>9. CASE (\E r \in sent \ received : ReportArrives(r)) \/ Signal \/ Exit \/ UNCHANGED vars
  <2>1. UNCHANGED <<worker, job, attempt, status, sent>>
    BY <1>9 DEF ReportArrives, Signal, Exit, vars, workerVars, wireVars
  <2> QED BY <1>1, <2>1
<1> QED BY <1>1, <1>2, <1>3, <1>4, <1>5, <1>6, <1>7, <1>8, <1>9 DEF Next, WorkerStep

\* The phase of a job, case by case.
PhaseTable ==
  \A j \in Jobs :
    /\ handler[j] # "accepted" => Phase(j) = "none"
    /\ ended[j] = "delivered" => Phase(j) = "delivered"
    /\ ended[j] = "failed" => Phase(j) = "abandoned"
    /\ \A w \in Workers : job[w] = j =>
         /\ worker[w] \in Reporting => Phase(j) = "reporting"
         /\ worker[w] = "executing" => Phase(j) = "accepted"
         /\ worker[w] = "dead" => Phase(j) = "lost"
    /\ \A i \in 1 .. Len(queue) : queue[i] = j => Phase(j) = "accepted"

LEMMA PhaseTableHolds == IInv => PhaseTable
<1> SUFFICES ASSUME IInv, NEW j \in Jobs
             PROVE  /\ handler[j] # "accepted" => Phase(j) = "none"
                    /\ ended[j] = "delivered" => Phase(j) = "delivered"
                    /\ ended[j] = "failed" => Phase(j) = "abandoned"
                    /\ \A w \in Workers : job[w] = j =>
                         /\ worker[w] \in Reporting => Phase(j) = "reporting"
                         /\ worker[w] = "executing" => Phase(j) = "accepted"
                         /\ worker[w] = "dead" => Phase(j) = "lost"
                    /\ \A i \in 1 .. Len(queue) : queue[i] = j => Phase(j) = "accepted"
  BY DEF PhaseTable
<1>1. NoJob # j
  BY JobsAssumption
<1>2. Waits(j) <=> \E i \in 1 .. Len(queue) : queue[i] = j
  BY WaitsFacts DEF IInv
<1>3. \A w \in Workers : job[w] = j =>
        /\ handler[j] = "accepted" /\ ended[j] = "no" /\ ~Waits(j)
        /\ \A v \in Workers : job[v] = j => v = w
  BY <1>1 DEF IInv, PlaceInv
<1>4. \A i \in 1 .. Len(queue) : queue[i] = j => handler[j] = "accepted" /\ ended[j] = "no"
  BY DEF IInv, PlaceInv
<1>5. ended[j] # "no" => handler[j] = "accepted"
  BY DEF IInv, PlaceInv
<1>6. handler[j] # "accepted" => Phase(j) = "none"
  BY DEF Phase
<1>7. ended[j] = "delivered" => Phase(j) = "delivered"
  BY <1>5 DEF Phase
<1>8. ended[j] = "failed" => Phase(j) = "abandoned"
  BY <1>5 DEF Phase
<1>9. ASSUME NEW w \in Workers, job[w] = j
      PROVE  /\ worker[w] \in Reporting => Phase(j) = "reporting"
             /\ worker[w] = "executing" => Phase(j) = "accepted"
             /\ worker[w] = "dead" => Phase(j) = "lost"
  BY <1>3, <1>9 DEF Phase, AtWork, Reporting
<1>10. ASSUME NEW i \in 1 .. Len(queue), queue[i] = j PROVE Phase(j) = "accepted"
  <2>1. handler[j] = "accepted" /\ ended[j] = "no" /\ Waits(j)
    BY <1>2, <1>4, <1>10
  <2>2. \A w \in Workers : job[w] # j
    BY <1>3, <2>1
  <2> QED BY <2>1, <2>2 DEF Phase
<1> QED BY <1>6, <1>7, <1>8, <1>9, <1>10

LEMMA PhaseTableNext == IInv' => PhaseTable'
BY PhaseTableHolds, PTL

\* What a phase depends on.
LEMMA PhaseKept ==
  ASSUME NEW j,
         handler'[j] = "accepted" <=> handler[j] = "accepted",
         ended'[j] = ended[j],
         Waits(j)' <=> Waits(j),
         \A w \in Workers :
           /\ job'[w] = j <=> job[w] = j
           /\ job[w] = j =>
                /\ worker'[w] \in Reporting <=> worker[w] \in Reporting
                /\ worker'[w] = "dead" <=> worker[w] = "dead"
  PROVE  Phase(j)' = Phase(j)
<1>1. (\E w \in Workers : job'[w] = j /\ worker'[w] \in Reporting)
        <=> (\E w \in Workers : job[w] = j /\ worker[w] \in Reporting)
  OBVIOUS
<1>2. AtWork(j)' <=> AtWork(j)
  BY DEF AtWork
<1> QED BY <1>1, <1>2 DEF Phase, Reporting


PhaseOf == [j \in Jobs |-> Phase(j)]

\* One job changes its phase, the others do not.
LEMMA OneMoves ==
  ASSUME NEW j \in Jobs, \A x \in Jobs \ {j} : Phase(x)' = Phase(x)
  PROVE  PhaseOf' = [PhaseOf EXCEPT ![j] = Phase(j)']
BY DEF PhaseOf

\* The other jobs do not notice that a worker's job goes its way.
LEMMA OthersKeepPhase ==
  ASSUME IInv, NEW w \in Workers, NEW x, x # NoJob, UNCHANGED <<handler, queue>>,
         \A v \in Workers \ {w} : worker'[v] = worker[v] /\ job'[v] = job[v],
         job[w] # x, job'[w] # x, ended'[x] = ended[x]
  PROVE  Phase(x)' = Phase(x)
<1>1. Waits(x)' <=> Waits(x)
  BY DEF Waits
<1> QED BY <1>1, PhaseKept

\* A step is one of WebhookPromise, or nothing a client could see.
PromiseGoal == Promise!Next \/ UNCHANGED Promise!promiseVars

LEMMA Unseen ==
  ASSUME \A j \in Jobs : Phase(j)' = Phase(j),
         UNCHANGED <<sent, received>>, Running' = Running
  PROVE  PromiseGoal
BY DEF PromiseGoal, Promise!promiseVars

\* The 202 is Accept.
LEMMA SendAccepts ==
  ASSUME IInv, IInv', NEW j \in Jobs, SendCompletes(j)
  PROVE  PromiseGoal
<1>1. /\ handler[j] = "sending"
      /\ handler' = [handler EXCEPT ![j] = "accepted"]
      /\ Len(queue') = Len(queue) + 1
      /\ \A i \in 1 .. Len(queue) : queue'[i] = queue[i]
      /\ queue'[Len(queue) + 1] = j
      /\ UNCHANGED <<job, ended, worker>>
  BY SendFacts DEF IInv
<1>2. /\ TypeOK /\ TypeOK' /\ handler \in [Jobs -> HandlerPC] /\ Len(queue) \in Nat
  BY DEF IInv, TypeOK
<1>3. Phase(j) = "none"
  BY <1>1, PhaseTableHolds DEF PhaseTable
<1>4. Phase(j)' = "accepted"
  <2>1. Len(queue) + 1 \in 1 .. Len(queue')
    BY <1>1, <1>2
  <2> QED BY <1>1, <2>1, PhaseTableNext DEF PhaseTable
<1>5. ASSUME NEW x \in Jobs \ {j} PROVE Phase(x)' = Phase(x)
  <2>1. Waits(x) <=> \E i \in 1 .. Len(queue) : queue[i] = x
    BY <1>2, WaitsFacts
  <2>2. Waits(x)' <=> \E i \in 1 .. Len(queue') : queue'[i] = x
    BY <1>2 DEF TypeOK, Waits
  <2>3. \A i \in 1 .. Len(queue') : i \in 1 .. Len(queue) \/ i = Len(queue) + 1
    BY <1>1, <1>2
  <2>4. \A i \in 1 .. Len(queue) : i \in 1 .. Len(queue')
    BY <1>1, <1>2
  <2>5. Waits(x)' <=> Waits(x)
    BY <1>1, <2>1, <2>2, <2>3, <2>4
  <2>6. handler'[x] = handler[x]
    BY <1>1, <1>2
  <2> QED BY <1>1, <2>5, <2>6, PhaseKept
<1>6. PhaseOf' = [PhaseOf EXCEPT ![j] = "accepted"] /\ PhaseOf[j] = "none"
  <2>1. PhaseOf' = [PhaseOf EXCEPT ![j] = Phase(j)']
    BY <1>5, OneMoves
  <2> QED BY <1>3, <1>4, <2>1 DEF PhaseOf
<1>7. Running /\ UNCHANGED <<sent, received, Running>>
  BY DEF SendCompletes, HandlerMoves, wireVars, Running
<1>8. Promise!Accept(j)
  BY <1>6, <1>7 DEF Promise!Accept, Promise!Becomes, PhaseOf
<1> QED BY <1>8 DEF PromiseGoal, Promise!Next

\* The end of execute_job is Conclude.
LEMMA ExecuteConcludes ==
  ASSUME IInv, IInv', NEW w \in Workers, Execute(w)
  PROVE  PromiseGoal
<1>1. /\ worker[w] = "executing" /\ worker'[w] = "posting"
      /\ \A v \in Workers \ {w} : worker'[v] = worker[v]
      /\ UNCHANGED <<handler, queue, job, ended, sent, received>>
      /\ Running /\ UNCHANGED Running
  BY DEF IInv, TypeOK, Execute, WorkerMoves, wireVars, Running
<1>2. PICK j \in Jobs : job[w] = j
  <2>1. job[w] # NoJob
    BY <1>1 DEF IInv, LocalsInv, Locals
  <2>2. job \in [Workers -> Jobs \cup {NoJob}]
    BY DEF IInv, TypeOK
  <2> QED BY <2>1, <2>2
<1>3. Phase(j) = "accepted"
  BY <1>1, <1>2, PhaseTableHolds DEF PhaseTable
<1>4. Phase(j)' = "reporting"
  BY <1>1, <1>2, PhaseTableNext DEF PhaseTable, Reporting
<1>5. ASSUME NEW x \in Jobs \ {j} PROVE Phase(x)' = Phase(x)
  BY <1>1, <1>2, OthersKeepPhase, JobsAssumption
<1>6. PhaseOf' = [PhaseOf EXCEPT ![j] = "reporting"] /\ PhaseOf[j] = "accepted"
  <2>1. PhaseOf' = [PhaseOf EXCEPT ![j] = Phase(j)']
    BY <1>5, OneMoves
  <2> QED BY <1>3, <1>4, <2>1 DEF PhaseOf
<1>7. Promise!Conclude(j)
  BY <1>1, <1>6 DEF Promise!Conclude, Promise!Becomes, PhaseOf
<1> QED BY <1>7 DEF PromiseGoal, Promise!Next

\* WebhookPromise counts as this module does.
LEMMA SameCardinality ==
  ASSUME NEW S
  PROVE  Promise!Cardinality(S) = Cardinality(S)
BY DEF Promise!Cardinality, Cardinality

\* What has been sent of the job of a worker that reports, as WebhookPromise counts it.
LEMMA SentForCounted ==
  ASSUME IInv, CountInv, NEW w \in Workers, worker[w] \in Reporting
  PROVE  /\ Cardinality(Promise!SentFor(job[w])) = Tried(w)
         /\ \A r \in Promise!SentFor(job[w]) : r.status = status[w]
<1>1. attempt[w] \in 1 .. MaxAttempts /\ MaxAttempts \in Nat
  BY MaxAttemptsAssumption DEF IInv, LocalsInv, Locals
<1>2. Tried(w) \in Nat
  BY <1>1 DEF Tried
<1>3. Promise!SentFor(job[w]) = {Report(job[w], n, status[w]) : n \in 1 .. Tried(w)}
  BY DEF CountInv, Promise!SentFor
<1>4. Cardinality({Report(job[w], n, status[w]) : n \in 1 .. Tried(w)}) = Tried(w)
  BY <1>2, ReportsCount
<1> QED BY <1>3, <1>4, ReportFields

\* Each attempt is a Send.
LEMMA PostSends ==
  ASSUME IInv, IInv', CountInv, NEW w \in Workers, Post(w)
  PROVE  PromiseGoal
<1>1. /\ worker[w] = "posting" /\ worker'[w] = "awaiting"
      /\ \A v \in Workers \ {w} : worker'[v] = worker[v]
      /\ UNCHANGED <<handler, queue, job, ended, received>>
      /\ sent' = sent \cup {ThisReport(w)}
      /\ Running /\ UNCHANGED Running
  BY DEF IInv, TypeOK, Post, WorkerMoves, Running
<1>2. worker[w] \in Reporting /\ worker'[w] \in Reporting
  BY <1>1 DEF Reporting
<1>3. /\ job[w] \in Jobs /\ status[w] \in {"success", "error"}
      /\ attempt[w] \in 1 .. MaxAttempts /\ MaxAttempts \in Nat
  BY <1>2, ReportTyped, MaxAttemptsAssumption DEF IInv, Status
<1>4. PICK j \in Jobs : job[w] = j
  BY <1>3
<1>5. Phase(j) = "reporting"
  BY <1>2, <1>4, PhaseTableHolds DEF PhaseTable
<1>6. ASSUME NEW x \in Jobs PROVE Phase(x)' = Phase(x)
  <2>1. Waits(x)' <=> Waits(x)
    BY <1>1 DEF Waits
  <2>2. \A v \in Workers : /\ worker'[v] \in Reporting <=> worker[v] \in Reporting
                           /\ worker'[v] = "dead" <=> worker[v] = "dead"
    BY <1>1, <1>2
  <2> QED BY <1>1, <2>1, <2>2, PhaseKept
<1>7. PhaseOf' = PhaseOf /\ PhaseOf[j] = "reporting"
  BY <1>5, <1>6 DEF PhaseOf
<1>8. /\ Cardinality(Promise!SentFor(j)) = attempt[w] - 1
      /\ \A r \in Promise!SentFor(j) : r.status = status[w]
  BY <1>1, <1>2, <1>4, SentForCounted DEF Tried
<1>9. ThisReport(w) = Promise!Report(j, Cardinality(Promise!SentFor(j)) + 1, status[w])
  <2>1. Cardinality(Promise!SentFor(j)) + 1 = attempt[w]
    BY <1>3, <1>8
  <2> QED BY <1>4, <2>1 DEF ThisReport, Report, Url, Promise!Report, Promise!Url
<1>10. Cardinality(Promise!SentFor(j)) < MaxAttempts
  BY <1>3, <1>8
<1>c. Promise!Cardinality(Promise!SentFor(j)) = Cardinality(Promise!SentFor(j))
  BY SameCardinality
<1>11. \E s \in {"success", "error"} :
          /\ \A r \in Promise!SentFor(j) : r.status = s
          /\ sent' = sent \cup {Promise!Report(j, Cardinality(Promise!SentFor(j)) + 1, s)}
  <2>1. sent' = sent \cup {Promise!Report(j, Cardinality(Promise!SentFor(j)) + 1, status[w])}
    BY <1>1, <1>9
  <2> QED BY <1>3, <1>8, <2>1
<1>12. Promise!Send(j)
  BY <1>1, <1>7, <1>10, <1>11, <1>c DEF Promise!Send, PhaseOf
<1> QED BY <1>12 DEF PromiseGoal, Promise!Next

\* The end of deliver() is Deliver or Abandon.
LEMMA EndDelivers ==
  ASSUME IInv, IInv', CountInv, NEW w \in Workers, PostAnswered(w) \/ GiveUp(w)
  PROVE  PromiseGoal
<1>1. /\ job[w] \in Jobs /\ worker[w] = "awaiting"
      /\ job' = [job EXCEPT ![w] = NoJob]
      /\ \A v \in Workers \ {w} : worker'[v] = worker[v]
      /\ UNCHANGED <<handler, queue, sent>>
  BY EndFacts DEF IInv
<1>2. Running /\ UNCHANGED <<received, Running>>
  BY DEF PostAnswered, GiveUp, WorkerMoves, wireVars, Running
<1>3. PICK j \in Jobs : job[w] = j
  BY <1>1
<1>4. worker[w] \in Reporting
  BY <1>1 DEF Reporting
<1>5. Phase(j) = "reporting"
  BY <1>3, <1>4, PhaseTableHolds DEF PhaseTable
<1>6. ended \in [Jobs -> {"no", "delivered", "failed"}]
      /\ job \in [Workers -> Jobs \cup {NoJob}] /\ received \subseteq sent
  BY DEF IInv, TypeOK
<1>7. \A how : JobEnds(w, how) => ended'[j] = how /\ \A x \in Jobs \ {j} : ended'[x] = ended[x]
  BY <1>3, <1>6 DEF JobEnds
<1>8. \A x \in Jobs \ {j} : ended'[x] = ended[x]
  BY <1>7 DEF PostAnswered, GiveUp
<1>9. ASSUME NEW x \in Jobs \ {j} PROVE Phase(x)' = Phase(x)
  <2>1. x # NoJob
    BY JobsAssumption
  <2>2. /\ job'[w] = NoJob
        /\ \A v \in Workers \ {w} : worker'[v] = worker[v] /\ job'[v] = job[v]
    BY <1>1, <1>6
  <2> QED BY <1>1, <1>3, <1>8, <2>1, <2>2, OthersKeepPhase
<1>10. PhaseOf' = [PhaseOf EXCEPT ![j] = Phase(j)'] /\ PhaseOf[j] = "reporting"
  <2>1. PhaseOf' = [PhaseOf EXCEPT ![j] = Phase(j)']
    BY <1>9, OneMoves
  <2> QED BY <1>5, <2>1 DEF PhaseOf
<1>11. CASE PostAnswered(w)
  <2>1. Phase(j)' = "delivered"
    BY <1>7, <1>11, PhaseTableNext DEF PostAnswered, PhaseTable
  <2>2. ThisReport(w) \in Promise!SentFor(j) \cap received
    BY <1>3, <1>6, <1>11, ReportFields DEF PostAnswered, Promise!SentFor, ThisReport
  <2>3. Promise!Deliver(j)
    BY <1>1, <1>2, <1>10, <2>1, <2>2 DEF Promise!Deliver, Promise!Becomes, PhaseOf
  <2> QED BY <2>3 DEF PromiseGoal, Promise!Next
<1>12. CASE GiveUp(w)
  <2>1. Phase(j)' = "abandoned"
    BY <1>7, <1>12, PhaseTableNext DEF GiveUp, PhaseTable
  <2>2. Cardinality(Promise!SentFor(j)) = MaxAttempts
    BY <1>1, <1>3, <1>4, <1>12, SentForCounted DEF GiveUp, Tried
  <2>3. PhaseOf' = [PhaseOf EXCEPT ![j] = "abandoned"]
    BY <1>10, <2>1
  <2>4. Promise!Becomes(j, "reporting", "abandoned")
    BY <1>2, <1>10, <2>3 DEF Promise!Becomes, PhaseOf
  <2>5. Promise!Abandon(j)
    BY <1>1, <1>2, <2>2, <2>4, SameCardinality DEF Promise!Abandon
  <2> QED BY <2>5 DEF PromiseGoal, Promise!Next
<1> QED BY <1>11, <1>12

\* A panic loses the worker's job, and the last one those that wait: Lose.
LEMMA PanicLoses ==
  ASSUME IInv, IInv', NEW w \in Workers, WorkerPanics(w)
  PROVE  PromiseGoal
<1> DEFINE S == {j \in Jobs : Phase(j) = "accepted" /\ Phase(j)' = "lost"}
<1>1. /\ worker[w] = "executing" /\ worker'[w] = "dead"
      /\ \A v \in Workers \ {w} : worker'[v] = worker[v]
      /\ UNCHANGED <<handler, job, ended, sent, received>>
      /\ Running /\ UNCHANGED Running
      /\ \/ UNCHANGED queue
         \/ queue' = <<>> /\ \A v \in Workers \ {w} : worker[v] = "dead"
  BY DEF IInv, TypeOK, WorkerPanics, WorkerMoves, wireVars, Running
<1>2. ASSUME NEW x \in Jobs, x \notin S PROVE Phase(x)' = Phase(x)
  <2>1. CASE x = job[w]
    <3>1. Phase(x) = "accepted"
      BY <1>1, <2>1, PhaseTableHolds DEF PhaseTable
    <3>2. Phase(x)' = "lost"
      BY <1>1, <2>1, PhaseTableNext DEF PhaseTable
    <3> QED BY <1>2, <3>1, <3>2
  <2>2. CASE x # job[w] /\ (Waits(x)' <=> Waits(x))
    <3>1. \A v \in Workers : job[v] = x =>
             /\ worker'[v] \in Reporting <=> worker[v] \in Reporting
             /\ worker'[v] = "dead" <=> worker[v] = "dead"
      BY <1>1, <2>2
    <3> QED BY <1>1, <2>2, <3>1, PhaseKept
  <2>3. CASE x # job[w] /\ ~(Waits(x)' <=> Waits(x))
    <3>1. queue' = <<>> /\ Waits(x) /\ ~Waits(x)'
      BY <1>1, <2>3 DEF Waits
    <3>2. PICK i \in 1 .. Len(queue) : queue[i] = x
      BY <3>1, WaitsFacts DEF IInv
    <3>3. Phase(x) = "accepted"
      BY <3>2, PhaseTableHolds DEF PhaseTable
    <3>4. handler[x] = "accepted" /\ ended[x] = "no"
      BY <3>2 DEF IInv, PlaceInv
    <3>5. \A v \in Workers : job[v] # x
      BY <3>1, JobsAssumption DEF IInv, PlaceInv
    <3>6. Phase(x)' = "lost"
      BY <1>1, <3>1, <3>4, <3>5 DEF Phase, AtWork
    <3> QED BY <1>2, <3>3, <3>6
  <2> QED BY <2>1, <2>2, <2>3
<1>3. S \in SUBSET Jobs /\ \A j \in S : PhaseOf[j] = "accepted"
  BY DEF PhaseOf
<1>4. PhaseOf' = [j \in Jobs |-> IF j \in S THEN "lost" ELSE PhaseOf[j]]
  BY <1>2 DEF PhaseOf
<1>5. \E T \in SUBSET Jobs : Promise!Lose(T)
  <2> HIDE DEF S
  <2>1. Promise!Lose(S)
    BY <1>1, <1>3, <1>4 DEF Promise!Lose, PhaseOf
  <2> QED BY <1>3, <2>1
<1> QED BY <1>5 DEF PromiseGoal, Promise!Next

\* A job keeps its phase on its way from the channel to a worker.
LEMMA ReceiveUnseen ==
  ASSUME IInv, IInv', NEW w \in Workers, Receive(w)
  PROVE  PromiseGoal
<1>1. /\ Len(queue) > 0 /\ queue[1] \in Jobs
      /\ job' = [job EXCEPT ![w] = queue[1]]
      /\ Len(queue') = Len(queue) - 1
      /\ \A i \in 1 .. Len(queue') : queue'[i] = queue[i + 1]
      /\ UNCHANGED <<handler, ended>>
  BY ReceiveFacts DEF IInv
<1>2. /\ TypeOK /\ TypeOK' /\ Len(queue) \in Nat
      /\ job \in [Workers -> Jobs \cup {NoJob}] /\ worker \in [Workers -> WorkerPC]
  BY DEF IInv, TypeOK
<1>3. /\ worker[w] = "receiving" /\ worker'[w] = "executing"
      /\ \A v \in Workers \ {w} : worker'[v] = worker[v]
      /\ UNCHANGED <<sent, received, Running>>
  BY <1>2 DEF Receive, WorkerMoves, wireVars, Running
<1>4. job[w] = NoJob
  BY <1>3 DEF IInv, LocalsInv, Locals
<1>5. /\ job'[w] = queue[1]
      /\ \A v \in Workers \ {w} : job'[v] = job[v]
  BY <1>1, <1>2
<1>6. ASSUME NEW x \in Jobs PROVE Phase(x)' = Phase(x)
  <2>1. CASE x = queue[1]
    <3>1. 1 \in 1 .. Len(queue)
      BY <1>1, <1>2
    <3>2. Phase(x) = "accepted"
      BY <2>1, <3>1, PhaseTableHolds DEF PhaseTable
    <3>3. Phase(x)' = "accepted"
      BY <1>3, <1>5, <2>1, PhaseTableNext DEF PhaseTable
    <3> QED BY <3>2, <3>3
  <2>2. CASE x # queue[1]
    <3>1. Waits(x) <=> \E i \in 1 .. Len(queue) : queue[i] = x
      BY <1>2, WaitsFacts
    <3>2. Waits(x)' <=> \E i \in 1 .. Len(queue') : queue'[i] = x
      BY <1>2 DEF TypeOK, Waits
    <3>3. \A i \in 1 .. Len(queue) : i # 1 => i - 1 \in 1 .. Len(queue') /\ queue'[i - 1] = queue[i]
      BY <1>1, <1>2
    <3>4. \A i \in 1 .. Len(queue') : i + 1 \in 1 .. Len(queue)
      BY <1>1, <1>2
    <3>5. Waits(x)' <=> Waits(x)
      BY <1>1, <2>2, <3>1, <3>2, <3>3, <3>4
    <3>6. x # NoJob
      BY JobsAssumption
    <3> QED BY <1>1, <1>3, <1>4, <1>5, <2>2, <3>5, <3>6, PhaseKept
  <2> QED BY <2>1, <2>2
<1> QED BY <1>3, <1>6, Unseen

\* The steps that a client cannot see.
LEMMA QuietUnseen ==
  ASSUME IInv, UNCHANGED <<queue, job, ended, sent, received>>, Running' = Running,
         \A j \in Jobs : handler'[j] = "accepted" <=> handler[j] = "accepted",
         \A w \in Workers : /\ worker'[w] \in Reporting <=> worker[w] \in Reporting
                            /\ worker'[w] = "dead" <=> worker[w] = "dead"
  PROVE  PromiseGoal
<1>1. ASSUME NEW x \in Jobs PROVE Phase(x)' = Phase(x)
  <2>1. Waits(x)' <=> Waits(x)
    BY DEF Waits
  <2> QED BY <2>1, PhaseKept
<1> QED BY <1>1, Unseen

\* Every step of the service is a step of WebhookPromise or stutters.
LEMMA PromiseStep ==
  ASSUME IInv, IInv', CountInv, [Next]_vars
  PROVE  PromiseGoal
<1>t. handler \in [Jobs -> HandlerPC] /\ worker \in [Workers -> WorkerPC]
  BY DEF IInv, TypeOK
<1>h. ASSUME NEW j \in Jobs, NEW from, NEW to, from # "accepted", to # "accepted",
             HandlerMoves(j, from, to), UNCHANGED queue
      PROVE  PromiseGoal
  <2>1. \A x \in Jobs : handler'[x] = "accepted" <=> handler[x] = "accepted"
    BY <1>t, <1>h DEF HandlerMoves
  <2>2. UNCHANGED <<worker, job, ended, sent, received>> /\ Running' = Running
    BY <1>h DEF HandlerMoves, workerVars, wireVars, Running
  <2> QED BY <1>h, <2>1, <2>2, QuietUnseen
<1>w. ASSUME NEW w \in Workers, NEW from, NEW to, WorkerMoves(w, from, to),
             from \in Reporting <=> to \in Reporting, from # "dead", to # "dead",
             UNCHANGED <<queue, job, ended, sent, received>>
      PROVE  PromiseGoal
  <2>1. \A v \in Workers : /\ worker'[v] \in Reporting <=> worker[v] \in Reporting
                           /\ worker'[v] = "dead" <=> worker[v] = "dead"
    BY <1>t, <1>w DEF WorkerMoves
  <2>2. UNCHANGED handler /\ Running' = Running
    BY <1>w DEF WorkerMoves, Running
  <2> QED BY <1>w, <2>1, <2>2, QuietUnseen
<1>1. ASSUME NEW j \in Jobs, SpawnJob(j) \/ SendFails(j) \/ HandlerDropped(j)
      PROVE  PromiseGoal
  BY <1>h, <1>1 DEF SpawnJob, SendFails, HandlerDropped
<1>2. ASSUME NEW j \in Jobs, SendCompletes(j) PROVE PromiseGoal
  BY <1>2, SendAccepts
<1>3. ASSUME NEW w \in Workers, LockReceiver(w) \/ PostFails(w) \/ Retry(w)
      PROVE  PromiseGoal
  BY <1>w, <1>3 DEF LockReceiver, PostFails, Retry, Reporting, wireVars
<1>4. ASSUME NEW w \in Workers, PostAnswered(w) \/ GiveUp(w) PROVE PromiseGoal
  BY <1>4, EndDelivers
<1>5. ASSUME NEW w \in Workers, Receive(w) PROVE PromiseGoal
  BY <1>5, ReceiveUnseen
<1>6. ASSUME NEW w \in Workers, Execute(w) PROVE PromiseGoal
  BY <1>6, ExecuteConcludes
<1>7. ASSUME NEW w \in Workers, Post(w) PROVE PromiseGoal
  BY <1>7, PostSends
<1>8. ASSUME NEW w \in Workers, WorkerPanics(w) PROVE PromiseGoal
  BY <1>8, PanicLoses
<1>9. ASSUME NEW r \in sent \ received, ReportArrives(r) PROVE PromiseGoal
  <2>1. UNCHANGED <<handler, queue, worker, job, ended, sent, server>>
        /\ received' = received \cup {r}
    BY <1>9 DEF ReportArrives, workerVars
  <2>2. PhaseOf' = PhaseOf /\ Running' = Running
    BY <2>1 DEF PhaseOf, Phase, Waits, AtWork, Running
  <2>3. Promise!Arrive(r)
    BY <1>9, <2>1, <2>2 DEF Promise!Arrive, PhaseOf
  <2> QED BY <2>3 DEF PromiseGoal, Promise!Next
<1>10. CASE Signal \/ UNCHANGED vars
  <2>1. UNCHANGED <<handler, queue, worker, job, ended, sent, received>> /\ Running' = Running
    BY <1>10 DEF Signal, vars, workerVars, wireVars, Running
  <2> QED BY <2>1, QuietUnseen
<1>11. CASE Exit
  <2>1. UNCHANGED <<handler, queue, worker, job, ended, sent, received>>
        /\ Running /\ Running' = FALSE
    BY <1>11 DEF Exit, workerVars, wireVars, Running
  <2>2. PhaseOf' = PhaseOf
    BY <2>1 DEF PhaseOf, Phase, Waits, AtWork
  <2>3. Promise!Stop
    BY <2>1, <2>2 DEF Promise!Stop, PhaseOf
  <2> QED BY <2>3 DEF PromiseGoal, Promise!Next
<1> QED BY <1>1, <1>2, <1>3, <1>4, <1>5, <1>6, <1>7, <1>8, <1>9, <1>10, <1>11
        DEF Next, HandlerStep, WorkerStep

\* The service keeps the promise of its 202: what a client sees of its job is a
\* behaviour of WebhookPromise under every interleaving, panic and loss.
THEOREM ServiceImplementsPromise == Spec => ImplementsPromise
<1>1. Init => Promise!Init
  <2>1. Init => (\A j \in Jobs : Phase(j) = "none") /\ Running
    BY DEF Init, Phase, Running
  <2> QED BY <2>1 DEF Init, Promise!Init
<1>2. Init => CountInv
  BY DEF Init, CountInv, Reporting
<1>3. IInv /\ CountInv /\ [Next]_vars => CountInv'
  BY CountStep
<1>4. IInv /\ IInv' /\ CountInv /\ [Next]_vars
        => [Promise!Next]_(Promise!promiseVars)
  BY PromiseStep DEF PromiseGoal
<1> QED BY <1>1, <1>2, <1>3, <1>4, InvariantCorrect, PTL
        DEF Spec, ImplementsPromise, Promise!Spec
=============================================================================
