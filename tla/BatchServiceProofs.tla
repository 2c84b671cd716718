------------------------- MODULE BatchServiceProofs -------------------------
(* Theorems about BatchService, for every value of its constants.          *)
EXTENDS BatchService, FiniteSetTheorems, TLAPS

\* create_batch stores a BatchState.
LEMMA NewBatchType == NewBatch \in BatchState
BY DEF NewBatch, BatchState, BatchStatus, ItemStatus

\* Every method that changes a copy yields a BatchState again.
LEMMA MarkTypes ==
  ASSUME NEW s \in BatchState
  PROVE  /\ MarkProcessing(s) \in BatchState
         /\ MarkCompleted(s) \in BatchState
         /\ MarkFailed(s) \in BatchState
         /\ \A i \in Items, st \in ItemStatus : MarkItem(s, i, st) \in BatchState
BY DEF MarkProcessing, MarkCompleted, MarkFailed, MarkItem, BatchState,
       BatchStatus, ItemStatus

\* Assigning to one entry of a function, and to one entry of a nested one.
LEMMA AssignType ==
  ASSUME NEW A, NEW V, NEW f \in [A -> V], NEW a, NEW v \in V
  PROVE  [f EXCEPT ![a] = v] \in [A -> V]
OBVIOUS

\* The same for an entry of a function of functions.
LEMMA NestedAssignType ==
  ASSUME NEW A, NEW B, NEW V, NEW f \in [A -> [B -> V]], NEW a \in A, NEW c \in B,
         NEW v \in V
  PROVE  [f EXCEPT ![a][c] = v] \in [A -> [B -> V]]
OBVIOUS

-----------------------------------------------------------------------------
MaybeBatch == BatchState \cup {NoBatch}

\* Type correctness of the batch service: no interleaving of handlers, tasks,
\* expiry and cleanup drives a variable out of its type.
THEOREM TypeCorrect == Spec => []TypeOK
<1>1. Init => TypeOK
  BY DEF Init, TypeOK, JobPC, TaskPC, Answers
<1>2. TypeOK /\ [Next]_vars => TypeOK'
  <2> SUFFICES ASSUME TypeOK, [Next]_vars PROVE TypeOK'
    OBVIOUS
  <2>0. /\ store \in [Batches -> MaybeBatch]
        /\ job \in [Batches -> JobPC]
        /\ jobCopy \in [Batches -> MaybeBatch]
        /\ task \in [Batches -> [Items -> TaskPC]]
        /\ taskCopy \in [Batches -> [Items -> MaybeBatch]]
        /\ permits \in [Batches -> Nat]
    BY DEF TypeOK, MaybeBatch
  <2>1. ASSUME NEW s \in Submitters, SubmitAdmit(s) \/ SubmitReject(s)
        PROVE  TypeOK'
    BY <2>1 DEF SubmitAdmit, SubmitReject, TypeOK, jobVars, taskVars, downloadVars
  <2>2. ASSUME NEW s \in Submitters, NEW b \in Batches, SubmitCreate(s, b)
        PROVE  TypeOK'
    BY <2>2, NewBatchType
       DEF SubmitCreate, Update, JobPC, TypeOK, taskVars, downloadVars
  <2>3. ASSUME NEW b \in Batches, JobStep(b)
        PROVE  TypeOK'
    <3> USE DEF JobPC, JobGoes
    <3>1. CASE JobLoad(b)
      <4>1. Stored(b) => MarkProcessing(store[b]) \in BatchState
        BY <2>0, MarkTypes DEF Stored, MaybeBatch
      <4> QED BY <3>1, <4>1 DEF JobLoad, TypeOK, taskVars, downloadVars
    <3>2. CASE JobMark(b)
      BY <3>2 DEF JobMark, Update, TypeOK, taskVars, downloadVars
    <3>3. CASE JobSpawnItems(b)
      <4>1. [i \in Items |-> "waiting"] \in [Items -> TaskPC]
        BY DEF TaskPC
      <4>2. task' \in [Batches -> [Items -> TaskPC]]
        BY <2>0, <3>3, <4>1, AssignType DEF JobSpawnItems
      <4>3. permits' \in [Batches -> Nat]
        BY <2>0, <3>3, AssignType, ConcurrencyAssumption DEF JobSpawnItems
      <4>4. job' \in [Batches -> JobPC]
        BY <2>0, <3>3 DEF JobSpawnItems
      <4> QED BY <3>3, <4>2, <4>3, <4>4
              DEF JobSpawnItems, TypeOK, downloadVars
    <3>4. CASE JobJoin(b)
      BY <3>4 DEF JobJoin, TypeOK, taskVars, downloadVars
    <3>5. CASE JobWriteOutput(b)
      BY <3>5 DEF JobWriteOutput, TypeOK, taskVars, downloadVars
    <3>6. CASE JobWriteFails(b)
      BY <3>6 DEF JobWriteFails, TypeOK, taskVars, downloadVars
    <3>7. CASE JobLoadFinal(b)
      <4>1. Stored(b) => /\ MarkCompleted(store[b]) \in BatchState
                         /\ MarkFailed(store[b]) \in BatchState
        BY <2>0, MarkTypes DEF Stored, MaybeBatch
      <4> QED BY <3>7, <4>1 DEF JobLoadFinal, TypeOK, taskVars, downloadVars
    <3>8. CASE JobCommit(b)
      BY <3>8 DEF JobCommit, Update, TypeOK, taskVars, downloadVars
    <3> QED BY <2>3, <3>1, <3>2, <3>3, <3>4, <3>5, <3>6, <3>7, <3>8 DEF JobStep
  <2>4. ASSUME NEW b \in Batches, NEW i \in Items, TaskStep(b, i)
        PROVE  TypeOK'
    <3>1. task' \in [Batches -> [Items -> TaskPC]]
      <4>1. \E pc \in TaskPC : TaskGoes(b, i, pc)
        BY <2>4 DEF TaskStep, TaskAcquire, TaskLoadMark, TaskMark,
                    TaskLoadResult, TaskRecord, TaskPanics, TaskPC
      <4> QED BY <2>0, <4>1, NestedAssignType DEF TaskGoes
    <3>2. permits' \in [Batches -> Nat]
      <4>1. \/ permits' = permits
            \/ permits' = [permits EXCEPT ![b] = @ + 1]
            \/ permits[b] > 0 /\ permits' = [permits EXCEPT ![b] = @ - 1]
        BY <2>4 DEF TaskStep, TaskAcquire, TaskLoadMark, TaskMark,
                    TaskLoadResult, TaskRecord, TaskPanics
      <4> QED BY <2>0, <4>1
    <3>3. taskCopy' \in [Batches -> [Items -> MaybeBatch]]
      <4>1. \/ taskCopy' = taskCopy
            \/ \E s \in MaybeBatch : taskCopy' = [taskCopy EXCEPT ![b][i] = s]
        <5>1. ASSUME Stored(b), NEW st \in ItemStatus
              PROVE  MarkItem(store[b], i, st) \in MaybeBatch
          BY <2>0, <5>1, MarkTypes DEF Stored, MaybeBatch
        <5>2. "Processing" \in ItemStatus /\ ItemOutcomes \subseteq ItemStatus
          BY OutcomesAssumption DEF ItemStatus
        <5>3. NoBatch \in MaybeBatch
          BY DEF MaybeBatch
        <5>4. CASE TaskAcquire(b, i)
          BY <5>4 DEF TaskAcquire
        <5>5. CASE TaskLoadMark(b, i)
          BY <5>1, <5>2, <5>5 DEF TaskLoadMark, TaskPanics
        <5>6. CASE TaskMark(b, i)
          BY <5>3, <5>6 DEF TaskMark
        <5>7. CASE TaskLoadResult(b, i)
          BY <5>1, <5>2, <5>7 DEF TaskLoadResult, TaskPanics
        <5>8. CASE TaskRecord(b, i)
          BY <5>3, <5>8 DEF TaskRecord
        <5> QED BY <2>4, <5>4, <5>5, <5>6, <5>7, <5>8 DEF TaskStep
      <4>2. ASSUME NEW s \in MaybeBatch, taskCopy' = [taskCopy EXCEPT ![b][i] = s]
            PROVE  taskCopy' \in [Batches -> [Items -> MaybeBatch]]
        BY <2>0, <4>2, NestedAssignType
      <4> QED BY <2>0, <4>1, <4>2
    <3>4. store' \in [Batches -> MaybeBatch]
      BY <2>0, <2>4 DEF TaskStep, TaskAcquire, TaskLoadMark, TaskMark,
                        TaskLoadResult, TaskRecord, Update
    <3>5. UNCHANGED <<disk, expired, submit, jobVars, downloadVars, sweep>>
      BY <2>4 DEF TaskStep, TaskAcquire, TaskLoadMark, TaskMark,
                  TaskLoadResult, TaskRecord
    <3> QED BY <3>1, <3>2, <3>3, <3>4, <3>5
            DEF TypeOK, MaybeBatch, jobVars, downloadVars
  <2>5. ASSUME NEW d \in Downloaders, NEW b \in Batches, DownloadStart(d, b)
        PROVE  TypeOK'
    <3>1. Lookup(b) \in DownloadPC \cup Answers
      BY DEF Lookup, DownloadPC, Answers
    <3> QED BY <2>5, <3>1
            DEF DownloadStart, DownloadGoes, TypeOK, jobVars, taskVars
  <2>6. ASSUME NEW d \in Downloaders,
               \/ DownloadCheck(d) \/ DownloadRead(d)
               \/ DownloadRemove(d) \/ DownloadLost(d) \/ DownloadDropped(d)
        PROVE  TypeOK'
    <3>1. \E pc \in DownloadPC \cup Answers : DownloadGoes(d, wanted[d], pc)
      BY <2>6 DEF DownloadCheck, DownloadRead, DownloadRemove, DownloadLost,
                  DownloadDropped,
                  DownloadPC, Answers
    <3>2. /\ download' \in [Downloaders -> DownloadPC \cup Answers]
          /\ wanted' \in [Downloaders -> Batches \cup {NoBatch}]
      BY <3>1 DEF DownloadGoes, TypeOK
    <3>3. store' \in [Batches -> MaybeBatch] /\ disk' \subseteq Batches
      BY <2>6 DEF DownloadCheck, DownloadRead, DownloadRemove, DownloadLost,
                  DownloadDropped,
                  Remove, TypeOK, MaybeBatch
    <3>4. delivered' \in [Batches -> Nat]
      <4>1. delivered \in [Batches -> Nat]
        BY DEF TypeOK
      <4>2. \/ delivered' = delivered
            \/ delivered' = [delivered EXCEPT ![wanted[d]] = @ + 1]
        BY <2>6 DEF DownloadCheck, DownloadRead, DownloadRemove, DownloadLost,
                    DownloadDropped
      <4>3. CASE wanted[d] \in Batches
        BY <4>1, <4>2, <4>3
      <4>4. CASE wanted[d] \notin Batches
        BY <4>1, <4>2, <4>4
      <4> QED BY <4>3, <4>4
    <3>5. UNCHANGED <<expired, submit, jobVars, taskVars, sweep>>
      BY <2>6 DEF DownloadCheck, DownloadRead, DownloadRemove, DownloadLost,
                  DownloadDropped
    <3> QED BY <3>2, <3>3, <3>4, <3>5 DEF TypeOK, MaybeBatch, jobVars, taskVars
  <2>7. ASSUME NEW b \in Batches, Expire(b) \/ CleanupRemove(b)
        PROVE  TypeOK'
    BY <2>7 DEF Expire, CleanupRemove, Remove, TypeOK, jobVars, taskVars,
                downloadVars
  <2>8. CASE CleanupCollect
    BY <2>8 DEF CleanupCollect, TypeOK, jobVars, taskVars, downloadVars
  <2>9. CASE UNCHANGED vars
    BY <2>9 DEF vars, TypeOK, jobVars, taskVars, downloadVars
  <2> QED BY <2>1, <2>2, <2>3, <2>4, <2>5, <2>6, <2>7, <2>8, <2>9 DEF Next
<1> QED BY <1>1, <1>2, PTL DEF Spec

-----------------------------------------------------------------------------
(* The inductive invariant.  It ties the place where process_batch stands   *)
(* to what may be stored and to what the copies in flight may contain.      *)

BeforeItems == {"none", "spawned", "marking", "opening"}

\* Item tasks exist only between spawn and join.
TasksInPhase(b) ==
  /\ job[b] \in BeforeItems => \A i \in Items : task[b][i] = "none"
  /\ job[b] \notin BeforeItems \cup {"joining"} =>
       \A i \in Items : task[b][i] \in TaskEnded \cup {"none"}

\* A stored batch has the status that belongs to the phase of its job, and only
\* a completed one has an output path.
StatusInPhase(b) ==
  Stored(b) =>
    /\ store[b].status =
         CASE job[b] \in {"spawned", "marking"} -> "Queued"
           [] job[b] = "done" /\ store[b].output -> "Completed"
           [] job[b] = "done" /\ ~store[b].output -> "Failed"
           [] OTHER -> "Processing"
    /\ store[b].output => job[b] = "done"
    /\ job[b] \notin {"none", "panicked"}

\* A copy in flight would not take the stored batch out of its phase.
CopiesInPhase(b) ==
  /\ job[b] = "marking" =>
       jobCopy[b] # NoBatch /\ jobCopy[b].status = "Processing" /\ ~jobCopy[b].output
  /\ job[b] = "committing" =>
       /\ jobCopy[b] # NoBatch
       /\ jobCopy[b].status = IF jobCopy[b].output THEN "Completed" ELSE "Failed"
  /\ \A i \in Items :
       task[b][i] \in {"marking", "recording"} =>
         /\ taskCopy[b][i] # NoBatch
         /\ taskCopy[b][i].status = "Processing"
         /\ ~taskCopy[b][i].output

Phase(b) == TasksInPhase(b) /\ StatusInPhase(b) /\ CopiesInPhase(b)
PhaseInv == \A b \in Batches : Phase(b)

\* What is written, or about to be written, as completed has its output file.
OutputInv ==
  \A b \in Batches :
    /\ job[b] \in {"writing", "completing"} => \E i \in Items : task[b][i] = "ok"
    /\ job[b] = "completing" => b \in disk
    /\ job[b] = "committing" /\ jobCopy[b].output =>
         b \in disk /\ \E i \in Items : task[b][i] = "ok"
    /\ DownloadUrl(b) => b \in disk /\ \E i \in Items : task[b][i] = "ok"

\* A download handler works on a batch whose job is over, and a delivered batch
\* has left the store behind its job.
DownloadInv ==
  /\ \A d \in Downloaders :
       download[d] \in DownloadPC =>
         /\ wanted[d] \in Batches
         /\ job[wanted[d]] = "done"
         /\ Stored(wanted[d]) => DownloadUrl(wanted[d])
  /\ \A b \in Batches : delivered[b] > 0 => job[b] = "done" /\ ~Stored(b)

\* Nothing that Phase(b) reads changes.
Same(b) ==
  /\ store'[b] = store[b]
  /\ job'[b] = job[b]
  /\ jobCopy'[b] = jobCopy[b]
  /\ task'[b] = task[b]
  /\ taskCopy'[b] = taskCopy[b]

\* What Phase(b) does not read cannot break it.
LEMMA PhaseFrame ==
  ASSUME NEW b \in Batches, Phase(b), Same(b)
  PROVE  Phase(b)'
BY DEF Same, Phase, TasksInPhase, StatusInPhase, CopiesInPhase, Stored

\* Removing a batch keeps its phase: nothing is stored, the copies stay.
LEMMA PhaseRemoved ==
  ASSUME NEW b \in Batches, Phase(b), store'[b] = NoBatch,
         UNCHANGED <<job, jobCopy, task, taskCopy>>
  PROVE  Phase(b)'
BY DEF Phase, TasksInPhase, StatusInPhase, CopiesInPhase, Stored

\* What the methods leave of status and output; none of them yields a None.
LEMMA MarkFacts ==
  ASSUME NEW s \in BatchState
  PROVE  /\ MarkProcessing(s) # NoBatch
         /\ MarkProcessing(s).status = "Processing"
         /\ MarkProcessing(s).output = s.output
         /\ MarkCompleted(s) # NoBatch
         /\ MarkCompleted(s).status = "Completed"
         /\ MarkCompleted(s).output
         /\ MarkFailed(s) # NoBatch
         /\ MarkFailed(s).status = "Failed"
         /\ MarkFailed(s).output = s.output
         /\ \A i \in Items, st \in ItemStatus :
              /\ MarkItem(s, i, st) # NoBatch
              /\ MarkItem(s, i, st).status = s.status
              /\ MarkItem(s, i, st).output = s.output
<1>1. /\ MarkProcessing(s) # NoBatch
      /\ MarkCompleted(s) # NoBatch
      /\ MarkFailed(s) # NoBatch
      /\ \A i \in Items, st \in ItemStatus : MarkItem(s, i, st) # NoBatch
  BY MarkTypes, NoBatchAssumption
<1> QED BY <1>1 DEF MarkProcessing, MarkCompleted, MarkFailed, MarkItem, BatchState

\* Every step of process_batch leads from phase to phase.
LEMMA PhaseJobStep ==
  ASSUME TypeOK, NEW b \in Batches, JobStep(b), Phase(b)
  PROVE  Phase(b)'
<1>0. /\ store \in [Batches -> MaybeBatch]
      /\ job \in [Batches -> JobPC]
      /\ jobCopy \in [Batches -> MaybeBatch]
      /\ task \in [Batches -> [Items -> TaskPC]]
  BY DEF TypeOK, MaybeBatch
<1> USE DEF Phase, TasksInPhase, StatusInPhase, CopiesInPhase, Stored, JobGoes,
            BeforeItems
<1>1. CASE JobLoad(b)
  <2>1. Stored(b) => /\ MarkProcessing(store[b]) # NoBatch
                     /\ MarkProcessing(store[b]).status = "Processing"
                     /\ MarkProcessing(store[b]).output = store[b].output
    BY <1>0, MarkFacts DEF MaybeBatch
  <2> QED BY <1>0, <1>1, <2>1 DEF JobLoad, taskVars
<1>2. CASE JobMark(b)
  BY <1>0, <1>2 DEF JobMark, Update, taskVars
<1>3. CASE JobSpawnItems(b)
  <2>1. job'[b] = IF Stored(b) THEN "joining" ELSE "failing"
    BY <1>0, <1>3 DEF JobSpawnItems
  <2>2. \A i \in Items : task'[b][i] \in {"waiting", "none"}
    BY <1>0, <1>3 DEF JobSpawnItems
  <2>3. ~Stored(b) => task' = task
    BY <1>3 DEF JobSpawnItems
  <2> QED BY <1>0, <1>3, <2>1, <2>2, <2>3 DEF JobSpawnItems
<1>4. CASE JobJoin(b)
  BY <1>0, <1>4 DEF JobJoin, Joined, taskVars
<1>5. CASE JobWriteOutput(b)
  BY <1>0, <1>5 DEF JobWriteOutput, taskVars
<1>6. CASE JobWriteFails(b)
  BY <1>0, <1>6 DEF JobWriteFails, taskVars
<1>7. CASE JobLoadFinal(b)
  <2>1. Stored(b) =>
          /\ MarkCompleted(store[b]) # NoBatch
          /\ MarkCompleted(store[b]).status = "Completed"
          /\ MarkCompleted(store[b]).output
          /\ MarkFailed(store[b]) # NoBatch
          /\ MarkFailed(store[b]).status = "Failed"
          /\ MarkFailed(store[b]).output = store[b].output
    BY <1>0, MarkFacts DEF MaybeBatch
  <2> QED BY <1>0, <1>7, <2>1 DEF JobLoadFinal, taskVars
<1>8. CASE JobCommit(b)
  BY <1>0, <1>8 DEF JobCommit, Update, taskVars
<1> QED BY <1>1, <1>2, <1>3, <1>4, <1>5, <1>6, <1>7, <1>8 DEF JobStep

\* An item's task, however stale its copy, leaves its batch in the joining phase.
LEMMA PhaseTaskStep ==
  ASSUME TypeOK, NEW b \in Batches, NEW i \in Items, TaskStep(b, i), Phase(b)
  PROVE  Phase(b)'
<1>0. /\ store \in [Batches -> MaybeBatch]
      /\ task \in [Batches -> [Items -> TaskPC]]
      /\ taskCopy \in [Batches -> [Items -> MaybeBatch]]
  BY DEF TypeOK, MaybeBatch
<1>1. job[b] = "joining" /\ UNCHANGED jobVars
  BY DEF Phase, TasksInPhase, TaskStep, TaskAcquire, TaskLoadMark, TaskMark,
         TaskLoadResult, TaskRecord, TaskEnded, BeforeItems
<1>2. TasksInPhase(b)'
  BY <1>1 DEF TasksInPhase, BeforeItems, jobVars
<1>3. StatusInPhase(b)'
  <2>1. \/ store' = store
        \/ /\ task[b][i] \in {"marking", "recording"}
           /\ store' = [store EXCEPT ![b] = taskCopy[b][i]]
    BY DEF TaskStep, TaskAcquire, TaskLoadMark, TaskMark, TaskLoadResult,
           TaskRecord, Update
  <2>2. CASE store' = store
    BY <1>1, <2>2 DEF Phase, StatusInPhase, Stored, jobVars
  <2>3. CASE /\ task[b][i] \in {"marking", "recording"}
             /\ store' = [store EXCEPT ![b] = taskCopy[b][i]]
    BY <1>0, <1>1, <2>3 DEF Phase, StatusInPhase, CopiesInPhase, Stored, jobVars
  <2> QED BY <2>1, <2>2, <2>3
<1>4. CopiesInPhase(b)'
  <2>1. \A j \in Items :
          j # i => task'[b][j] = task[b][j] /\ taskCopy'[b][j] = taskCopy[b][j]
    BY <1>0 DEF TaskStep, TaskAcquire, TaskLoadMark, TaskMark, TaskLoadResult,
                TaskRecord, TaskPanics, TaskGoes
  <2>2. task'[b][i] \in {"marking", "recording"} =>
          /\ Stored(b)
          /\ \E st \in ItemStatus : taskCopy'[b][i] = MarkItem(store[b], i, st)
    BY <1>0, OutcomesAssumption
       DEF TaskStep, TaskAcquire, TaskLoadMark, TaskMark, TaskLoadResult,
           TaskRecord, TaskPanics, TaskGoes, ItemStatus
  <2>3. ASSUME Stored(b), NEW st \in ItemStatus
        PROVE  /\ MarkItem(store[b], i, st) # NoBatch
               /\ MarkItem(store[b], i, st).status = store[b].status
               /\ MarkItem(store[b], i, st).output = store[b].output
    BY <1>0, <2>3, MarkFacts DEF MaybeBatch, Stored
  <2>4. Stored(b) => store[b].status = "Processing" /\ ~store[b].output
    BY <1>1 DEF Phase, StatusInPhase
  <2> QED BY <1>1, <2>1, <2>2, <2>3, <2>4 DEF Phase, CopiesInPhase, jobVars
<1> QED BY <1>2, <1>3, <1>4 DEF Phase

\* A step about one batch leaves every other batch alone.
LEMMA OthersSame ==
  ASSUME TypeOK, NEW b \in Batches, NEW x \in Batches \ {b},
         \/ JobStep(b)
         \/ \E i \in Items : TaskStep(b, i)
         \/ \E s \in Submitters : SubmitCreate(s, b)
         \/ CleanupRemove(b)
  PROVE  Same(x)
<1>0. /\ store \in [Batches -> MaybeBatch]
      /\ job \in [Batches -> JobPC]
      /\ jobCopy \in [Batches -> MaybeBatch]
      /\ task \in [Batches -> [Items -> TaskPC]]
      /\ taskCopy \in [Batches -> [Items -> MaybeBatch]]
  BY DEF TypeOK, MaybeBatch
<1>1. CASE JobStep(b)
  BY <1>0, <1>1
     DEF JobStep, JobLoad, JobMark, JobSpawnItems, JobJoin, JobWriteOutput,
         JobWriteFails, JobLoadFinal, JobCommit, JobGoes, Update, Same, taskVars
<1>2. ASSUME NEW i \in Items, TaskStep(b, i) PROVE Same(x)
  BY <1>0, <1>2
     DEF TaskStep, TaskAcquire, TaskLoadMark, TaskMark, TaskLoadResult,
         TaskRecord, TaskPanics, TaskGoes, Update, Same, jobVars
<1>3. CASE (\E s \in Submitters : SubmitCreate(s, b)) \/ CleanupRemove(b)
  BY <1>0, <1>3 DEF SubmitCreate, CleanupRemove, Remove, Update, Same, jobVars, taskVars
<1> QED BY <1>1, <1>2, <1>3

\* PhaseInv is inductive (given the types).
LEMMA PhaseNext == TypeOK /\ PhaseInv /\ [Next]_vars => PhaseInv'
<1> SUFFICES ASSUME TypeOK, PhaseInv, [Next]_vars, NEW x \in Batches
             PROVE  Phase(x)'
  BY DEF PhaseInv
<1>0. Phase(x)
  BY DEF PhaseInv
<1>1. ASSUME NEW b \in Batches, JobStep(b) PROVE Phase(x)'
  BY <1>0, <1>1, OthersSame, PhaseFrame, PhaseJobStep
<1>2. ASSUME NEW b \in Batches, NEW i \in Items, TaskStep(b, i) PROVE Phase(x)'
  BY <1>0, <1>2, OthersSame, PhaseFrame, PhaseTaskStep
<1>3. ASSUME NEW b \in Batches, NEW s \in Submitters, SubmitCreate(s, b)
      PROVE  Phase(x)'
  <2>1. CASE x # b
    BY <1>0, <1>3, <2>1, OthersSame, PhaseFrame
  <2>2. CASE x = b
    <3>1. /\ store'[b] = NewBatch /\ job'[b] = "spawned"
          /\ jobCopy' = jobCopy /\ task' = task /\ taskCopy' = taskCopy
          /\ job[b] = "none"
      BY <1>3 DEF SubmitCreate, Update, TypeOK, taskVars
    <3> QED BY <1>0, <2>2, <3>1
            DEF Phase, TasksInPhase, StatusInPhase, CopiesInPhase, NewBatch,
                BeforeItems
  <2> QED BY <2>1, <2>2
<1>4. ASSUME NEW b \in Batches, CleanupRemove(b) PROVE Phase(x)'
  <2>1. CASE x # b
    BY <1>0, <1>4, <2>1, OthersSame, PhaseFrame
  <2>2. CASE x = b
    <3>1. store'[b] = NoBatch /\ UNCHANGED <<job, jobCopy, task, taskCopy>>
      BY <1>4 DEF CleanupRemove, Remove, TypeOK, jobVars, taskVars
    <3> QED BY <1>0, <2>2, <3>1, PhaseRemoved
  <2> QED BY <2>1, <2>2
<1>5. ASSUME NEW d \in Downloaders, DownloadRemove(d) \/ DownloadLost(d)
      PROVE  Phase(x)'
  <2>1. UNCHANGED <<job, jobCopy, task, taskCopy>>
    BY <1>5 DEF DownloadRemove, DownloadLost, jobVars, taskVars
  <2>2. store'[x] \in {store[x], NoBatch}
    BY <1>5 DEF DownloadRemove, DownloadLost, Remove, TypeOK
  <2>3. CASE store'[x] = NoBatch
    BY <1>0, <2>1, <2>3, PhaseRemoved
  <2>4. CASE store'[x] = store[x]
    BY <1>0, <2>1, <2>4, PhaseFrame DEF Same
  <2> QED BY <2>2, <2>3, <2>4
<1>6. CASE UNCHANGED <<store, jobVars, taskCopy, task>>
  BY <1>0, <1>6, PhaseFrame DEF Same, jobVars
<1>7. ASSUME NEW s \in Submitters, SubmitAdmit(s) \/ SubmitReject(s)
      PROVE  UNCHANGED <<store, jobVars, taskCopy, task>>
  BY <1>7 DEF SubmitAdmit, SubmitReject, taskVars
<1>8. ASSUME NEW d \in Downloaders, NEW b \in Batches,
             \/ DownloadStart(d, b) \/ DownloadCheck(d)
             \/ DownloadRead(d) \/ DownloadDropped(d)
      PROVE  UNCHANGED <<store, jobVars, taskCopy, task>>
  BY <1>8 DEF DownloadStart, DownloadCheck, DownloadRead, DownloadDropped, taskVars
<1>9. ASSUME NEW b \in Batches, Expire(b) \/ CleanupCollect \/ UNCHANGED vars
      PROVE  UNCHANGED <<store, jobVars, taskCopy, task>>
  BY <1>9 DEF Expire, CleanupCollect, vars, taskVars
<1> QED BY <1>1, <1>2, <1>3, <1>4, <1>5, <1>6, <1>7, <1>8, <1>9 DEF Next

\* In every reachable state each batch, stored or in flight, is in its phase.
THEOREM PhaseCorrect == Spec => []PhaseInv
<1>1. Init => PhaseInv
  BY DEF Init, PhaseInv, Phase, TasksInPhase, StatusInPhase, CopiesInPhase,
         Stored, BeforeItems
<1> QED BY <1>1, PhaseNext, TypeCorrect, PTL DEF Spec

\* A Queued or Processing batch always has a process_batch that will still
\* finish it, so no slot of batch_max_active leaks.
THEOREM NoSlotLeaks == Spec => []ActiveHasWorker
<1>1. PhaseInv => ActiveHasWorker
  BY DEF PhaseInv, Phase, StatusInPhase, ActiveHasWorker, Active, JobEnded, Stored
<1> QED BY <1>1, PhaseCorrect, PTL

-----------------------------------------------------------------------------
(* A batch whose job is done.                                              *)

\* Once process_batch is done nothing writes its batch again.
LEMMA DoneIsFrozen ==
  ASSUME TypeOK, PhaseInv, [Next]_vars, NEW x \in Batches, job[x] = "done"
  PROVE  /\ job'[x] = "done"
         /\ task'[x] = task[x]
         /\ store'[x] \in {store[x], NoBatch}
<1>0. TasksInPhase(x)
  BY DEF PhaseInv, Phase
<1>1. ASSUME NEW b \in Batches,
             JobStep(b) \/ \E s \in Submitters : SubmitCreate(s, b)
      PROVE  Same(x)
  <2>1. job[b] # "done"
    BY <1>1 DEF JobStep, JobLoad, JobMark, JobSpawnItems, JobJoin, JobWriteOutput,
                JobWriteFails, JobLoadFinal, JobCommit, SubmitCreate
  <2> QED BY <1>1, <2>1, OthersSame
<1>2. ASSUME NEW b \in Batches, NEW i \in Items, TaskStep(b, i)
      PROVE  Same(x)
  <2>1. task[b][i] \notin TaskEnded \cup {"none"}
    BY <1>2 DEF TaskStep, TaskAcquire, TaskLoadMark, TaskMark, TaskLoadResult,
                TaskRecord, TaskEnded
  <2>2. x # b
    BY <1>0, <2>1 DEF TasksInPhase, BeforeItems
  <2> QED BY <1>2, <2>2, OthersSame
<1>3. ASSUME NEW d \in Downloaders, DownloadRemove(d) \/ DownloadLost(d)
      PROVE  /\ UNCHANGED <<job, task>>
             /\ store'[x] \in {store[x], NoBatch}
  BY <1>3 DEF DownloadRemove, DownloadLost, Remove, TypeOK, jobVars, taskVars
<1>4. ASSUME NEW b \in Batches, CleanupRemove(b)
      PROVE  /\ UNCHANGED <<job, task>>
             /\ store'[x] \in {store[x], NoBatch}
  BY <1>4 DEF CleanupRemove, Remove, TypeOK, jobVars, taskVars
<1>5. ASSUME NEW s \in Submitters, SubmitAdmit(s) \/ SubmitReject(s)
      PROVE  UNCHANGED <<store, job, task>>
  BY <1>5 DEF SubmitAdmit, SubmitReject, jobVars, taskVars
<1>6. ASSUME NEW d \in Downloaders, NEW b \in Batches,
             \/ DownloadStart(d, b) \/ DownloadCheck(d)
             \/ DownloadRead(d) \/ DownloadDropped(d)
      PROVE  UNCHANGED <<store, job, task>>
  BY <1>6 DEF DownloadStart, DownloadCheck, DownloadRead, DownloadDropped,
              jobVars, taskVars
<1>7. ASSUME NEW b \in Batches, Expire(b) \/ CleanupCollect \/ UNCHANGED vars
      PROVE  UNCHANGED <<store, job, task>>
  BY <1>7 DEF Expire, CleanupCollect, vars, jobVars, taskVars
<1> QED BY <1>1, <1>2, <1>3, <1>4, <1>5, <1>6, <1>7 DEF Next, Same

\* A finished batch is never written again, only removed: the items' late writes
\* cannot undo the outcome that a client may already have seen.
THEOREM FinishedStaysFinished == Spec => FinishedIsFinal
<1>1. TypeOK /\ PhaseInv /\ [Next]_vars =>
        [\A b \in Batches : Finished(b) => store'[b] \in {store[b], NoBatch}]_vars
  <2> SUFFICES ASSUME TypeOK, PhaseInv, [Next]_vars, NEW b \in Batches, Finished(b)
               PROVE  store'[b] \in {store[b], NoBatch}
    OBVIOUS
  <2>1. job[b] = "done"
    BY DEF PhaseInv, Phase, StatusInPhase, Finished
  <2> QED BY <2>1, DoneIsFrozen
<1> QED BY <1>1, TypeCorrect, PhaseCorrect, PTL DEF Spec, FinishedIsFinal

-----------------------------------------------------------------------------
(* Downloads.                                                              *)

\* Only the steps of a download handler change what downloads consist of.
LEMMA DownloadSteps ==
  ASSUME [Next]_vars
  PROVE  \/ UNCHANGED downloadVars
         \/ \E d \in Downloaders, b \in Batches : DownloadStart(d, b)
         \/ \E d \in Downloaders : \/ DownloadCheck(d) \/ DownloadRead(d)
                                   \/ DownloadRemove(d) \/ DownloadLost(d)
                                   \/ DownloadDropped(d)
<1>1. ASSUME NEW s \in Submitters, SubmitAdmit(s) \/ SubmitReject(s)
      PROVE  UNCHANGED downloadVars
  BY <1>1 DEF SubmitAdmit, SubmitReject
<1>2. ASSUME NEW s \in Submitters, NEW b \in Batches, SubmitCreate(s, b)
      PROVE  UNCHANGED downloadVars
  BY <1>2 DEF SubmitCreate
<1>3. ASSUME NEW b \in Batches, JobStep(b) \/ Expire(b) \/ CleanupRemove(b)
      PROVE  UNCHANGED downloadVars
  BY <1>3 DEF JobStep, JobLoad, JobMark, JobSpawnItems, JobJoin, JobWriteOutput,
              JobWriteFails, JobLoadFinal, JobCommit, Expire, CleanupRemove
<1>4. ASSUME NEW b \in Batches, NEW i \in Items, TaskStep(b, i)
      PROVE  UNCHANGED downloadVars
  BY <1>4 DEF TaskStep, TaskAcquire, TaskLoadMark, TaskMark, TaskLoadResult,
              TaskRecord
<1>5. CleanupCollect \/ UNCHANGED vars => UNCHANGED downloadVars
  BY DEF CleanupCollect, vars
<1> QED BY <1>1, <1>2, <1>3, <1>4, <1>5 DEF Next

\* DownloadInv is inductive (given the types and the phases).
LEMMA DownloadNext == TypeOK /\ PhaseInv /\ DownloadInv /\ [Next]_vars => DownloadInv'
<1> SUFFICES ASSUME TypeOK, PhaseInv, DownloadInv, [Next]_vars
             PROVE  DownloadInv'
  OBVIOUS
<1>1. ASSUME NEW b \in Batches, DownloadUrl(b) PROVE job[b] = "done"
  BY <1>1 DEF PhaseInv, Phase, StatusInPhase, DownloadUrl
<1>2. ASSUME NEW b \in Batches, job[b] = "done", store'[b] = store[b], DownloadUrl(b)
      PROVE  DownloadUrl(b)'
  BY <1>2 DEF DownloadUrl, Stored
<1>3. ASSUME NEW d \in Downloaders, download'[d] \in DownloadPC
      PROVE  /\ wanted'[d] \in Batches
             /\ job'[wanted'[d]] = "done"
             /\ (Stored(wanted[d]) => DownloadUrl(wanted[d]))'
  <2>1. \/ download[d] \in DownloadPC /\ wanted'[d] = wanted[d]
        \/ \E b \in Batches : wanted'[d] = b /\ DownloadUrl(b) /\ store' = store
    <3>1. ASSUME NEW b \in Batches, NEW e \in Downloaders, DownloadStart(e, b)
          PROVE  \/ download[d] \in DownloadPC /\ wanted'[d] = wanted[d]
                 \/ wanted'[d] = b /\ DownloadUrl(b) /\ store' = store
      BY <1>3, <3>1 DEF DownloadStart, DownloadGoes, Lookup, DownloadPC, TypeOK
    <3>2. ASSUME NEW e \in Downloaders,
                 \/ DownloadCheck(e) \/ DownloadRead(e)
                 \/ DownloadRemove(e) \/ DownloadLost(e) \/ DownloadDropped(e)
          PROVE  download[d] \in DownloadPC /\ wanted'[d] = wanted[d]
      BY <1>3, <3>2 DEF DownloadCheck, DownloadRead, DownloadRemove,
                        DownloadLost, DownloadDropped, DownloadGoes, DownloadPC, TypeOK
    <3>3. CASE UNCHANGED downloadVars
      BY <1>3, <3>3 DEF downloadVars
    <3> QED BY <3>1, <3>2, <3>3, DownloadSteps
  <2>2. CASE download[d] \in DownloadPC /\ wanted'[d] = wanted[d]
    <3>1. /\ wanted[d] \in Batches /\ job[wanted[d]] = "done"
          /\ Stored(wanted[d]) => DownloadUrl(wanted[d])
      BY <2>2 DEF DownloadInv
    <3>2. /\ job'[wanted[d]] = "done"
          /\ store'[wanted[d]] \in {store[wanted[d]], NoBatch}
      BY <3>1, DoneIsFrozen
    <3> QED BY <2>2, <3>1, <3>2 DEF Stored, DownloadUrl
  <2>3. ASSUME NEW b \in Batches, wanted'[d] = b, DownloadUrl(b), store' = store
        PROVE  /\ wanted'[d] \in Batches
               /\ job'[wanted'[d]] = "done"
               /\ (Stored(wanted[d]) => DownloadUrl(wanted[d]))'
    <3>1. job'[b] = "done"
      BY <2>3, <1>1, DoneIsFrozen
    <3>2. DownloadUrl(b)'
      BY <2>3, <1>1, <1>2
    <3> QED BY <2>3, <3>1, <3>2 DEF Stored, DownloadUrl
  <2> QED BY <2>1, <2>2, <2>3
<1>4. ASSUME NEW b \in Batches, delivered'[b] > 0
      PROVE  job'[b] = "done" /\ ~Stored(b)'
  <2>1. \/ delivered[b] > 0
        \/ \E d \in Downloaders : DownloadRemove(d) /\ wanted[d] = b
    <3>1. ASSUME NEW d \in Downloaders, DownloadRemove(d), wanted[d] # b
          PROVE  delivered'[b] = delivered[b]
      BY <3>1 DEF DownloadRemove, TypeOK
    <3>2. ASSUME NEW d \in Downloaders, NEW x \in Batches,
                 \/ DownloadStart(d, x) \/ DownloadCheck(d) \/ DownloadRead(d)
                 \/ DownloadLost(d) \/ DownloadDropped(d)
          PROVE  delivered' = delivered
      BY <3>2 DEF DownloadStart, DownloadCheck, DownloadRead, DownloadLost,
                  DownloadDropped
    <3>3. UNCHANGED downloadVars => delivered' = delivered
      BY DEF downloadVars
    <3> QED BY <1>4, <3>1, <3>2, <3>3, DownloadSteps
  <2>2. CASE delivered[b] > 0
    <3>1. job[b] = "done" /\ store[b] = NoBatch
      BY <2>2 DEF DownloadInv, Stored
    <3> QED BY <3>1, DoneIsFrozen DEF Stored
  <2>3. ASSUME NEW d \in Downloaders, DownloadRemove(d), wanted[d] = b
        PROVE  job'[b] = "done" /\ ~Stored(b)'
    <3>1. job[b] = "done"
      BY <2>3 DEF DownloadInv, DownloadRemove, DownloadPC
    <3> QED BY <2>3, <3>1 DEF DownloadRemove, Remove, Stored, jobVars, TypeOK
  <2> QED BY <2>1, <2>2, <2>3
<1> QED BY <1>3, <1>4 DEF DownloadInv, Stored, DownloadUrl

\* A download handler never works on a batch that may still be written.
LEMMA DownloadCorrect == Spec => []DownloadInv
<1>1. Init => DownloadInv
  BY DEF Init, DownloadInv, DownloadPC
<1> QED BY <1>1, DownloadNext, TypeCorrect, PhaseCorrect, PTL DEF Spec

\* A batch that has been delivered stays gone: no update_batch that was still on
\* its way brings it back to the store.
THEOREM DeliveredStaysGone == Spec => []DeliveredIsGone
<1>1. DownloadInv => DeliveredIsGone
  BY DEF DownloadInv, DeliveredIsGone
<1> QED BY <1>1, DownloadCorrect, PTL

-----------------------------------------------------------------------------
(* Outputs.                                                                *)

HasOutput(b) == b \in disk /\ \E i \in Items : task[b][i] = "ok"

\* A step by which a batch loses its output file removes a completed batch.
LEMMA OutputFrame ==
  ASSUME TypeOK, PhaseInv, [Next]_vars, NEW b \in Batches,
         job[b] \notin BeforeItems \cup {"joining"}
  PROVE  /\ task'[b] = task[b]
         /\ b \in disk => b \in disk' \/ (DownloadUrl(b) /\ store'[b] = NoBatch)
<1>0. TasksInPhase(b) /\ StatusInPhase(b)
  BY DEF PhaseInv, Phase
<1>1. ASSUME NEW x \in Batches, NEW i \in Items, TaskStep(x, i)
      PROVE  task'[b] = task[b] /\ disk' = disk
  <2>1. job[x] = "joining"
    BY <1>1 DEF PhaseInv, Phase, TasksInPhase, TaskStep, TaskAcquire,
                TaskLoadMark, TaskMark, TaskLoadResult, TaskRecord, TaskEnded,
                BeforeItems
  <2>2. Same(b)
    BY <1>1, <2>1, OthersSame
  <2> QED BY <1>1, <2>2 DEF Same, TaskStep, TaskAcquire, TaskLoadMark, TaskMark,
                TaskLoadResult, TaskRecord
<1>2. ASSUME NEW x \in Batches, JobStep(x)
      PROVE  task'[b] = task[b] /\ disk \subseteq disk'
  <2>1. disk \subseteq disk'
    BY <1>2 DEF JobStep, JobLoad, JobMark, JobSpawnItems, JobJoin, JobWriteOutput,
                JobWriteFails, JobLoadFinal, JobCommit
  <2>2. task'[b] = task[b]
    <3>1. CASE x = b
      BY <1>2, <3>1
         DEF JobStep, JobLoad, JobMark, JobSpawnItems, JobJoin, JobWriteOutput,
             JobWriteFails, JobLoadFinal, JobCommit, BeforeItems, taskVars
    <3>2. CASE x # b
      BY <1>2, <3>2, OthersSame DEF Same
    <3> QED BY <3>1, <3>2
  <2> QED BY <2>1, <2>2
<1>3. ASSUME Remove(b)
      PROVE  b \in disk => b \in disk' \/ (DownloadUrl(b) /\ store'[b] = NoBatch)
  BY <1>0, <1>3 DEF Remove, DownloadUrl, StatusInPhase, TypeOK
<1>4. ASSUME NEW x \in Batches \cup {NoBatch}, x # b, Remove(x)
      PROVE  b \in disk => b \in disk'
  BY <1>4 DEF Remove
<1>5. ASSUME NEW x \in Batches, CleanupRemove(x)
      PROVE  /\ task'[b] = task[b]
             /\ b \in disk => b \in disk' \/ (DownloadUrl(b) /\ store'[b] = NoBatch)
  BY <1>3, <1>4, <1>5 DEF CleanupRemove, taskVars
<1>6. ASSUME NEW d \in Downloaders, DownloadRemove(d) \/ DownloadLost(d)
      PROVE  /\ task'[b] = task[b]
             /\ b \in disk => b \in disk' \/ (DownloadUrl(b) /\ store'[b] = NoBatch)
  <2>1. wanted[d] \in Batches \cup {NoBatch} /\ Remove(wanted[d]) /\ task' = task
    BY <1>6 DEF DownloadRemove, DownloadLost, TypeOK, taskVars
  <2> QED BY <1>3, <1>4, <2>1
<1>7. ASSUME NEW s \in Submitters, SubmitAdmit(s) \/ SubmitReject(s)
      PROVE  UNCHANGED <<task, disk>>
  BY <1>7 DEF SubmitAdmit, SubmitReject, taskVars
<1>8. ASSUME NEW s \in Submitters, NEW x \in Batches, SubmitCreate(s, x)
      PROVE  UNCHANGED <<task, disk>>
  BY <1>8 DEF SubmitCreate, taskVars
<1>9. ASSUME NEW d \in Downloaders, NEW x \in Batches,
             \/ DownloadStart(d, x) \/ DownloadCheck(d)
             \/ DownloadRead(d) \/ DownloadDropped(d)
      PROVE  UNCHANGED <<task, disk>>
  BY <1>9 DEF DownloadStart, DownloadCheck, DownloadRead, DownloadDropped, taskVars
<1>10. ASSUME NEW x \in Batches, Expire(x) \/ CleanupCollect \/ UNCHANGED vars
       PROVE  UNCHANGED <<task, disk>>
  BY <1>10 DEF Expire, CleanupCollect, vars, taskVars
<1> QED BY <1>1, <1>2, <1>5, <1>6, <1>7, <1>8, <1>9, <1>10 DEF Next

\* Apart from its submission, a job moves only by its own steps.
LEMMA JobMoves ==
  ASSUME TypeOK, [Next]_vars, NEW x \in Batches
  PROVE  \/ JobStep(x)
         \/ job'[x] = job[x] /\ jobCopy'[x] = jobCopy[x]
         \/ \E s \in Submitters : SubmitCreate(s, x)
<1>1. ASSUME NEW b \in Batches, b # x,
             \/ JobStep(b)
             \/ \E s \in Submitters : SubmitCreate(s, b)
             \/ CleanupRemove(b)
      PROVE  job'[x] = job[x] /\ jobCopy'[x] = jobCopy[x]
  BY <1>1, OthersSame DEF Same
<1>2. ASSUME NEW b \in Batches, NEW i \in Items, TaskStep(b, i)
      PROVE  UNCHANGED <<job, jobCopy>>
  BY <1>2 DEF TaskStep, TaskAcquire, TaskLoadMark, TaskMark, TaskLoadResult,
              TaskRecord, jobVars
<1>3. ASSUME NEW s \in Submitters, SubmitAdmit(s) \/ SubmitReject(s)
      PROVE  UNCHANGED <<job, jobCopy>>
  BY <1>3 DEF SubmitAdmit, SubmitReject, jobVars
<1>4. ASSUME NEW d \in Downloaders, NEW b \in Batches,
             \/ DownloadStart(d, b) \/ DownloadCheck(d) \/ DownloadRead(d)
             \/ DownloadRemove(d) \/ DownloadLost(d) \/ DownloadDropped(d)
      PROVE  UNCHANGED <<job, jobCopy>>
  BY <1>4 DEF DownloadStart, DownloadCheck, DownloadRead, DownloadRemove,
              DownloadLost, DownloadDropped, jobVars
<1>5. ASSUME NEW b \in Batches,
             CleanupRemove(b) \/ Expire(b) \/ CleanupCollect \/ UNCHANGED vars
      PROVE  UNCHANGED <<job, jobCopy>>
  BY <1>5 DEF CleanupRemove, Expire, CleanupCollect, vars, jobVars
<1> QED BY <1>1, <1>2, <1>3, <1>4, <1>5 DEF Next

\* OutputInv, for one batch.
OutputPhase(b) ==
  /\ job[b] \in {"writing", "completing"} => \E i \in Items : task[b][i] = "ok"
  /\ job[b] = "completing" => b \in disk
  /\ job[b] = "committing" /\ jobCopy[b].output => HasOutput(b)
  /\ DownloadUrl(b) => HasOutput(b)

\* The job's own steps establish and keep what its phase says of the output.
LEMMA OutputJobStep ==
  ASSUME TypeOK, PhaseInv, NEW b \in Batches, JobStep(b), OutputPhase(b)
  PROVE  OutputPhase(b)'
<1>0. /\ store \in [Batches -> MaybeBatch]
      /\ job \in [Batches -> JobPC]
      /\ jobCopy \in [Batches -> MaybeBatch]
      /\ Phase(b)
  BY DEF TypeOK, MaybeBatch, PhaseInv
<1>1. StatusInPhase(b) /\ CopiesInPhase(b)
  BY <1>0 DEF Phase
<1> USE DEF OutputPhase, HasOutput, DownloadUrl, Stored, JobGoes
<1>2. CASE JobLoad(b)
  BY <1>0, <1>2 DEF JobLoad, taskVars
<1>3. CASE JobMark(b)
  BY <1>0, <1>1, <1>3 DEF JobMark, Update, CopiesInPhase, taskVars
<1>4. CASE JobSpawnItems(b)
  <2>1. job'[b] \in {"joining", "failing"} /\ ~DownloadUrl(b)'
    BY <1>0, <1>1, <1>4 DEF JobSpawnItems, StatusInPhase
  <2> QED BY <2>1
<1>5. CASE JobJoin(b)
  BY <1>0, <1>5 DEF JobJoin, taskVars
<1>6. CASE JobWriteOutput(b)
  BY <1>0, <1>6 DEF JobWriteOutput, taskVars
<1>7. CASE JobWriteFails(b)
  BY <1>0, <1>7 DEF JobWriteFails, taskVars
<1>8. CASE JobLoadFinal(b)
  <2>1. ~DownloadUrl(b)'
    BY <1>0, <1>1, <1>8 DEF JobLoadFinal, StatusInPhase
  <2>2. CASE ~Stored(b)
    BY <1>0, <1>8, <2>1, <2>2 DEF JobLoadFinal
  <2>3. CASE Stored(b) /\ job[b] = "completing"
    BY <1>0, <1>8, <2>1, <2>3 DEF JobLoadFinal, taskVars
  <2>4. CASE Stored(b) /\ job[b] = "failing"
    <3>1. jobCopy'[b] = MarkFailed(store[b]) /\ ~MarkFailed(store[b]).output
      BY <1>0, <1>1, <1>8, <2>4, MarkFacts
         DEF JobLoadFinal, MaybeBatch, StatusInPhase
    <3>2. job'[b] = "committing"
      BY <1>0, <1>8, <2>4 DEF JobLoadFinal
    <3> QED BY <2>1, <3>1, <3>2
  <2> QED BY <1>8, <2>2, <2>3, <2>4 DEF JobLoadFinal
<1>9. CASE JobCommit(b)
  BY <1>0, <1>9 DEF JobCommit, Update, taskVars
<1> QED BY <1>2, <1>3, <1>4, <1>5, <1>6, <1>7, <1>8, <1>9 DEF JobStep

\* OutputInv is inductive (given the types and the phases).
LEMMA OutputNext == TypeOK /\ PhaseInv /\ OutputInv /\ [Next]_vars => OutputInv'
<1> SUFFICES ASSUME TypeOK, PhaseInv, OutputInv, [Next]_vars, NEW x \in Batches
             PROVE  OutputPhase(x)'
  BY DEF OutputInv, OutputPhase, HasOutput
<1>0. OutputPhase(x)
  BY DEF OutputInv, OutputPhase, HasOutput
<1>1. Phase(x) /\ Phase(x)'
  BY PhaseNext DEF PhaseInv
<1>2. CASE JobStep(x)
  BY <1>0, <1>2, OutputJobStep
<1>3. ASSUME NEW s \in Submitters, SubmitCreate(s, x) PROVE OutputPhase(x)'
  <2>1. job'[x] = "spawned" /\ store'[x] = NewBatch
    BY <1>3 DEF SubmitCreate, Update, TypeOK
  <2> QED BY <2>1 DEF OutputPhase, DownloadUrl, NewBatch
<1>4. CASE job'[x] = job[x] /\ jobCopy'[x] = jobCopy[x]
  <2>1. CASE job[x] \in BeforeItems \cup {"joining", "failing", "panicked"}
    BY <1>1, <1>4, <2>1
       DEF Phase, StatusInPhase, OutputPhase, DownloadUrl, BeforeItems
  <2>2. CASE job[x] \in {"writing", "completing", "committing"}
    <3>1. ~DownloadUrl(x) /\ ~DownloadUrl(x)'
      BY <1>1, <1>4, <2>2 DEF Phase, StatusInPhase, DownloadUrl
    <3>2. task'[x] = task[x] /\ (x \in disk => x \in disk')
      BY <2>2, <3>1, OutputFrame DEF BeforeItems
    <3> QED BY <1>0, <1>4, <3>1, <3>2 DEF OutputPhase, HasOutput
  <2>3. CASE job[x] = "done"
    <3>1. task'[x] = task[x] /\ store'[x] \in {store[x], NoBatch}
      BY <2>3, DoneIsFrozen
    <3>2. x \in disk => x \in disk' \/ store'[x] = NoBatch
      BY <2>3, OutputFrame DEF BeforeItems
    <3> QED BY <1>0, <1>4, <2>3, <3>1, <3>2
            DEF OutputPhase, HasOutput, DownloadUrl, Stored
  <2> QED BY <2>1, <2>2, <2>3 DEF TypeOK, JobPC, BeforeItems
<1> QED BY <1>2, <1>3, <1>4, JobMoves

\* Completed, or about to be: the output file exists and an item succeeded.
LEMMA OutputCorrect == Spec => []OutputInv
<1>1. Init => OutputInv
  BY DEF Init, OutputInv, DownloadUrl, Stored
<1> QED BY <1>1, OutputNext, TypeCorrect, PhaseCorrect, PTL DEF Spec

\* Whenever a status answer carries a download_url the output file is there and
\* some item has been converted.
THEOREM AdvertisedStaysDownloadable == Spec => []AdvertisedIsDownloadable
<1>1. OutputInv => AdvertisedIsDownloadable
  BY DEF OutputInv, AdvertisedIsDownloadable
<1> QED BY <1>1, OutputCorrect, PTL

\* A download of a completed batch that ends without the batch leaves it ready to
\* be downloaded, or the batch has been removed.
THEOREM FailedDownloadsLoseNothing == Spec => FailedDownloadLosesNothing
<1>1. TypeOK /\ (OutputInv /\ DownloadInv)' /\ PhaseInv /\ DownloadInv /\ [Next]_vars =>
        [\A d \in Downloaders, b \in Batches :
           /\ download[d] \in DownloadPC /\ wanted[d] = b
           /\ download'[d] \in Answers \ {"ok"}
           => (Stored(b) => DownloadUrl(b) /\ b \in disk)']_vars
  <2> SUFFICES ASSUME TypeOK, OutputInv', PhaseInv, DownloadInv, [Next]_vars,
                      NEW d \in Downloaders, NEW b \in Batches,
                      download[d] \in DownloadPC, wanted[d] = b, Stored(b)'
               PROVE  (DownloadUrl(b) /\ b \in disk)'
    OBVIOUS
  <2>1. job[b] = "done" /\ (Stored(b) => DownloadUrl(b))
    BY DEF DownloadInv
  <2>2. store'[b] = store[b] /\ Stored(b)
    BY <2>1, DoneIsFrozen DEF Stored
  <2>3. DownloadUrl(b)'
    BY <2>1, <2>2 DEF DownloadUrl, Stored
  <2> QED BY <2>3 DEF OutputInv
<1> QED BY <1>1, TypeCorrect, PhaseCorrect, OutputCorrect, DownloadCorrect, PTL
        DEF Spec, FailedDownloadLosesNothing

-----------------------------------------------------------------------------
(* Steps, batch by batch.                                                 *)

\* What one step does to one batch: nothing, a step of its job or of one of its
\* tasks, its creation, or its removal.
LEMMA BatchMoves ==
  ASSUME TypeOK, [Next]_vars, NEW x \in Batches
  PROVE  \/ JobStep(x)
         \/ \E i \in Items : TaskStep(x, i)
         \/ \E s \in Submitters : SubmitCreate(s, x)
         \/ /\ store'[x] \in {store[x], NoBatch}
            /\ job'[x] = job[x] /\ jobCopy'[x] = jobCopy[x]
            /\ task'[x] = task[x] /\ taskCopy'[x] = taskCopy[x]
            /\ permits'[x] = permits[x]
<1> DEFINE Others == /\ store'[x] \in {store[x], NoBatch}
                     /\ job'[x] = job[x] /\ jobCopy'[x] = jobCopy[x]
                     /\ task'[x] = task[x] /\ taskCopy'[x] = taskCopy[x]
                     /\ permits'[x] = permits[x]
<1>1. ASSUME NEW b \in Batches \ {x},
             \/ JobStep(b)
             \/ \E i \in Items : TaskStep(b, i)
             \/ \E s \in Submitters : SubmitCreate(s, b)
      PROVE  Others
  <2>1. Same(x)
    BY <1>1, OthersSame
  <2>2. permits \in [Batches -> Nat]
    BY DEF TypeOK
  <2>3. JobStep(b) => permits'[x] = permits[x]
    BY <2>2 DEF JobStep, JobLoad, JobMark, JobSpawnItems, JobJoin, JobWriteOutput,
           JobWriteFails, JobLoadFinal, JobCommit, taskVars
  <2>4. ASSUME NEW i \in Items, TaskStep(b, i) PROVE permits'[x] = permits[x]
    BY <2>2, <2>4 DEF TaskStep, TaskAcquire, TaskLoadMark, TaskMark, TaskLoadResult,
                 TaskRecord, TaskPanics
  <2>5. ASSUME NEW s \in Submitters, SubmitCreate(s, b) PROVE permits'[x] = permits[x]
    BY <2>5 DEF SubmitCreate, taskVars
  <2> QED BY <1>1, <2>1, <2>3, <2>4, <2>5 DEF Same
<1>2. ASSUME NEW b \in Batches \cup {NoBatch}, Remove(b) PROVE store'[x] \in {store[x], NoBatch}
  BY <1>2 DEF Remove, TypeOK
<1>3. ASSUME NEW d \in Downloaders, DownloadRemove(d) \/ DownloadLost(d) PROVE Others
  BY <1>2, <1>3 DEF DownloadRemove, DownloadLost, TypeOK, jobVars, taskVars
<1>4. ASSUME NEW b \in Batches, CleanupRemove(b) PROVE Others
  BY <1>2, <1>4 DEF CleanupRemove, jobVars, taskVars
<1>5. ASSUME NEW s \in Submitters, SubmitAdmit(s) \/ SubmitReject(s) PROVE Others
  BY <1>5 DEF SubmitAdmit, SubmitReject, jobVars, taskVars
<1>6. ASSUME NEW d \in Downloaders, NEW b \in Batches,
             \/ DownloadStart(d, b) \/ DownloadCheck(d)
             \/ DownloadRead(d) \/ DownloadDropped(d)
      PROVE  Others
  BY <1>6 DEF DownloadStart, DownloadCheck, DownloadRead, DownloadDropped, jobVars, taskVars
<1>7. ASSUME NEW b \in Batches, Expire(b) \/ CleanupCollect \/ UNCHANGED vars
      PROVE  Others
  BY <1>7 DEF Expire, CleanupCollect, vars, jobVars, taskVars
<1> QED BY <1>1, <1>3, <1>4, <1>5, <1>6, <1>7 DEF Next

\* What a task's step does to its own batch, one alternative per action.
TaskEffect(b, i) ==
  LET pc == task[b][i]
      pcNew == task'[b][i]
      copyNew == taskCopy'[b][i]
  IN  \/ /\ pc = "waiting" /\ pcNew = "admitted"
         /\ store'[b] = store[b] /\ copyNew = taskCopy[b][i]
         /\ permits[b] > 0 /\ permits'[b] = permits[b] - 1
      \/ /\ pc = "admitted" /\ pcNew = "marking"
         /\ Stored(b) /\ store'[b] = store[b]
         /\ copyNew = MarkItem(store[b], i, "Processing")
         /\ permits'[b] = permits[b]
      \/ /\ pc \in {"admitted", "converting"} /\ pcNew = "panicked"
         /\ store'[b] = store[b] /\ copyNew = taskCopy[b][i]
         /\ permits'[b] = permits[b] + 1
      \/ /\ pc = "marking" /\ pcNew = "converting"
         /\ store'[b] = taskCopy[b][i] /\ copyNew = NoBatch
         /\ permits'[b] = permits[b]
      \/ /\ pc = "converting" /\ pcNew = "recording"
         /\ Stored(b) /\ store'[b] = store[b]
         /\ \E st \in ItemStatus : copyNew = MarkItem(store[b], i, st)
         /\ permits'[b] = permits[b]
      \/ /\ pc = "recording"
         /\ pcNew = IF taskCopy[b][i].items[i] = "Success" THEN "ok" ELSE "err"
         /\ store'[b] = taskCopy[b][i] /\ copyNew = NoBatch
         /\ permits'[b] = permits[b] + 1

\* A task's step is one of these alternatives, and leaves the other tasks of the
\* batch, and process_batch, alone.
LEMMA TaskStepEffect ==
  ASSUME TypeOK, NEW b \in Batches, NEW i \in Items, TaskStep(b, i)
  PROVE  /\ TaskEffect(b, i)
         /\ UNCHANGED jobVars
         /\ \A j \in Items \ {i} : task'[b][j] = task[b][j] /\ taskCopy'[b][j] = taskCopy[b][j]
<1>0. /\ store \in [Batches -> MaybeBatch]
      /\ task \in [Batches -> [Items -> TaskPC]]
      /\ taskCopy \in [Batches -> [Items -> MaybeBatch]]
      /\ permits \in [Batches -> Nat]
  BY DEF TypeOK, MaybeBatch
<1>1. /\ UNCHANGED jobVars
      /\ \A j \in Items \ {i} : task'[b][j] = task[b][j] /\ taskCopy'[b][j] = taskCopy[b][j]
  BY <1>0 DEF TaskStep, TaskAcquire, TaskLoadMark, TaskMark, TaskLoadResult,
              TaskRecord, TaskPanics, TaskGoes
<1> USE DEF TaskEffect, TaskGoes, TaskPanics, Update
<1>2. CASE TaskAcquire(b, i)
  BY <1>0, <1>2 DEF TaskAcquire
<1>3. CASE TaskLoadMark(b, i)
  BY <1>0, <1>3 DEF TaskLoadMark
<1>4. CASE TaskMark(b, i)
  BY <1>0, <1>4 DEF TaskMark
<1>5. CASE TaskLoadResult(b, i)
  <2>1. ItemOutcomes \subseteq ItemStatus
    BY OutcomesAssumption DEF ItemStatus
  <2> QED BY <1>0, <1>5, <2>1 DEF TaskLoadResult
<1>6. CASE TaskRecord(b, i)
  BY <1>0, <1>6 DEF TaskRecord
<1> QED BY <1>1, <1>2, <1>3, <1>4, <1>5, <1>6 DEF TaskStep

-----------------------------------------------------------------------------
(* Who reports a success.                                                  *)

\* A copy shows that an item was converted.
Shows(s, i) == s # NoBatch /\ s.items[i] = "Success"

\* The stored batch, the job's copy and the copies of other tasks show the success
\* of an item only after its task has recorded it; until then the task's own copy
\* alone may show it.
Attributed(b) ==
  \A i \in Items :
    /\ Shows(store[b], i) \/ Shows(jobCopy[b], i) => task[b][i] = "ok"
    /\ Shows(taskCopy[b][i], i) => task[b][i] = "recording"
    /\ \A j \in Items \ {i} : Shows(taskCopy[b][j], i) => task[b][i] = "ok"

AttributedInv == \A b \in Batches : Attributed(b)

\* What the methods leave of the items' results.
LEMMA MarkShows ==
  ASSUME NEW s \in BatchState, NEW j \in Items
  PROVE  /\ Shows(MarkProcessing(s), j) <=> Shows(s, j)
         /\ Shows(MarkCompleted(s), j) <=> Shows(s, j)
         /\ Shows(MarkFailed(s), j) <=> Shows(s, j)
         /\ \A i \in Items, st \in ItemStatus :
              /\ Shows(MarkItem(s, i, st), j) <=> IF i = j THEN st = "Success" ELSE Shows(s, j)
              /\ MarkItem(s, i, st).items[i] = st
<1>1. s # NoBatch
  BY NoBatchAssumption
<1>2. /\ MarkProcessing(s) # NoBatch
      /\ MarkCompleted(s) # NoBatch
      /\ MarkFailed(s) # NoBatch
      /\ \A i \in Items, st \in ItemStatus : MarkItem(s, i, st) # NoBatch
  BY MarkFacts
<1>3. /\ MarkProcessing(s).items = s.items
      /\ MarkCompleted(s).items = s.items
      /\ MarkFailed(s).items = s.items
  BY DEF MarkProcessing, MarkCompleted, MarkFailed, BatchState
<1>4. ASSUME NEW i \in Items, NEW st \in ItemStatus
      PROVE  /\ MarkItem(s, i, st).items[j] = IF i = j THEN st ELSE s.items[j]
             /\ MarkItem(s, i, st).items[i] = st
  BY DEF MarkItem, BatchState
<1> QED BY <1>1, <1>2, <1>3, <1>4 DEF Shows

\* A step of process_batch puts no success anywhere; it starts the items' tasks
\* when no copy shows any.
LEMMA AttributedJobStep ==
  ASSUME TypeOK, NEW b \in Batches, Phase(b), JobStep(b), Attributed(b)
  PROVE  Attributed(b)'
<1>0. /\ store \in [Batches -> MaybeBatch]
      /\ job \in [Batches -> JobPC]
      /\ jobCopy \in [Batches -> MaybeBatch]
      /\ task \in [Batches -> [Items -> TaskPC]]
      /\ ~Shows(NoBatch, 0)
  BY DEF TypeOK, MaybeBatch, Shows
<1>1. ASSUME Stored(b), NEW i \in Items
      PROVE  /\ Shows(MarkProcessing(store[b]), i) <=> Shows(store[b], i)
             /\ Shows(MarkCompleted(store[b]), i) <=> Shows(store[b], i)
             /\ Shows(MarkFailed(store[b]), i) <=> Shows(store[b], i)
  BY <1>0, <1>1, MarkShows DEF Stored, MaybeBatch
<1>2. \A i \in Items : ~Shows(NoBatch, i)
  BY DEF Shows
<1>3. CASE task' = task /\ taskCopy' = taskCopy
  <2>1. \/ store'[b] = store[b]
        \/ store'[b] = jobCopy[b]
    BY <1>0 DEF JobStep, JobLoad, JobMark, JobSpawnItems, JobJoin, JobWriteOutput,
                JobWriteFails, JobLoadFinal, JobCommit, Update
  <2>2. \/ jobCopy'[b] = jobCopy[b]
        \/ jobCopy'[b] = NoBatch
        \/ Stored(b) /\ jobCopy'[b] \in {MarkProcessing(store[b]), MarkCompleted(store[b]),
                                         MarkFailed(store[b])}
    BY <1>0 DEF JobStep, JobLoad, JobMark, JobSpawnItems, JobJoin, JobWriteOutput,
                JobWriteFails, JobLoadFinal, JobCommit
  <2>3. \A i \in Items : Shows(store'[b], i) => Shows(store[b], i) \/ Shows(jobCopy[b], i)
    BY <2>1
  <2>4. \A i \in Items : Shows(jobCopy'[b], i) => Shows(store[b], i) \/ Shows(jobCopy[b], i)
    BY <1>1, <1>2, <2>2
  <2> QED BY <1>3, <2>3, <2>4 DEF Attributed, Shows
<1>4. CASE job[b] = "opening"
  <2>1. UNCHANGED <<store, jobCopy, taskCopy>>
    BY <1>4 DEF JobStep, JobLoad, JobMark, JobSpawnItems, JobJoin, JobWriteOutput,
                JobWriteFails, JobLoadFinal, JobCommit
  <2>2. \A i \in Items : task[b][i] = "none"
    BY <1>4 DEF Phase, TasksInPhase, BeforeItems
  <2> QED BY <2>1, <2>2 DEF Attributed, Shows
<1>5. job[b] # "opening" => task' = task /\ taskCopy' = taskCopy
  BY DEF JobStep, JobLoad, JobMark, JobSpawnItems, JobJoin, JobWriteOutput,
         JobWriteFails, JobLoadFinal, JobCommit, taskVars
<1> QED BY <1>3, <1>4, <1>5

\* A task writes back what it read, and of its own item what it found out itself.
LEMMA AttributedTaskStep ==
  ASSUME TypeOK, NEW b \in Batches, NEW i \in Items, TaskStep(b, i), Attributed(b)
  PROVE  Attributed(b)'
<1>0. store \in [Batches -> MaybeBatch]
  BY DEF TypeOK, MaybeBatch
<1>1. /\ TaskEffect(b, i)
      /\ jobCopy' = jobCopy
      /\ \A j \in Items \ {i} : task'[b][j] = task[b][j] /\ taskCopy'[b][j] = taskCopy[b][j]
  BY TaskStepEffect DEF jobVars
<1>2. ASSUME Stored(b), NEW j \in Items, NEW st \in ItemStatus
      PROVE  Shows(MarkItem(store[b], i, st), j)
               <=> IF i = j THEN st = "Success" ELSE Shows(store[b], j)
  BY <1>0, <1>2, MarkShows DEF Stored, MaybeBatch
<1>3. \A j \in Items : ~Shows(NoBatch, j)
  BY DEF Shows
<1>4. "Processing" \in ItemStatus
  BY DEF ItemStatus
<1>5. \A j \in Items : Shows(store'[b], j) => task'[b][j] = "ok"
  <2> SUFFICES ASSUME NEW j \in Items, Shows(store'[b], j) PROVE task'[b][j] = "ok"
    OBVIOUS
  <2>1. CASE store'[b] = store[b]
    BY <1>1, <2>1 DEF Attributed, TaskEffect
  <2>2. CASE store'[b] = taskCopy[b][i] /\ j # i
    BY <1>1, <2>2 DEF Attributed
  <2>3. CASE store'[b] = taskCopy[b][i] /\ j = i
    <3>1. task[b][i] = "recording"
      BY <2>3 DEF Attributed
    <3> QED BY <1>1, <2>3, <3>1 DEF TaskEffect, Shows
  <2> QED BY <1>1, <2>1, <2>2, <2>3 DEF TaskEffect
<1>6. \A j \in Items : Shows(jobCopy'[b], j) => task'[b][j] = "ok"
  BY <1>1 DEF Attributed, TaskEffect
<1>7. Shows(taskCopy'[b][i], i) => task'[b][i] = "recording"
  <2>1. CASE taskCopy'[b][i] = taskCopy[b][i]
    BY <1>1, <1>3, <2>1 DEF Attributed, TaskEffect
  <2>2. CASE taskCopy'[b][i] = NoBatch
    BY <1>3, <2>2
  <2>3. CASE Stored(b) /\ taskCopy'[b][i] = MarkItem(store[b], i, "Processing")
    BY <1>2, <1>4, <2>3
  <2> QED BY <1>1, <2>1, <2>2, <2>3 DEF TaskEffect
<1>8. ASSUME NEW j \in Items \ {i}, Shows(taskCopy'[b][i], j)
      PROVE  task'[b][j] = "ok"
  <2>1. Shows(taskCopy[b][i], j) \/ Shows(store[b], j)
    <3>1. \/ taskCopy'[b][i] = taskCopy[b][i]
          \/ taskCopy'[b][i] = NoBatch
          \/ Stored(b) /\ \E st \in ItemStatus : taskCopy'[b][i] = MarkItem(store[b], i, st)
      BY <1>1, <1>4 DEF TaskEffect
    <3> QED BY <1>2, <1>3, <1>8, <3>1
  <2> QED BY <1>1, <2>1 DEF Attributed
<1>9. ASSUME NEW j \in Items \ {i}
      PROVE  /\ Shows(taskCopy'[b][j], j) => task'[b][j] = "recording"
             /\ \A k \in Items \ {j} : Shows(taskCopy'[b][j], k) => task'[b][k] = "ok"
  <2>1. Shows(taskCopy[b][j], i) => task'[b][i] = "ok"
    BY <1>1, <1>9 DEF Attributed, TaskEffect
  <2> QED BY <1>1, <2>1 DEF Attributed
<1>10. /\ \A j \in Items : Shows(taskCopy'[b][j], j) => task'[b][j] = "recording"
       /\ \A j \in Items : \A k \in Items \ {j} : Shows(taskCopy'[b][j], k) => task'[b][k] = "ok"
  BY <1>7, <1>8, <1>9
<1> HIDE DEF Shows
<1> QED BY <1>5, <1>6, <1>10 DEF Attributed, Shows

\* In every reachable state each success shown has been put there by the task of
\* the item it is about.
LEMMA AttributedCorrect == Spec => []AttributedInv
<1>1. Init => AttributedInv
  BY DEF Init, AttributedInv, Attributed, Shows
<1>2. TypeOK /\ PhaseInv /\ AttributedInv /\ [Next]_vars => AttributedInv'
  <2> SUFFICES ASSUME TypeOK, PhaseInv, AttributedInv, [Next]_vars, NEW x \in Batches
               PROVE  Attributed(x)'
    BY DEF AttributedInv
  <2>0. Phase(x) /\ Attributed(x)
    BY DEF PhaseInv, AttributedInv
  <2>1. ASSUME NEW s \in Submitters, SubmitCreate(s, x) PROVE Attributed(x)'
    <3>1. /\ store'[x] = NewBatch
          /\ UNCHANGED <<jobCopy, task, taskCopy>>
      BY <2>1 DEF SubmitCreate, Update, TypeOK, taskVars
    <3>2. \A i \in Items : ~Shows(NewBatch, i)
      BY DEF Shows, NewBatch
    <3>3. \A i \in Items : ~Shows(store'[x], i)
      BY <3>1, <3>2
    <3> QED BY <2>0, <3>1, <3>3 DEF Attributed, Shows
  <2>2. CASE /\ store'[x] \in {store[x], NoBatch}
             /\ jobCopy'[x] = jobCopy[x]
             /\ task'[x] = task[x] /\ taskCopy'[x] = taskCopy[x]
    BY <2>0, <2>2 DEF Attributed, Shows
  <2> QED BY <2>0, <2>1, <2>2, BatchMoves, AttributedJobStep, AttributedTaskStep
<1> QED BY <1>1, <1>2, TypeCorrect, PhaseCorrect, PTL DEF Spec

\* Whole copies are written back in any order, stale ones too, and yet none ever
\* shows a success that the item's own task did not put there.
THEOREM SuccessIsNeverInvented == Spec => []NoPhantomSuccess
<1>1. AttributedInv => NoPhantomSuccess
  <2> SUFFICES ASSUME AttributedInv, NEW b \in Batches, NEW i \in Items,
                      NEW s \in {store[b], jobCopy[b]} \cup {taskCopy[b][j] : j \in Items},
                      Shows(s, i)
               PROVE  task[b][i] \in {"recording", "ok"}
    BY DEF NoPhantomSuccess, Shows
  <2> QED BY DEF AttributedInv, Attributed
<1> QED BY <1>1, AttributedCorrect, PTL

-----------------------------------------------------------------------------
(* Permits.                                                                *)

Holders(b) == {i \in Items : task[b][i] \in HoldsPermit}

Balance(b) ==
  (\E i \in Items : task[b][i] # "none")
    => permits[b] + Cardinality(Holders(b)) = Concurrency

\* The tasks that hold a permit are finitely many.
LEMMA HoldersFinite ==
  ASSUME NEW b
  PROVE  IsFiniteSet(Holders(b)) /\ Cardinality(Holders(b)) \in Nat
<1>1. Holders(b) \subseteq Items
  BY DEF Holders
<1> QED BY <1>1, ItemsAssumption, FS_Subset, FS_CardinalityType

\* Each step of a task moves a permit from the semaphore to the task, back, or
\* not at all.
LEMMA BalanceTaskStep ==
  ASSUME TypeOK, NEW b \in Batches, NEW i \in Items, TaskStep(b, i), Balance(b)
  PROVE  Balance(b)'
<1>0. task \in [Batches -> [Items -> TaskPC]] /\ permits \in [Batches -> Nat]
  BY DEF TypeOK
<1>1. /\ TaskEffect(b, i)
      /\ \A j \in Items \ {i} : task'[b][j] = task[b][j]
  BY TaskStepEffect
<1>2. permits[b] + Cardinality(Holders(b)) = Concurrency
  <2>1. task[b][i] # "none"
    BY <1>1 DEF TaskEffect
  <2> QED BY <2>1 DEF Balance
<1>3. /\ IsFiniteSet(Holders(b)) /\ Cardinality(Holders(b)) \in Nat
      /\ permits[b] \in Nat
  BY <1>0, HoldersFinite
<1>4. CASE /\ i \notin Holders(b) /\ Holders(b)' = Holders(b) \cup {i}
           /\ permits[b] > 0 /\ permits'[b] = permits[b] - 1
  <2>1. Cardinality(Holders(b) \cup {i}) = Cardinality(Holders(b)) + 1
    BY <1>3, <1>4, FS_AddElement
  <2>2. permits'[b] + Cardinality(Holders(b)') = Concurrency
    BY <1>2, <1>3, <1>4, <2>1
  <2> QED BY <2>2 DEF Balance
<1>5. CASE /\ i \in Holders(b) /\ Holders(b)' = Holders(b) \ {i}
           /\ permits'[b] = permits[b] + 1
  <2>1. Cardinality(Holders(b) \ {i}) = Cardinality(Holders(b)) - 1
    BY <1>3, <1>5, FS_RemoveElement
  <2>2. permits'[b] + Cardinality(Holders(b)') = Concurrency
    BY <1>2, <1>3, <1>5, <2>1
  <2> QED BY <2>2 DEF Balance
<1>6. CASE Holders(b)' = Holders(b) /\ permits'[b] = permits[b]
  BY <1>2, <1>6 DEF Balance
<1>7. task[b][i] = "waiting" /\ task'[b][i] = "admitted" =>
        i \notin Holders(b) /\ Holders(b)' = Holders(b) \cup {i}
  BY <1>1 DEF Holders, HoldsPermit
<1>8. task[b][i] \in HoldsPermit /\ task'[b][i] \in TaskEnded =>
        i \in Holders(b) /\ Holders(b)' = Holders(b) \ {i}
  BY <1>1 DEF Holders, HoldsPermit, TaskEnded
<1>9. task[b][i] \in HoldsPermit /\ task'[b][i] \in HoldsPermit =>
        Holders(b)' = Holders(b)
  BY <1>1 DEF Holders
<1> QED BY <1>1, <1>4, <1>5, <1>6, <1>7, <1>8, <1>9
        DEF TaskEffect, HoldsPermit, TaskEnded

\* The semaphore is made with the tasks; nothing else process_batch does is about
\* permits.
LEMMA BalanceJobStep ==
  ASSUME TypeOK, NEW b \in Batches, JobStep(b), Balance(b)
  PROVE  Balance(b)'
<1>0. task \in [Batches -> [Items -> TaskPC]] /\ permits \in [Batches -> Nat]
  BY DEF TypeOK
<1>1. CASE task'[b] = task[b] /\ permits'[b] = permits[b]
  BY <1>1 DEF Balance, Holders
<1>2. CASE task'[b] = [i \in Items |-> "waiting"] /\ permits'[b] = Concurrency
  <2>1. Holders(b)' = {}
    BY <1>2 DEF Holders, HoldsPermit
  <2>2. permits'[b] + Cardinality(Holders(b)') = Concurrency
    BY <1>2, <2>1, FS_EmptySet, ConcurrencyAssumption
  <2> QED BY <2>2 DEF Balance
<1>3. JobSpawnItems(b) =>
        \/ task'[b] = [i \in Items |-> "waiting"] /\ permits'[b] = Concurrency
        \/ task'[b] = task[b] /\ permits'[b] = permits[b]
  BY <1>0 DEF JobSpawnItems
<1>4. ~JobSpawnItems(b) => task'[b] = task[b] /\ permits'[b] = permits[b]
  BY DEF JobStep, JobLoad, JobMark, JobJoin, JobWriteOutput,
         JobWriteFails, JobLoadFinal, JobCommit, taskVars
<1> QED BY <1>1, <1>2, <1>3, <1>4

\* No permit is lost, by a panic or otherwise, and none is invented: those held
\* and those free add up to batch_concurrency.
THEOREM PermitsStayBalanced == Spec => []PermitsBalance
<1> DEFINE BalanceInv == \A b \in Batches : Balance(b)
<1>1. Init => BalanceInv
  BY DEF Init, Balance
<1>2. TypeOK /\ BalanceInv /\ [Next]_vars => BalanceInv'
  <2> SUFFICES ASSUME TypeOK, BalanceInv, [Next]_vars, NEW x \in Batches
               PROVE  Balance(x)'
    OBVIOUS
  <2>0. Balance(x)
    OBVIOUS
  <2>1. ASSUME NEW s \in Submitters, SubmitCreate(s, x)
        PROVE  task' = task /\ permits' = permits
    BY <2>1 DEF SubmitCreate, taskVars
  <2>2. CASE task'[x] = task[x] /\ permits'[x] = permits[x]
    BY <2>0, <2>2 DEF Balance, Holders
  <2> QED BY <2>0, <2>1, <2>2, BatchMoves, BalanceJobStep, BalanceTaskStep
<1>3. BalanceInv => PermitsBalance
  BY DEF Balance, Holders, PermitsBalance
<1> QED BY <1>1, <1>2, <1>3, TypeCorrect, PTL DEF Spec

-----------------------------------------------------------------------------
(* One item at a time.                                                     *)

\* With one permit, what an item's task has recorded is in the stored batch and in
\* every copy that may still be written over it.
Recorded(b) ==
  \A i \in Items : task[b][i] = "ok" =>
    /\ Stored(b) => Shows(store[b], i)
    /\ job[b] = "committing" => Shows(jobCopy[b], i)
    /\ \A j \in Items :
         task[b][j] \in {"marking", "recording"} => Shows(taskCopy[b][j], i)

RecordedInv == \A b \in Batches : Recorded(b)

\* With batch_concurrency = 1 no two tasks of a batch hold a permit.
LEMMA OneHolder ==
  ASSUME TypeOK, PermitsBalance, Concurrency = 1, NEW b \in Batches,
         NEW i \in Items, NEW j \in Items,
         task[b][i] \in HoldsPermit, task[b][j] \in HoldsPermit
  PROVE  i = j
<1>1. /\ IsFiniteSet(Holders(b)) /\ Cardinality(Holders(b)) \in Nat
      /\ permits[b] \in Nat
  BY HoldersFinite DEF TypeOK
<1>2. permits[b] + Cardinality(Holders(b)) = 1
  BY DEF PermitsBalance, Holders, HoldsPermit
<1>3. i \in Holders(b) /\ j \in Holders(b)
  BY DEF Holders
<1>4. Cardinality(Holders(b)) <= 1
  BY <1>1, <1>2
<1>5. {i, j} \subseteq Holders(b)
  BY <1>3
<1> SUFFICES ASSUME i # j PROVE FALSE
  OBVIOUS
<1>6. Cardinality({i, j}) <= Cardinality(Holders(b))
  BY <1>1, <1>5, FS_Subset
<1>7. IsFiniteSet({i}) /\ Cardinality({i}) = 1
  BY FS_Singleton
<1>8. Cardinality({i} \cup {j}) = Cardinality({i}) + 1
  BY <1>7, FS_AddElement
<1>9. {i} \cup {j} = {i, j}
  OBVIOUS
<1> QED BY <1>1, <1>4, <1>6, <1>7, <1>8, <1>9

\* The job's own copies show what the store shows, and it changes no result.
LEMMA RecordedJobStep ==
  ASSUME TypeOK, NEW b \in Batches, Phase(b), JobStep(b), Recorded(b)
  PROVE  Recorded(b)'
<1>0. /\ store \in [Batches -> MaybeBatch]
      /\ job \in [Batches -> JobPC]
      /\ jobCopy \in [Batches -> MaybeBatch]
      /\ task \in [Batches -> [Items -> TaskPC]]
  BY DEF TypeOK, MaybeBatch
<1>1. CASE job[b] \in BeforeItems
  <2>1. \A i \in Items : task[b][i] = "none"
    BY <1>1 DEF Phase, TasksInPhase
  <2>2. \A i \in Items : task'[b][i] \in {"none", "waiting"}
    BY <1>0, <2>1 DEF JobStep, JobLoad, JobMark, JobSpawnItems, JobJoin, JobWriteOutput,
                      JobWriteFails, JobLoadFinal, JobCommit, taskVars
  <2> QED BY <2>2 DEF Recorded
<1>2. CASE job[b] \notin BeforeItems
  <2>1. task' = task /\ taskCopy' = taskCopy
    BY <1>2 DEF JobStep, JobLoad, JobMark, JobSpawnItems, JobJoin, JobWriteOutput,
                JobWriteFails, JobLoadFinal, JobCommit, taskVars, BeforeItems
  <2>2. CASE JobJoin(b) \/ JobWriteOutput(b) \/ JobWriteFails(b)
    <3>1. store' = store /\ job'[b] # "committing"
      BY <1>0, <2>2 DEF JobJoin, JobWriteOutput, JobWriteFails, JobGoes
    <3> QED BY <2>1, <3>1 DEF Recorded, Stored, Shows
  <2>3. CASE JobLoadFinal(b)
    <3>1. store' = store
      BY <2>3 DEF JobLoadFinal
    <3>2. job'[b] = "committing" =>
            Stored(b) /\ jobCopy'[b] \in {MarkCompleted(store[b]), MarkFailed(store[b])}
      BY <1>0, <2>3 DEF JobLoadFinal, JobGoes
    <3>3. ASSUME NEW i \in Items, job'[b] = "committing"
          PROVE  Shows(jobCopy'[b], i) <=> Shows(store[b], i)
      BY <1>0, <3>2, <3>3, MarkShows DEF Stored, MaybeBatch
    <3> QED BY <2>1, <3>1, <3>2, <3>3 DEF Recorded, Stored, Shows
  <2>4. CASE JobCommit(b)
    <3>1. job[b] = "committing" /\ job'[b] = "done" /\ store'[b] = jobCopy[b]
      BY <1>0, <2>4 DEF JobCommit, JobGoes, Update
    <3> QED BY <2>1, <3>1 DEF Recorded, Stored, Shows
  <2> QED BY <1>2, <2>2, <2>3, <2>4
          DEF JobStep, JobLoad, JobMark, JobSpawnItems, BeforeItems
<1> QED BY <1>1, <1>2

\* A task that writes its copy back is the only one that could have recorded
\* anything since it made the copy.
LEMMA RecordedTaskStep ==
  ASSUME TypeOK, PermitsBalance, Concurrency = 1, NEW b \in Batches, NEW k \in Items,
         TaskStep(b, k), Phase(b), Recorded(b)
  PROVE  Recorded(b)'
<1>0. store \in [Batches -> MaybeBatch]
  BY DEF TypeOK, MaybeBatch
<1>1. /\ TaskEffect(b, k)
      /\ jobCopy' = jobCopy /\ job' = job
      /\ \A j \in Items \ {k} : task'[b][j] = task[b][j] /\ taskCopy'[b][j] = taskCopy[b][j]
  BY TaskStepEffect DEF jobVars
<1>2. job[b] = "joining"
  BY <1>1 DEF Phase, TasksInPhase, TaskEffect, TaskEnded, BeforeItems
<1>3. task[b][k] # "ok"
  BY <1>1 DEF TaskEffect
<1>4. ASSUME Stored(b), NEW i \in Items, NEW st \in ItemStatus
      PROVE  Shows(MarkItem(store[b], k, st), i)
               <=> IF k = i THEN st = "Success" ELSE Shows(store[b], i)
  BY <1>0, <1>4, MarkShows DEF Stored, MaybeBatch
<1>5. "Processing" \in ItemStatus
  BY DEF ItemStatus
<1>6. ASSUME NEW i \in Items, task'[b][i] = "ok", Stored(b)'
      PROVE  Shows(store[b], i)'
  <2>1. CASE task[b][i] = "ok" /\ store'[b] = store[b]
    BY <1>6, <2>1 DEF Recorded, Stored, Shows
  <2>2. CASE task[b][i] = "ok" /\ store'[b] = taskCopy[b][k]
                /\ task[b][k] \in {"marking", "recording"}
    BY <2>2 DEF Recorded, Shows
  <2>3. CASE task[b][i] # "ok"
    <3>1. i = k /\ task[b][k] = "recording" /\ store'[b] = taskCopy[b][k]
          /\ taskCopy[b][k].items[k] = "Success"
      BY <1>1, <1>6, <2>3 DEF TaskEffect
    <3> QED BY <1>6, <3>1 DEF Shows, Stored
  <2> QED BY <1>1, <2>1, <2>2, <2>3 DEF TaskEffect
<1>7. ASSUME NEW i \in Items, task'[b][i] = "ok",
             NEW j \in Items, task'[b][j] \in {"marking", "recording"}
      PROVE  Shows(taskCopy[b][j], i)'
  <2>1. CASE j = k
    <3>1. task[b][i] = "ok" /\ i # k
      BY <1>1, <1>7, <2>1
    <3>2. Stored(b) /\ \E st \in ItemStatus : taskCopy'[b][k] = MarkItem(store[b], k, st)
      BY <1>1, <1>5, <1>7, <2>1 DEF TaskEffect
    <3>3. Shows(store[b], i)
      BY <3>1, <3>2 DEF Recorded
    <3>4. Shows(taskCopy'[b][k], i)
      BY <1>4, <3>1, <3>2, <3>3
    <3> QED BY <2>1, <3>4 DEF Shows
  <2>2. CASE j # k
    <3>1. task[b][j] \in {"marking", "recording"} /\ taskCopy'[b][j] = taskCopy[b][j]
      BY <1>1, <1>7, <2>2
    <3>2. task[b][k] \notin HoldsPermit
      BY <2>2, <3>1, OneHolder DEF HoldsPermit
    <3>3. task[b][i] = "ok"
      BY <1>1, <1>7, <3>2 DEF TaskEffect, HoldsPermit
    <3> QED BY <3>1, <3>3 DEF Recorded, Shows
  <2> QED BY <2>1, <2>2
<1> QED BY <1>1, <1>2, <1>6, <1>7 DEF Recorded

\* With one permit no recorded success is overwritten by a stale copy.
LEMMA RecordedCorrect == Spec => [](Concurrency = 1 => RecordedInv)
<1>1. Init => (Concurrency = 1 => RecordedInv)
  BY DEF Init, RecordedInv, Recorded
<1>2. TypeOK /\ PhaseInv /\ PermitsBalance /\ (Concurrency = 1 => RecordedInv)
        /\ [Next]_vars => (Concurrency = 1 => RecordedInv)'
  <2> SUFFICES ASSUME TypeOK, PhaseInv, PermitsBalance, Concurrency = 1, RecordedInv,
                      [Next]_vars, NEW x \in Batches
               PROVE  Recorded(x)'
    BY DEF RecordedInv
  <2>0. Phase(x) /\ Recorded(x)
    BY DEF PhaseInv, RecordedInv
  <2>1. ASSUME NEW s \in Submitters, SubmitCreate(s, x) PROVE Recorded(x)'
    <3>1. \A i \in Items : task'[x][i] = "none"
      BY <2>0, <2>1 DEF SubmitCreate, Phase, TasksInPhase, BeforeItems, taskVars
    <3> QED BY <3>1 DEF Recorded
  <2>2. CASE /\ store'[x] \in {store[x], NoBatch}
             /\ job'[x] = job[x] /\ jobCopy'[x] = jobCopy[x]
             /\ task'[x] = task[x] /\ taskCopy'[x] = taskCopy[x]
    BY <2>0, <2>2 DEF Recorded, Stored, Shows
  <2> QED BY <2>0, <2>1, <2>2, BatchMoves, RecordedJobStep, RecordedTaskStep
<1> QED BY <1>1, <1>2, TypeCorrect, PhaseCorrect, PermitsStayBalanced, PTL DEF Spec

\* With batch_concurrency = 1 the results of a completed batch are exact: its
\* successful items are those whose tasks succeeded.
THEOREM SerialStaysExact == Spec => []SerialResultsExact
<1>1. AttributedInv /\ (Concurrency = 1 => RecordedInv) => SerialResultsExact
  <2> SUFFICES ASSUME AttributedInv, RecordedInv, NEW b \in Batches, Stored(b)
               PROVE  Progress(b).completed = Cardinality({i \in Items : task[b][i] = "ok"})
    BY DEF SerialResultsExact
  <2>1. \A i \in Items : store[b].items[i] = "Success" <=> task[b][i] = "ok"
    BY DEF AttributedInv, Attributed, RecordedInv, Recorded, Shows, Stored
  <2>2. ItemsWith(b, "Success") = {i \in Items : task[b][i] = "ok"}
    BY <2>1 DEF ItemsWith
  <2> QED BY <2>2 DEF Progress
<1> QED BY <1>1, AttributedCorrect, RecordedCorrect, PTL

-----------------------------------------------------------------------------
(* Refinement: the service implements BatchLifecycle.                      *)

Visible == [b \in Batches |-> VisibleStatus(b)]
Worker == [b \in Batches |-> WorkerState(b)]

\* What one step does to the abstract state of one batch; every other batch
\* keeps its status and its worker.
LEMMA AbstractOthers ==
  ASSUME TypeOK, NEW b \in Batches, \A x \in Batches \ {b} : Same(x)
  PROVE  /\ Visible' = [Visible EXCEPT ![b] = VisibleStatus(b)']
         /\ Worker' = [Worker EXCEPT ![b] = WorkerState(b)']
<1>1. \A x \in Batches \ {b} : /\ VisibleStatus(x)' = VisibleStatus(x)
                               /\ WorkerState(x)' = WorkerState(x)
  BY DEF Same, VisibleStatus, WorkerState, Stored
<1> QED BY <1>1 DEF Visible, Worker

\* A job's step accepts nothing: it publishes, finishes, abandons or is unseen.
LEMMA AbstractJobStep ==
  ASSUME TypeOK, PhaseInv, NEW b \in Batches, JobStep(b)
  PROVE  \/ VisibleStatus(b)' = VisibleStatus(b) /\ WorkerState(b)' = WorkerState(b)
         \/ /\ WorkerState(b) = "running" /\ WorkerState(b)' = "running"
            /\ VisibleStatus(b)' = "Processing"
         \/ /\ WorkerState(b) = "running" /\ WorkerState(b)' = "ended"
            /\ VisibleStatus(b)' \in {"Completed", "Failed"}
         \/ /\ WorkerState(b) = "running" /\ WorkerState(b)' = "ended"
            /\ VisibleStatus(b) = "Unknown" /\ VisibleStatus(b)' = "Unknown"
<1>0. /\ store \in [Batches -> MaybeBatch]
      /\ job \in [Batches -> JobPC]
      /\ CopiesInPhase(b)
  BY DEF TypeOK, MaybeBatch, PhaseInv, Phase
<1> USE DEF VisibleStatus, WorkerState, Stored, JobEnded, JobGoes
<1>1. CASE JobLoad(b)
  BY <1>0, <1>1 DEF JobLoad
<1>2. CASE JobMark(b)
  BY <1>0, <1>2 DEF JobMark, Update, CopiesInPhase
<1>3. CASE JobSpawnItems(b)
  BY <1>0, <1>3 DEF JobSpawnItems
<1>4. CASE JobJoin(b)
  BY <1>0, <1>4 DEF JobJoin
<1>5. CASE JobWriteOutput(b)
  BY <1>0, <1>5 DEF JobWriteOutput
<1>6. CASE JobWriteFails(b)
  BY <1>0, <1>6 DEF JobWriteFails
<1>7. CASE JobLoadFinal(b)
  BY <1>0, <1>7 DEF JobLoadFinal
<1>8. CASE JobCommit(b)
  BY <1>0, <1>8 DEF JobCommit, Update, CopiesInPhase
<1> QED BY <1>1, <1>2, <1>3, <1>4, <1>5, <1>6, <1>7, <1>8 DEF JobStep

\* An item's write publishes that the batch is processed, or is unseen.
LEMMA AbstractTaskStep ==
  ASSUME TypeOK, PhaseInv, NEW b \in Batches, NEW i \in Items, TaskStep(b, i)
  PROVE  \/ VisibleStatus(b)' = VisibleStatus(b) /\ WorkerState(b)' = WorkerState(b)
         \/ /\ WorkerState(b) = "running" /\ WorkerState(b)' = "running"
            /\ VisibleStatus(b)' = "Processing"
<1>1. job[b] = "joining" /\ job' = job
  BY DEF PhaseInv, Phase, TasksInPhase, TaskStep, TaskAcquire, TaskLoadMark,
         TaskMark, TaskLoadResult, TaskRecord, TaskEnded, BeforeItems, jobVars
<1>2. \/ store' = store
      \/ store'[b] = taskCopy[b][i] /\ task[b][i] \in {"marking", "recording"}
  BY DEF TaskStep, TaskAcquire, TaskLoadMark, TaskMark, TaskLoadResult,
         TaskRecord, Update, TypeOK
<1> QED BY <1>1, <1>2
        DEF PhaseInv, Phase, CopiesInPhase, VisibleStatus, WorkerState, Stored,
            JobEnded

\* How one batch may move, on the abstract level, by a step that delivers nothing.
Moves(b) ==
  \/ VisibleStatus(b)' = VisibleStatus(b) /\ WorkerState(b)' = WorkerState(b)
  \/ /\ WorkerState(b) = "none" /\ WorkerState(b)' = "running"
     /\ VisibleStatus(b)' = "Queued"
  \/ /\ WorkerState(b) = "running" /\ WorkerState(b)' = "running"
     /\ VisibleStatus(b)' = "Processing"
  \/ /\ WorkerState(b) = "running" /\ WorkerState(b)' = "ended"
     /\ VisibleStatus(b)' \in {"Completed", "Failed"}
  \/ /\ WorkerState(b) = "running" /\ WorkerState(b)' = "ended"
     /\ VisibleStatus(b) = "Unknown" /\ VisibleStatus(b)' = "Unknown"
  \/ WorkerState(b)' = WorkerState(b) /\ VisibleStatus(b)' = "Unknown"

AbstractGoal == Lifecycle!Next \/ UNCHANGED Lifecycle!lifecycleVars

\* Each of these moves is an action of BatchLifecycle, or a stuttering step.
LEMMA AbstractMove ==
  ASSUME TypeOK, NEW b \in Batches, \A x \in Batches \ {b} : Same(x),
         delivered' = delivered, Moves(b)
  PROVE  AbstractGoal
<1>1. /\ Visible' = [Visible EXCEPT ![b] = VisibleStatus(b)']
      /\ Worker' = [Worker EXCEPT ![b] = WorkerState(b)']
  BY AbstractOthers
<1>2. Visible[b] = VisibleStatus(b) /\ Worker[b] = WorkerState(b)
  BY DEF Visible, Worker
<1>3. /\ VisibleStatus(b)' = VisibleStatus(b) => Visible' = Visible
      /\ WorkerState(b)' = WorkerState(b) => Worker' = Worker
  BY <1>1, <1>2 DEF Visible, Worker
<1> USE DEF Lifecycle!Next, Lifecycle!lifecycleVars, Lifecycle!Accept,
            Lifecycle!Publish, Lifecycle!Finish, Lifecycle!Abandon,
            Lifecycle!Vanish, Lifecycle!Shows, Lifecycle!WorkerIs,
            AbstractGoal
<1>4. CASE VisibleStatus(b)' = VisibleStatus(b) /\ WorkerState(b)' = WorkerState(b)
  BY <1>3, <1>4 DEF Visible, Worker
<1>5. CASE /\ WorkerState(b) = "none" /\ WorkerState(b)' = "running"
           /\ VisibleStatus(b)' = "Queued"
  <2>1. Lifecycle!Accept(b)
    BY <1>1, <1>2, <1>5 DEF Visible, Worker
  <2> QED BY <2>1
<1>6. CASE /\ WorkerState(b) = "running" /\ WorkerState(b)' = "running"
           /\ VisibleStatus(b)' = "Processing"
  <2>1. Lifecycle!Publish(b)
    BY <1>1, <1>2, <1>3, <1>6 DEF Visible, Worker
  <2> QED BY <2>1
<1>7. CASE /\ WorkerState(b) = "running" /\ WorkerState(b)' = "ended"
           /\ VisibleStatus(b)' \in {"Completed", "Failed"}
  <2>1. Lifecycle!Finish(b)
    BY <1>1, <1>2, <1>7 DEF Visible, Worker
  <2> QED BY <2>1
<1>8. CASE /\ WorkerState(b) = "running" /\ WorkerState(b)' = "ended"
           /\ VisibleStatus(b) = "Unknown" /\ VisibleStatus(b)' = "Unknown"
  <2>1. Lifecycle!Abandon(b)
    BY <1>1, <1>2, <1>3, <1>8 DEF Visible, Worker
  <2> QED BY <2>1
<1>9. CASE /\ WorkerState(b)' = WorkerState(b) /\ VisibleStatus(b)' = "Unknown"
           /\ VisibleStatus(b) # "Unknown"
  <2>1. Lifecycle!Vanish(b)
    BY <1>1, <1>2, <1>3, <1>9 DEF Visible, Worker
  <2> QED BY <2>1
<1> QED BY <1>4, <1>5, <1>6, <1>7, <1>8, <1>9 DEF Moves

\* Removing the batch that was read is the abstract Deliver.
LEMMA AbstractDeliver ==
  ASSUME TypeOK, DownloadInv, NEW d \in Downloaders, DownloadRemove(d)
  PROVE  AbstractGoal
<1>1. /\ wanted[d] \in Batches /\ job[wanted[d]] = "done"
      /\ Stored(wanted[d]) => DownloadUrl(wanted[d])
  BY DEF DownloadInv, DownloadRemove, DownloadPC
<1>2. PICK b \in Batches : b = wanted[d]
  BY <1>1
<1>3. /\ store' = [store EXCEPT ![b] = NoBatch]
      /\ UNCHANGED <<job, jobCopy, task, taskCopy>>
      /\ delivered' = [delivered EXCEPT ![b] = @ + 1]
  BY <1>2 DEF DownloadRemove, Remove, jobVars, taskVars
<1>4. \A x \in Batches \ {b} : Same(x)
  BY <1>3 DEF Same, TypeOK
<1>5. VisibleStatus(b)' = "Unknown" /\ WorkerState(b)' = WorkerState(b)
  BY <1>3 DEF VisibleStatus, WorkerState, Stored, TypeOK
<1>6. WorkerState(b) = "ended" /\ VisibleStatus(b) \in {"Completed", "Unknown"}
  BY <1>1, <1>2 DEF VisibleStatus, WorkerState, DownloadUrl, JobEnded
<1>7. /\ Visible' = [Visible EXCEPT ![b] = "Unknown"]
      /\ Worker' = [Worker EXCEPT ![b] = WorkerState(b)]
  BY <1>4, <1>5, AbstractOthers
<1>8. Lifecycle!Deliver(b)
  BY <1>3, <1>6, <1>7
     DEF Visible, Worker, Lifecycle!Deliver, Lifecycle!Shows
<1> QED BY <1>8 DEF AbstractGoal, Lifecycle!Next

\* Every step of the service is a step of BatchLifecycle or stutters.
LEMMA AbstractStep ==
  ASSUME TypeOK, PhaseInv, DownloadInv, [Next]_vars
  PROVE  AbstractGoal
<1>1. ASSUME NEW b \in Batches, JobStep(b) PROVE AbstractGoal
  <2>1. delivered' = delivered
    BY <1>1 DEF JobStep, JobLoad, JobMark, JobSpawnItems, JobJoin, JobWriteOutput,
                JobWriteFails, JobLoadFinal, JobCommit, downloadVars
  <2>2. Moves(b)
    BY <1>1, AbstractJobStep DEF Moves
  <2> QED BY <1>1, <2>1, <2>2, OthersSame, AbstractMove
<1>2. ASSUME NEW b \in Batches, NEW i \in Items, TaskStep(b, i) PROVE AbstractGoal
  <2>1. delivered' = delivered
    BY <1>2 DEF TaskStep, TaskAcquire, TaskLoadMark, TaskMark, TaskLoadResult,
                TaskRecord, downloadVars
  <2>2. Moves(b)
    BY <1>2, AbstractTaskStep DEF Moves
  <2> QED BY <1>2, <2>1, <2>2, OthersSame, AbstractMove
<1>3. ASSUME NEW s \in Submitters, NEW b \in Batches, SubmitCreate(s, b)
      PROVE  AbstractGoal
  <2>1. /\ delivered' = delivered
        /\ job[b] = "none" /\ job'[b] = "spawned" /\ store'[b] = NewBatch
        /\ NewBatch # NoBatch /\ NewBatch.status = "Queued"
    BY <1>3, NewBatchType, NoBatchAssumption
       DEF SubmitCreate, Update, TypeOK, NewBatch, downloadVars
  <2>2. Moves(b)
    BY <2>1 DEF Moves, VisibleStatus, WorkerState, Stored, JobEnded
  <2> QED BY <1>3, <2>1, <2>2, OthersSame, AbstractMove
<1>4. ASSUME NEW b \in Batches, CleanupRemove(b) PROVE AbstractGoal
  <2>1. /\ delivered' = delivered /\ job' = job /\ store'[b] = NoBatch
    BY <1>4 DEF CleanupRemove, Remove, TypeOK, downloadVars, jobVars
  <2>2. Moves(b)
    BY <2>1 DEF Moves, VisibleStatus, WorkerState, Stored
  <2> QED BY <1>4, <2>1, <2>2, OthersSame, AbstractMove
<1>5. ASSUME NEW d \in Downloaders, DownloadRemove(d) PROVE AbstractGoal
  BY <1>5, AbstractDeliver
<1>6. ASSUME NEW d \in Downloaders, DownloadLost(d) PROVE AbstractGoal
  <2>1. PICK b \in Batches : b = wanted[d]
    BY <1>6 DEF DownloadInv, DownloadLost, DownloadPC
  <2>2. /\ store' = [store EXCEPT ![b] = NoBatch]
        /\ UNCHANGED <<job, jobCopy, task, taskCopy, delivered>>
    BY <1>6, <2>1 DEF DownloadLost, Remove, jobVars, taskVars
  <2>3. \A x \in Batches \ {b} : Same(x)
    BY <2>2 DEF Same, TypeOK
  <2>4. store'[b] = NoBatch
    BY <2>2 DEF TypeOK
  <2>5. Moves(b)
    BY <2>2, <2>4 DEF Moves, VisibleStatus, WorkerState, Stored
  <2> QED BY <2>2, <2>3, <2>5, AbstractMove
<1>7. CASE UNCHANGED <<store, job, delivered>>
  <2>1. \A b \in Batches : /\ VisibleStatus(b)' = VisibleStatus(b)
                           /\ WorkerState(b)' = WorkerState(b)
    BY <1>7 DEF VisibleStatus, WorkerState, Stored
  <2> QED BY <1>7, <2>1 DEF AbstractGoal, Lifecycle!lifecycleVars
<1>8. ASSUME NEW s \in Submitters, SubmitAdmit(s) \/ SubmitReject(s)
      PROVE  UNCHANGED <<store, job, delivered>>
  BY <1>8 DEF SubmitAdmit, SubmitReject, jobVars, downloadVars
<1>9. ASSUME NEW d \in Downloaders,
             \/ \E b \in Batches : DownloadStart(d, b)
             \/ DownloadCheck(d) \/ DownloadRead(d) \/ DownloadDropped(d)
      PROVE  UNCHANGED <<store, job, delivered>>
  BY <1>9 DEF DownloadStart, DownloadCheck, DownloadRead, DownloadDropped, jobVars
<1>10. ASSUME NEW b \in Batches, Expire(b) PROVE UNCHANGED <<store, job, delivered>>
  BY <1>10 DEF Expire, jobVars, downloadVars
<1>11. CleanupCollect \/ UNCHANGED vars => UNCHANGED <<store, job, delivered>>
  BY DEF CleanupCollect, vars, jobVars, downloadVars
<1> QED BY <1>1, <1>2, <1>3, <1>4, <1>5, <1>6, <1>7, <1>8, <1>9, <1>10, <1>11 DEF Next

\* The service implements BatchLifecycle: what clients see of a batch follows
\* its life cycle under every interleaving.
THEOREM ServiceImplementsLifecycle == Spec => ImplementsLifecycle
<1>1. Init => Lifecycle!Init
  <2>1. Init => \A b \in Batches : VisibleStatus(b) = "Unknown" /\ WorkerState(b) = "none"
    BY DEF Init, VisibleStatus, WorkerState, Stored, JobEnded
  <2> QED BY <2>1 DEF Init, Lifecycle!Init
<1>2. TypeOK /\ PhaseInv /\ DownloadInv /\ [Next]_vars
        => [Lifecycle!Next]_(Lifecycle!lifecycleVars)
  BY AbstractStep DEF AbstractGoal
<1> QED BY <1>1, <1>2, TypeCorrect, PhaseCorrect, DownloadCorrect, PTL
        DEF Spec, ImplementsLifecycle, Lifecycle!Spec
=============================================================================
