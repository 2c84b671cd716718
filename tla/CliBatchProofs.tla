--------------------------- MODULE CliBatchProofs ---------------------------
(***************************************************************************)
(* What `pdfbro batch` promises for every number of inputs, whatever their *)
(* kinds and output paths, and every concurrency.                          *)
(***************************************************************************)
EXTENDS CliBatch, FiniteSetTheorems, TLAPS

Stages == {"none", "waiting", "reading", "converting", "opening", "writing", "over", "cancelled"}
Outcomes == Errors \cup {"none", "ok"}
Permitted == {j \in Inputs : InPermit(j)}

\* The part of TypeOK that is of types alone.
Typing ==
  /\ entries \in Patterns /\ policy \in Policies /\ dry \in BOOLEAN /\ aborted \in BOOLEAN
  /\ phase \in {"arguments", "office", "joining", "closing", "leaving", "exited"}
  /\ chrome \in {"none", "up", "down"}
  /\ task \in [Inputs -> Stages]
  /\ outcome \in [Inputs -> Outcomes]
  /\ output \in [Outputs -> Inputs \cup {Nothing, "torn"}]
  /\ opened \in [Outputs -> SUBSET Inputs]
  /\ counted \subseteq Inputs /\ failed \in Seq(Inputs)
  /\ exit \in 0..7

\* A file holds the PDF of an input of its own, a path is open at its writers.
Disk ==
  /\ \A p \in Outputs : output[p] \in Inputs => Target[output[p]] = p
  /\ \A p \in Outputs : opened[p] = {i \in Inputs : task[i] = "writing" /\ Target[i] = p}

\* Tasks are of entries, begin with the joining, and stand still at the end.
Places ==
  /\ \A i \in Inputs : task[i] # "none" => i \in entries
  /\ phase \in {"arguments", "office"} => \A i \in Inputs : task[i] = "none"
  /\ phase = "exited" => \A i \in Inputs : ~Running(i)
  /\ phase \in {"arguments", "leaving", "exited"} => chrome # "up"

Bounded == Cardinality(Permitted) <= Concurrency

\* An outcome is there when its task is over, and is booked as what it is.
Verdicts ==
  /\ \A i \in Inputs : IF task[i] = "over" THEN outcome[i] \in Errors \cup {"ok"}
                                           ELSE outcome[i] = "none"
  /\ \A i \in counted : outcome[i] = "ok"
  /\ \A k \in 1..Len(failed) : outcome[failed[k]] \in Errors
  /\ IsInjective(failed)

\* An output that is not shared is written when its task returns ok, and half
\* written only in the hands of its task or after an error.
Written ==
  /\ \A i \in Inputs : outcome[i] = "ok" /\ OwnTarget(i) => output[Target[i]] = i
  /\ \A i \in entries : output[Target[i]] = "torn" /\ OwnTarget(i)
                          => task[i] = "writing" \/ outcome[i] \in Errors

\* The loop is left with every entry joined, but for an error under stop.
Accounted ==
  /\ phase \in {"closing", "leaving"} /\ (failed = <<>> \/ policy = "skip")
       => entries \subseteq counted \cup ToSet(failed)
  /\ phase # "exited" => exit = 7
  /\ exit = 0 /\ ~dry => entries \subseteq counted

Inv == Typing /\ Disk /\ Places /\ Bounded /\ Verdicts /\ Written /\ Accounted

-----------------------------------------------------------------------------
(* The beginning.                                                          *)

LEMMA InvInit == Init => Inv
<1> SUFFICES ASSUME Init PROVE Inv OBVIOUS
<1>1. /\ entries \in Patterns /\ policy \in Policies /\ dry \in BOOLEAN /\ aborted = FALSE
      /\ phase = "arguments" /\ chrome = "none" /\ counted = {} /\ failed = <<>> /\ exit = 7
  BY DEF Init
<1>2. /\ task \in [Inputs -> Stages] /\ \A i \in Inputs : task[i] = "none"
      /\ outcome \in [Inputs -> Outcomes] /\ \A i \in Inputs : outcome[i] = "none"
  BY DEF Init, Stages, Outcomes
<1>3. /\ output \in [Outputs -> Inputs \cup {Nothing, "torn"}] /\ opened \in [Outputs -> SUBSET Inputs]
      /\ \A p \in Outputs : output[p] = Nothing /\ opened[p] = {}
  BY DEF Init
<1>4. failed \in Seq(Inputs) /\ exit \in 0..7 /\ Len(failed) = 0 BY <1>1
<1>5. Disk BY <1>2, <1>3, NothingAssumption DEF Disk
<1>6. Bounded
  <2>1. Permitted = {} BY <1>2 DEF Permitted, InPermit
  <2> QED BY <2>1, FS_EmptySet, ConcurrencyAssumption DEF Bounded
<1>7. Verdicts
  <2>1. IsInjective(failed) BY <1>1 DEF IsInjective
  <2> QED BY <1>1, <1>2, <1>4, <2>1 DEF Verdicts
<1>8. Written
  <2>1. \A i \in Inputs : outcome[i] # "ok" BY <1>2
  <2>2. \A i \in entries : i \in Inputs BY <1>1, PatternsAssumption
  <2>3. \A i \in Inputs : output[Target[i]] # "torn"
    BY <1>3, TargetAssumption, TornAssumption
  <2> QED BY <2>1, <2>2, <2>3 DEF Written
<1>9. Typing BY <1>1, <1>2, <1>3, <1>4 DEF Typing
<1>10. Places BY <1>1, <1>2 DEF Places
<1>11. Accounted BY <1>1 DEF Accounted
<1> QED BY <1>5, <1>6, <1>7, <1>8, <1>9, <1>10, <1>11 DEF Inv

-----------------------------------------------------------------------------
(* The main task.                                                          *)

\* It writes no file, and moves a task only to have it begin.
LEMMA MainKeeps ==
  ASSUME Inv, Main
  PROVE  /\ UNCHANGED <<entries, policy, dry, output, opened, outcome>>
         /\ task' \in [Inputs -> Stages]
         /\ \A i \in Inputs : task'[i] # task[i] =>
              task[i] = "none" /\ task'[i] = "waiting" /\ i \in entries /\ phase' = "joining"
<1>1. UNCHANGED <<entries, policy, dry, output, opened, outcome>>
  BY DEF Main, Refuse, DryRun, LaunchChrome, FindOffice, Join, JoinedAll, Close, Leave,
         setup, files, tasks
<1>2. task \in [Inputs -> Stages] BY DEF Inv, Typing
<1>3. CASE FindOffice
  <2>1. CASE UNCHANGED task BY <1>1, <1>2, <2>1
  <2>2. CASE phase' = "joining" /\ task' = [i \in Inputs |-> IF i \in entries THEN "waiting" ELSE "none"]
    <3>1. \A i \in Inputs : task[i] = "none" BY <1>3 DEF FindOffice, Inv, Places
    <3> QED BY <1>1, <2>2, <3>1 DEF Stages
  <2> QED BY <1>3, <2>1, <2>2 DEF FindOffice
<1>4. CASE ~FindOffice
  <2>1. UNCHANGED task
    BY <1>4 DEF Main, Refuse, DryRun, LaunchChrome, Join, JoinedAll, Close, Leave, tasks
  <2> QED BY <1>1, <1>2, <2>1
<1> QED BY <1>3, <1>4

LEMMA MainTyping == ASSUME Inv, Main PROVE Typing'
<1>1. UNCHANGED <<entries, policy, dry, output, opened, outcome>> /\ task' \in [Inputs -> Stages]
  BY MainKeeps
<1>2. phase' \in {"arguments", "office", "joining", "closing", "leaving", "exited"}
  BY DEF Main, Refuse, DryRun, LaunchChrome, FindOffice, Join, JoinedAll, Close, Leave, Ends,
         Inv, Typing
<1>3. chrome' \in {"none", "up", "down"}
  BY DEF Main, Refuse, DryRun, LaunchChrome, FindOffice, Join, JoinedAll, Close, Leave,
         Inv, Typing
<1>4. aborted' \in BOOLEAN
  BY DEF Main, Refuse, DryRun, LaunchChrome, FindOffice, Join, JoinedAll, Close, Leave,
         Inv, Typing, tasks
<1>5. counted' \subseteq Inputs /\ failed' \in Seq(Inputs)
  BY DEF Main, Refuse, DryRun, LaunchChrome, FindOffice, Join, JoinedAll, Close, Leave,
         Inv, Typing, report
<1>6. exit' \in 0..7
  <2>1. \A e \in Errors \cup {"usage", "partial"} : ExitCode(e) \in 0..7
    BY DEF ExitCode, Errors
  <2>2. exit \in 0..7 BY DEF Inv, Typing
  <2>3. CASE Leave
    <3>1. Verdict \in 0..7
      <4>1. CASE failed = <<>> BY <4>1 DEF Verdict
      <4>2. CASE failed # <<>>
        <5>1. 1 \in 1..Len(failed) /\ Head(failed) = failed[1] BY <4>2 DEF Inv, Typing
        <5>2. outcome[Head(failed)] \in Errors BY <5>1 DEF Inv, Verdicts
        <5> QED BY <2>1, <4>2, <5>2 DEF Verdict
      <4> QED BY <4>1, <4>2
    <3> QED BY <2>3, <3>1 DEF Leave, Ends
  <2>4. CASE ~Leave
    BY <2>1, <2>2, <2>4 DEF Main, Refuse, DryRun, LaunchChrome, FindOffice, Join, JoinedAll,
                            Close, Ends, Errors
  <2> QED BY <2>3, <2>4
<1> QED BY <1>1, <1>2, <1>3, <1>4, <1>5, <1>6 DEF Inv, Typing

LEMMA MainDisk == ASSUME Inv, Main PROVE Disk'
<1>1. UNCHANGED <<output, opened>> /\ \A i \in Inputs : task'[i] = "writing" <=> task[i] = "writing"
  BY MainKeeps
<1> QED BY <1>1 DEF Inv, Disk

LEMMA MainPlaces == ASSUME Inv, Main PROVE Places'
<1>1. /\ UNCHANGED entries
      /\ \A i \in Inputs : task'[i] # task[i] =>
           task[i] = "none" /\ task'[i] = "waiting" /\ i \in entries /\ phase' = "joining"
  BY MainKeeps
<1>2. \A i \in Inputs : task'[i] # "none" => i \in entries' BY <1>1 DEF Inv, Places
<1>3. phase' \in {"arguments", "office"} => \A i \in Inputs : task'[i] = "none"
  <2>1. phase' \in {"arguments", "office"} => phase \in {"arguments", "office"}
    BY DEF Main, Refuse, DryRun, LaunchChrome, FindOffice, Join, JoinedAll, Close, Leave, Ends
  <2> QED BY <1>1, <2>1 DEF Inv, Places
<1>4. phase' = "exited" => \A i \in Inputs : ~Running(i)'
  <2>1. phase' = "exited" => \/ phase \in {"arguments", "office", "exited"}
                             \/ \A i \in Inputs : ~Running(i)
    BY DEF Main, Refuse, DryRun, LaunchChrome, FindOffice, Join, JoinedAll, Close, Leave, Ends
  <2>2. phase' = "exited" => \A i \in Inputs : ~Running(i)
    BY <2>1 DEF Inv, Places, Running
  <2> QED BY <1>1, <2>2 DEF Running
<1>5. phase' \in {"arguments", "leaving", "exited"} => chrome' # "up"
  BY DEF Main, Refuse, DryRun, LaunchChrome, FindOffice, Join, JoinedAll, Close, Leave, Ends,
         Inv, Places, Typing
<1> QED BY <1>2, <1>3, <1>4, <1>5 DEF Places

LEMMA MainBounded == ASSUME Inv, Main PROVE Bounded'
<1>1. \A i \in Inputs : task'[i] # task[i] => task[i] = "none" /\ task'[i] = "waiting"
  BY MainKeeps
<1>2. Permitted' = Permitted BY <1>1 DEF Permitted, InPermit
<1> QED BY <1>2 DEF Inv, Bounded

LEMMA MainWritten == ASSUME Inv, Main PROVE Written'
<1>1. /\ UNCHANGED <<entries, output, outcome>>
      /\ \A i \in Inputs : task[i] = "writing" => task'[i] = "writing"
  BY MainKeeps
<1>2. entries \subseteq Inputs BY PatternsAssumption DEF Inv, Typing
<1>3. \A i : OwnTarget(i)' <=> OwnTarget(i) BY <1>1 DEF OwnTarget
<1> QED BY <1>1, <1>2, <1>3 DEF Inv, Written

\* Who is joined is not in the list of failures yet.
LEMMA JoinAppends ==
  ASSUME Inv, NEW i \in Inputs, Join(i), outcome[i] # "ok"
  PROVE  /\ failed' = Append(failed, i) /\ counted' = counted
         /\ Len(failed') = Len(failed) + 1 /\ failed'[Len(failed) + 1] = i
         /\ \A k \in 1..Len(failed) : failed'[k] = failed[k] /\ failed[k] # i
         /\ ToSet(failed') = ToSet(failed) \cup {i}
         /\ Len(failed) \in Nat /\ DOMAIN failed = 1..Len(failed)
         /\ DOMAIN failed' = 1..(Len(failed) + 1)
<1>1. failed \in Seq(Inputs) BY DEF Inv, Typing
<1>2. failed' = Append(failed, i) /\ counted' = counted /\ i \notin ToSet(failed)
  BY DEF Join, Joined
<1>3. /\ Len(failed') = Len(failed) + 1 /\ failed'[Len(failed) + 1] = i
      /\ \A k \in 1..Len(failed) : failed'[k] = failed[k]
      /\ Len(failed) \in Nat /\ DOMAIN failed = 1..Len(failed)
      /\ DOMAIN failed' = 1..(Len(failed) + 1)
  BY <1>1, <1>2
<1>4. \A k \in 1..Len(failed) : failed[k] # i BY <1>2, <1>3 DEF ToSet
<1>5. ToSet(failed') = ToSet(failed) \cup {i}
  <2>1. ToSet(failed') = {failed'[k] : k \in 1..(Len(failed) + 1)} BY <1>3 DEF ToSet
  <2>2. ToSet(failed) = {failed[k] : k \in 1..Len(failed)} BY <1>3 DEF ToSet
  <2>3. 1..(Len(failed) + 1) = 1..Len(failed) \cup {Len(failed) + 1} BY <1>3
  <2> QED BY <1>3, <2>1, <2>2, <2>3
<1> QED BY <1>2, <1>3, <1>4, <1>5

LEMMA MainVerdicts == ASSUME Inv, Main PROVE Verdicts'
<1>1. /\ UNCHANGED outcome
      /\ \A i \in Inputs : task'[i] # task[i] => task[i] = "none" /\ task'[i] = "waiting"
  BY MainKeeps
<1>2. \A i \in Inputs : IF task'[i] = "over" THEN outcome'[i] \in Errors \cup {"ok"}
                                            ELSE outcome'[i] = "none"
  BY <1>1 DEF Inv, Verdicts
<1>3. CASE UNCHANGED <<counted, failed>> BY <1>1, <1>2, <1>3 DEF Inv, Verdicts
<1>4. ASSUME NEW i \in Inputs, Join(i), outcome[i] = "ok" PROVE Verdicts'
  <2>1. counted' = counted \cup {i} /\ failed' = failed BY <1>4 DEF Join
  <2> QED BY <1>1, <1>2, <1>4, <2>1 DEF Inv, Verdicts
<1>5. ASSUME NEW i \in Inputs, Join(i), outcome[i] # "ok" PROVE Verdicts'
  <2>1. /\ counted' = counted
        /\ Len(failed') = Len(failed) + 1 /\ failed'[Len(failed) + 1] = i
        /\ \A k \in 1..Len(failed) : failed'[k] = failed[k] /\ failed[k] # i
        /\ Len(failed) \in Nat /\ DOMAIN failed = 1..Len(failed)
        /\ DOMAIN failed' = 1..(Len(failed) + 1)
    BY <1>5, JoinAppends
  <2>2. outcome[i] \in Errors BY <1>5 DEF Join, Inv, Verdicts
  <2>3. \A k \in 1..Len(failed') : k = Len(failed) + 1 \/ k \in 1..Len(failed) BY <2>1
  <2>4. \A k \in 1..Len(failed') : outcome[failed'[k]] \in Errors
    BY <2>1, <2>2, <2>3 DEF Inv, Verdicts
  <2>5. IsInjective(failed')
    <3>1. \A a, b \in 1..Len(failed) : failed[a] = failed[b] => a = b
      BY <2>1 DEF Inv, Verdicts, IsInjective
    <3>2. \A a, b \in DOMAIN failed' : failed'[a] = failed'[b] => a = b
      BY <2>1, <2>3, <3>1
    <3> QED BY <3>2 DEF IsInjective
  <2> QED BY <1>1, <1>2, <2>1, <2>4, <2>5 DEF Inv, Verdicts
<1>6. CASE ~\E i \in Inputs : Join(i)
  <2>1. UNCHANGED <<counted, failed>>
    BY <1>6 DEF Main, Refuse, DryRun, LaunchChrome, FindOffice, JoinedAll, Close, Leave, report
  <2> QED BY <1>3, <2>1
<1> QED BY <1>4, <1>5, <1>6

LEMMA MainAccounted == ASSUME Inv, Main PROVE Accounted'
<1>1. UNCHANGED <<entries, policy, dry>> BY MainKeeps
<1>2. entries \subseteq Inputs BY PatternsAssumption DEF Inv, Typing
<1>3. CASE Refuse
  <2>1. phase' = "exited" /\ exit' # 0 BY <1>3 DEF Refuse, Ends, ExitCode
  <2> QED BY <2>1 DEF Accounted
<1>4. CASE DryRun
  <2>1. phase' = "exited" /\ dry' BY <1>1, <1>4 DEF DryRun, Ends
  <2> QED BY <2>1 DEF Accounted
<1>5. CASE LaunchChrome
  <2>1. \/ phase' = "office" /\ exit' = exit /\ exit = 7
        \/ phase' = "exited" /\ exit' # 0
    BY <1>5 DEF LaunchChrome, Ends, ExitCode, Inv, Accounted
  <2> QED BY <2>1 DEF Accounted
<1>6. CASE FindOffice
  <2>1. \/ phase' = "joining" /\ exit' = exit /\ exit = 7
        \/ phase' = "exited" /\ exit' # 0
    BY <1>6 DEF FindOffice, Ends, ExitCode, Inv, Accounted
  <2> QED BY <2>1 DEF Accounted
<1>7. ASSUME NEW i \in Inputs, Join(i) PROVE Accounted'
  <2>1. exit' = exit /\ exit = 7 BY <1>7 DEF Join, Inv, Accounted
  <2>2. CASE phase' = "joining" BY <2>1, <2>2 DEF Accounted
  <2>3. CASE phase' # "joining"
    <3>1. outcome[i] # "ok" /\ policy = "stop" BY <1>7, <2>3 DEF Join
    <3>2. failed' # <<>> BY <1>7, <3>1, JoinAppends
    <3> QED BY <1>1, <2>1, <3>1, <3>2 DEF Accounted
  <2> QED BY <2>2, <2>3
<1>8. CASE JoinedAll
  <2>1. UNCHANGED <<counted, failed, exit>> /\ exit = 7 BY <1>8 DEF JoinedAll, report, Inv, Accounted
  <2>2. entries \subseteq counted \cup ToSet(failed) BY <1>8 DEF JoinedAll, Joined
  <2> QED BY <1>1, <2>1, <2>2 DEF Accounted
<1>9. CASE Close
  <2>1. UNCHANGED <<counted, failed, exit>> /\ phase = "closing" BY <1>9 DEF Close, report
  <2> QED BY <1>1, <2>1 DEF Inv, Accounted
<1>10. CASE Leave
  <2>1. /\ UNCHANGED <<counted, failed>> /\ phase = "leaving" /\ phase' = "exited"
        /\ exit' = Verdict
    BY <1>10 DEF Leave, report, Ends
  <2>2. CASE failed = <<>>
    <3>1. ToSet(failed) = {} BY <2>2 DEF ToSet
    <3>2. entries \subseteq counted BY <2>1, <2>2, <3>1 DEF Inv, Accounted
    <3> QED BY <1>1, <2>1, <3>2 DEF Accounted
  <2>3. CASE failed # <<>>
    <3>1. 1 \in 1..Len(failed) /\ Head(failed) = failed[1] BY <2>3 DEF Inv, Typing
    <3>2. outcome[Head(failed)] \in Errors BY <3>1 DEF Inv, Verdicts
    <3>3. Verdict # 0 BY <2>3, <3>2 DEF Verdict, ExitCode, Errors
    <3> QED BY <2>1, <3>3 DEF Accounted
  <2> QED BY <2>2, <2>3
<1> QED BY <1>3, <1>4, <1>5, <1>6, <1>7, <1>8, <1>9, <1>10 DEF Main

-----------------------------------------------------------------------------
(* The tasks.                                                              *)

\* A step of a task moves that task alone, and leaves an outcome when it is over.
LEMMA TaskKeeps ==
  ASSUME Inv, NEW i \in Inputs, Task(i)
  PROVE  /\ UNCHANGED <<entries, policy, dry, phase, chrome, aborted, counted, failed, exit>>
         /\ task' \in [Inputs -> Stages] /\ outcome' \in [Inputs -> Outcomes]
         /\ \A j \in Inputs \ {i} : task'[j] = task[j] /\ outcome'[j] = outcome[j]
         /\ task[i] \notin {"none", "over"} /\ outcome[i] = "none"
         /\ IF task'[i] = "over" THEN outcome'[i] \in Errors \cup {"ok"}
                                 ELSE outcome'[i] = "none"
<1>1. task \in [Inputs -> Stages] /\ outcome \in [Inputs -> Outcomes] BY DEF Inv, Typing
<1>2. UNCHANGED <<entries, policy, dry, phase, chrome, aborted, counted, failed, exit>>
  BY DEF Task, Acquire, Read, Converted, Open, Write, Cancelled, setup, report
<1>3. task[i] \notin {"none", "over"}
  BY DEF Task, Acquire, Read, Converted, Open, Write, Cancelled
<1>4. outcome[i] = "none" BY <1>3 DEF Inv, Verdicts
<1>5. \/ \E s \in Stages \ {"over"} : task' = [task EXCEPT ![i] = s] /\ outcome' = outcome
      \/ \E r \in Errors \cup {"ok"} : Returns(i, r)
  <2>1. CASE Acquire(i) BY <2>1 DEF Acquire, Stages
  <2>2. CASE Read(i) BY <2>2 DEF Read, Stages, Errors
  <2>3. CASE Converted(i) BY <2>3 DEF Converted, Stages, Errors
  <2>4. CASE Open(i) BY <2>4 DEF Open, Stages, Errors
  <2>5. CASE Write(i) BY <2>5 DEF Write, Stages, Errors
  <2>6. CASE Cancelled(i) BY <2>6 DEF Cancelled, Stages
  <2> QED BY <2>1, <2>2, <2>3, <2>4, <2>5, <2>6 DEF Task
<1>6. CASE \E s \in Stages \ {"over"} : task' = [task EXCEPT ![i] = s] /\ outcome' = outcome
  BY <1>1, <1>2, <1>3, <1>4, <1>6
<1>7. CASE \E r \in Errors \cup {"ok"} : Returns(i, r)
  BY <1>1, <1>2, <1>3, <1>4, <1>7 DEF Returns, Stages, Outcomes
<1> QED BY <1>5, <1>6, <1>7

\* What it does to the files: it opens its output, writes or leaves it as it closes
\* it, and else touches none.
LEMMA TaskFiles ==
  ASSUME Inv, NEW i \in Inputs, Task(i)
  PROVE  \/ /\ UNCHANGED <<output, opened>>
            /\ task[i] # "writing" /\ task'[i] # "writing" /\ outcome'[i] # "ok"
         \/ /\ task[i] # "writing" /\ task'[i] = "writing"
            /\ output' = [output EXCEPT ![Target[i]] = "torn"]
            /\ opened' = [opened EXCEPT ![Target[i]] = @ \cup {i}]
         \/ /\ task[i] = "writing" /\ task'[i] = "over"
            /\ \/ output' = [output EXCEPT ![Target[i]] = i]
               \/ opened[Target[i]] # {i} /\ output' = [output EXCEPT ![Target[i]] = "torn"]
               \/ outcome'[i] \in Errors /\ UNCHANGED output
            /\ opened' = [opened EXCEPT ![Target[i]] = @ \ {i}]
<1>1. task \in [Inputs -> Stages] /\ outcome \in [Inputs -> Outcomes] BY DEF Inv, Typing
<1>2. outcome[i] = "none" BY TaskKeeps
<1>3. CASE Acquire(i) BY <1>1, <1>2, <1>3 DEF Acquire, files
<1>4. CASE Read(i) BY <1>1, <1>2, <1>4 DEF Read, files, Returns
<1>5. CASE Converted(i) BY <1>1, <1>2, <1>5 DEF Converted, files, Returns
<1>6. CASE Open(i) BY <1>1, <1>2, <1>6 DEF Open, files, Returns
<1>7. CASE Write(i) BY <1>1, <1>2, <1>7 DEF Write, Returns, Errors
<1>8. CASE Cancelled(i) BY <1>1, <1>2, <1>8 DEF Cancelled, files
<1> QED BY <1>3, <1>4, <1>5, <1>6, <1>7, <1>8 DEF Task

LEMMA TaskTyping == ASSUME Inv, NEW i \in Inputs, Task(i) PROVE Typing'
<1>1. output \in [Outputs -> Inputs \cup {Nothing, "torn"}] /\ opened \in [Outputs -> SUBSET Inputs]
  BY DEF Inv, Typing
<1>2. output' \in [Outputs -> Inputs \cup {Nothing, "torn"}] /\ opened' \in [Outputs -> SUBSET Inputs]
  <2>1. Target[i] \in Outputs BY TargetAssumption
  <2>2. opened[Target[i]] \cup {i} \in SUBSET Inputs /\ opened[Target[i]] \ {i} \in SUBSET Inputs
    BY <1>1, <2>1
  <2> QED BY <1>1, <2>1, <2>2, TaskFiles
<1> QED BY <1>2, TaskKeeps DEF Inv, Typing

LEMMA TaskDisk == ASSUME Inv, NEW i \in Inputs, Task(i) PROVE Disk'
<1>1. /\ output \in [Outputs -> Inputs \cup {Nothing, "torn"}] /\ opened \in [Outputs -> SUBSET Inputs]
      /\ Target[i] \in Outputs
  BY TargetAssumption DEF Inv, Typing
<1>2. \A j \in Inputs \ {i} : task'[j] = task[j] BY TaskKeeps
<1>3. \A p \in Outputs : output'[p] \in Inputs => Target[output'[p]] = p
  <2>1. \A p \in Outputs : output'[p] # output[p] => p = Target[i] /\ output'[p] \in {i, "torn"}
    <3>1. \/ output' = output \/ output' = [output EXCEPT ![Target[i]] = "torn"]
          \/ output' = [output EXCEPT ![Target[i]] = i]
      BY TaskFiles
    <3> QED BY <1>1, <3>1
  <2> QED BY <2>1, TornAssumption DEF Inv, Disk
<1>4. \A p \in Outputs : opened'[p] = {j \in Inputs : task'[j] = "writing" /\ Target[j] = p}
  <2> TAKE p \in Outputs
  <2>1. \A j \in Inputs : j \in opened[p] <=> task[j] = "writing" /\ Target[j] = p
    BY DEF Inv, Disk
  <2>2. \A j \in Inputs : j \in opened'[p] <=> task'[j] = "writing" /\ Target[j] = p
    BY <1>1, <1>2, <2>1, TaskFiles
  <2>3. opened'[p] \subseteq Inputs BY TaskTyping DEF Typing
  <2> QED BY <2>2, <2>3
<1> QED BY <1>3, <1>4 DEF Disk

LEMMA TaskPlaces == ASSUME Inv, NEW i \in Inputs, Task(i) PROVE Places'
<1>1. /\ UNCHANGED <<entries, phase, chrome>> /\ task[i] # "none"
      /\ \A j \in Inputs \ {i} : task'[j] = task[j]
      /\ task' \in [Inputs -> Stages] /\ task \in [Inputs -> Stages]
  BY TaskKeeps DEF Inv, Typing
<1>2. \A j \in Inputs : task'[j] # "none" => j \in entries' BY <1>1 DEF Inv, Places
<1>3. phase' \notin {"arguments", "office"} BY <1>1 DEF Inv, Places
<1>4. phase' = "exited" => \A j \in Inputs : ~Running(j)'
  <2>1. phase = "exited" => ~Running(i) /\ \A j \in Inputs : ~Running(j) BY DEF Inv, Places
  <2>2. phase = "exited" => Cancelled(i)
    BY <2>1 DEF Task, Acquire, Read, Converted, Open, Write, Alive, Running
  <2>3. phase = "exited" => task'[i] = "cancelled" BY <1>1, <2>2 DEF Cancelled
  <2> QED BY <1>1, <2>1, <2>3 DEF Running
<1> QED BY <1>1, <1>2, <1>3, <1>4 DEF Inv, Places

LEMMA TaskBounded == ASSUME Inv, NEW i \in Inputs, Task(i) PROVE Bounded'
<1>1. \A j \in Inputs \ {i} : task'[j] = task[j] BY TaskKeeps
<1>2. IsFiniteSet(Permitted) /\ Cardinality(Permitted) \in Nat
  BY InputsAssumption, FS_Subset, FS_CardinalityType DEF Permitted
<1>3. CASE Acquire(i)
  <2>1. Cardinality(Permitted) < Concurrency BY <1>3 DEF Acquire, Permitted
  <2>2. Permitted' \subseteq Permitted \cup {i} BY <1>1 DEF Permitted, InPermit
  <2>3. /\ IsFiniteSet(Permitted \cup {i})
        /\ Cardinality(Permitted \cup {i}) <= Cardinality(Permitted) + 1
    <3>1. /\ IsFiniteSet(Permitted \cup {i})
          /\ Cardinality(Permitted \cup {i})
               = IF i \in Permitted THEN Cardinality(Permitted) ELSE Cardinality(Permitted) + 1
      BY <1>2, FS_AddElement
    <3> QED BY <1>2, <3>1
  <2>4. Cardinality(Permitted') <= Cardinality(Permitted \cup {i}) /\ Cardinality(Permitted') \in Nat
    BY <2>2, <2>3, FS_Subset, FS_CardinalityType
  <2>5. Cardinality(Permitted \cup {i}) \in Nat BY <2>3, FS_CardinalityType
  <2> QED BY <1>2, <2>1, <2>3, <2>4, <2>5, ConcurrencyAssumption DEF Bounded
<1>4. CASE ~Acquire(i)
  <2>1. InPermit(i) \/ ~InPermit(i)'
    <3>1. task \in [Inputs -> Stages] BY DEF Inv, Typing
    <3> QED BY <1>4, <3>1 DEF Task, Read, Converted, Open, Write, Cancelled, Returns, InPermit
  <2>2. Permitted' \subseteq Permitted BY <1>1, <2>1 DEF Permitted, InPermit
  <2>3. Cardinality(Permitted') <= Cardinality(Permitted) /\ Cardinality(Permitted') \in Nat
    BY <1>2, <2>2, FS_Subset, FS_CardinalityType
  <2> QED BY <1>2, <2>3, ConcurrencyAssumption DEF Inv, Bounded
<1> QED BY <1>3, <1>4

LEMMA TaskVerdicts == ASSUME Inv, NEW i \in Inputs, Task(i) PROVE Verdicts'
<1>1. /\ UNCHANGED <<counted, failed>> /\ outcome[i] = "none"
      /\ \A j \in Inputs \ {i} : task'[j] = task[j] /\ outcome'[j] = outcome[j]
      /\ IF task'[i] = "over" THEN outcome'[i] \in Errors \cup {"ok"} ELSE outcome'[i] = "none"
  BY TaskKeeps
<1>2. \A j \in Inputs : IF task'[j] = "over" THEN outcome'[j] \in Errors \cup {"ok"}
                                            ELSE outcome'[j] = "none"
  BY <1>1 DEF Inv, Verdicts
<1>3. \A j \in counted : outcome'[j] = "ok"
  <2>1. counted \subseteq Inputs BY DEF Inv, Typing
  <2> QED BY <1>1, <2>1 DEF Inv, Verdicts
<1>4. \A k \in 1..Len(failed) : outcome'[failed[k]] \in Errors
  <2>1. \A k \in 1..Len(failed) : failed[k] \in Inputs BY DEF Inv, Typing
  <2>2. "none" \notin Errors BY DEF Errors
  <2> QED BY <1>1, <2>1, <2>2 DEF Inv, Verdicts
<1> QED BY <1>1, <1>2, <1>3, <1>4 DEF Inv, Verdicts

LEMMA TaskWritten == ASSUME Inv, NEW i \in Inputs, Task(i) PROVE Written'
<1>1. /\ UNCHANGED entries /\ outcome[i] = "none" /\ i \in entries /\ entries \subseteq Inputs
      /\ \A j \in Inputs \ {i} : task'[j] = task[j] /\ outcome'[j] = outcome[j]
      /\ IF task'[i] = "over" THEN outcome'[i] \in Errors \cup {"ok"} ELSE outcome'[i] = "none"
  BY TaskKeeps, PatternsAssumption DEF Inv, Places, Typing
<1>2. output \in [Outputs -> Inputs \cup {Nothing, "torn"}] /\ Target \in [Inputs -> Outputs]
  BY TargetAssumption DEF Inv, Typing
<1>3. \A j : OwnTarget(j)' <=> OwnTarget(j) BY <1>1 DEF OwnTarget
<1>4. \A j \in entries \ {i} : OwnTarget(j) => output'[Target[j]] = output[Target[j]]
  <2>1. \A j \in entries \ {i} : OwnTarget(j) => Target[j] # Target[i] BY <1>1 DEF OwnTarget
  <2> QED BY <1>1, <1>2, <2>1, TaskFiles
<1>5. \A j \in Inputs : outcome[j] = "ok" => j \in entries
  <2>1. \A j \in Inputs : outcome[j] = "ok" => task[j] = "over" BY DEF Inv, Verdicts
  <2> QED BY <2>1 DEF Inv, Places
<1>6. OwnTarget(i) /\ task[i] = "writing" => opened[Target[i]] = {i}
  <2>1. opened[Target[i]] = {j \in Inputs : task[j] = "writing" /\ Target[j] = Target[i]}
    BY <1>2 DEF Inv, Disk
  <2>2. \A j \in Inputs : task[j] = "writing" => j \in entries BY DEF Inv, Places
  <2> QED BY <2>1, <2>2 DEF OwnTarget
<1>7. outcome'[i] = "ok" /\ OwnTarget(i) => output'[Target[i]] = i
  <2>1. "ok" \notin Errors BY DEF Errors
  <2> QED BY <1>1, <1>2, <1>6, <2>1, TaskFiles
<1>8. output'[Target[i]] = "torn" /\ OwnTarget(i) => task'[i] = "writing" \/ outcome'[i] \in Errors
  <2>1. output[Target[i]] = "torn" /\ OwnTarget(i) => task[i] = "writing"
    <3>1. "none" \notin Errors BY DEF Errors
    <3> QED BY <1>1, <3>1 DEF Inv, Written
  <2>2. i # "torn" BY TornAssumption
  <2> QED BY <1>1, <1>2, <1>6, <2>1, <2>2, TaskFiles
<1>9. \A j \in Inputs : outcome'[j] = "ok" /\ OwnTarget(j) => output'[Target[j]] = j
  BY <1>1, <1>4, <1>5, <1>7 DEF Inv, Written
<1>10. \A j \in entries : output'[Target[j]] = "torn" /\ OwnTarget(j)
                           => task'[j] = "writing" \/ outcome'[j] \in Errors
  BY <1>1, <1>4, <1>8 DEF Inv, Written
<1> QED BY <1>1, <1>3, <1>9, <1>10 DEF Written

LEMMA TaskAccounted == ASSUME Inv, NEW i \in Inputs, Task(i) PROVE Accounted'
BY TaskKeeps DEF Inv, Accounted

-----------------------------------------------------------------------------

LEMMA InvNext == Inv /\ [Next]_vars => Inv'
<1> SUFFICES ASSUME Inv, [Next]_vars PROVE Inv' OBVIOUS
<1>1. CASE Main
  BY <1>1, MainTyping, MainDisk, MainPlaces, MainBounded, MainVerdicts, MainWritten, MainAccounted
  DEF Inv
<1>2. ASSUME NEW i \in Inputs, Task(i) PROVE Inv'
  BY <1>2, TaskTyping, TaskDisk, TaskPlaces, TaskBounded, TaskVerdicts, TaskWritten, TaskAccounted
  DEF Inv
<1>3. CASE UNCHANGED vars
  <2>1. /\ UNCHANGED <<entries, policy, dry, phase, chrome, task, outcome, aborted, output, opened,
                       counted, failed, exit>>
    BY <1>3 DEF vars, setup, tasks, files, report
  <2> QED BY <2>1 DEF Inv, Typing, Disk, Places, Bounded, Verdicts, Written, Accounted,
                      Permitted, InPermit, Running, OwnTarget
<1> QED BY <1>1, <1>2, <1>3 DEF Next

THEOREM Invariant == Spec => []Inv
BY InvInit, InvNext, PTL DEF Spec

(***************************************************************************)
(* Every variable keeps its type, no more tasks than --concurrency are in  *)
(* the section behind the semaphore, and Chromium does not outlive the run.*)
(***************************************************************************)
THEOREM TypeCorrect == Spec => []TypeOK
<1>1. Inv => TypeOK
  BY DEF Inv, Typing, Disk, Places, Bounded, Permitted, Stages, Outcomes, TypeOK
<1> QED BY <1>1, Invariant, PTL

(***************************************************************************)
(* SuccessIsWritten: exit code 0, and each success that is counted, mean a *)
(* written output, however many tasks write at once.                       *)
(***************************************************************************)
THEOREM SuccessesAreWritten == Spec => []SuccessIsWritten
<1>1. ASSUME Inv PROVE SuccessIsWritten
  <2>1. counted \subseteq Inputs BY <1>1 DEF Inv, Typing
  <2>2. \A i \in counted : OwnTarget(i) => output[Target[i]] = i
    BY <1>1, <2>1 DEF Inv, Verdicts, Written
  <2>3. exit = 0 /\ ~dry => entries \subseteq counted BY <1>1 DEF Inv, Accounted
  <2> QED BY <2>2, <2>3 DEF SuccessIsWritten
<1> QED BY <1>1, Invariant, PTL

(***************************************************************************)
(* StopTearsNothing: when the process is gone, an output is half written   *)
(* only if its task failed or it is shared.                                *)
(***************************************************************************)
THEOREM NothingIsTorn == Spec => []StopTearsNothing
<1>1. ASSUME Inv PROVE StopTearsNothing
  <2>1. entries \subseteq Inputs BY <1>1, PatternsAssumption DEF Inv, Typing
  <2>2. phase = "exited" => \A i \in entries : task[i] # "writing"
    BY <1>1, <2>1 DEF Inv, Places, Running
  <2> QED BY <1>1, <2>2 DEF StopTearsNothing, Inv, Written
<1> QED BY <1>1, Invariant, PTL

(***************************************************************************)
(* SkipAccountsForAll: under skip the report has each entry once, and the  *)
(* exit code tells whether all of them were successes.                     *)
(***************************************************************************)
THEOREM SkipAccounts == Spec => []SkipAccountsForAll
<1>1. ASSUME Inv, phase = "leaving", policy = "skip"
      PROVE  /\ IsInjective(failed) /\ ToSet(failed) \cap counted = {}
             /\ ToSet(failed) \cup counted = entries
             /\ Verdict = IF counted = entries THEN 0 ELSE 6
  <2>1. /\ counted \subseteq Inputs /\ failed \in Seq(Inputs)
        /\ DOMAIN failed = 1..Len(failed) /\ \A k \in 1..Len(failed) : failed[k] \in Inputs
    BY <1>1 DEF Inv, Typing
  <2>2. \A j \in ToSet(failed) : j \in Inputs /\ outcome[j] \in Errors
    BY <1>1, <2>1 DEF Inv, Verdicts, ToSet
  <2>3. \A j \in counted : outcome[j] = "ok" BY <1>1 DEF Inv, Verdicts
  <2>4. ToSet(failed) \cap counted = {} BY <2>2, <2>3 DEF Errors
  <2>5. \A j \in Inputs : outcome[j] # "none" => j \in entries
    BY <1>1 DEF Inv, Verdicts, Places
  <2>6. ToSet(failed) \cup counted = entries
    <3>1. entries \subseteq counted \cup ToSet(failed) BY <1>1 DEF Inv, Accounted
    <3> QED BY <2>1, <2>2, <2>3, <2>5, <3>1 DEF Errors
  <2>7. failed = <<>> <=> ToSet(failed) = {}
    <3>1. failed # <<>> => 1 \in DOMAIN failed BY <2>1
    <3>2. failed = <<>> => DOMAIN failed = {} BY <2>1
    <3> QED BY <3>1, <3>2 DEF ToSet
  <2>8. Verdict = IF counted = entries THEN 0 ELSE 6
    BY <1>1, <2>4, <2>6, <2>7 DEF Verdict, ExitCode
  <2>9. IsInjective(failed) BY <1>1 DEF Inv, Verdicts
  <2> QED BY <2>4, <2>6, <2>8, <2>9
<1>2. Inv => SkipAccountsForAll BY <1>1 DEF SkipAccountsForAll
<1> QED BY <1>2, Invariant, PTL
=============================================================================
