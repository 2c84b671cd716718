------------------------------ MODULE CliBatch ------------------------------
(***************************************************************************)
(* One run of `pdfbro batch`: a task per input behind a semaphore, the     *)
(* loop that joins them, --on-error, the engines of the run and the exit   *)
(* code.  A task runs from one await to the next on a thread of the        *)
(* runtime, and abort_all reaches it only between such stretches: the      *)
(* writing of an output goes on in an aborted task, the main task does not *)
(* wait for it, the drop of the runtime does.  What the engines do is the  *)
(* matter of ChromiumEngine and LokEngine.                                 *)
(***************************************************************************)
EXTENDS Naturals, Sequences, FiniteSets, SequencesExt

CONSTANTS
  Inputs,       \* the files of the input directory
  Patterns,     \* the values of --pattern: the files each matches
  Kind,         \* what the extension of an input says: "page", "office", "other"
  Outputs,
  Target,       \* mirror_target: the output path of an input
  Policies,     \* the values of --on-error that are looked at
  Concurrency,  \* --concurrency
  Nothing       \* an output path without a file

ASSUME KindAssumption == Kind \in [Inputs -> {"page", "office", "other"}]
ASSUME PatternsAssumption == Patterns \subseteq SUBSET Inputs
ASSUME TargetAssumption == Target \in [Inputs -> Outputs]
ASSUME PoliciesAssumption == Policies \subseteq {"skip", "stop"}
ASSUME ConcurrencyAssumption == Concurrency \in Nat \ {0}
ASSUME InputsAssumption == IsFiniteSet(Inputs)
ASSUME NothingAssumption == Nothing \notin Inputs
ASSUME TornAssumption == "torn" \notin Inputs \cup {Nothing}

VARIABLES
  entries,  \* the files to convert
  policy,   \* --on-error
  dry,      \* --dry-run
  phase,    \* of the main task
  chrome,   \* the Chromium of the run: "none", "up", "down"
  task,     \* per input, how far its task is
  outcome,  \* per input, what its task returned
  output,   \* per path: Nothing, the input whose PDF it is, or "torn"
  opened,   \* per path, the tasks that have it open
  aborted,  \* abort_all was called
  counted,  \* the inputs counted as succeeded
  failed,   \* the inputs that failed, as they were joined
  exit      \* the exit code, 7 (not one of them) before the end

setup == <<entries, policy, dry>>
report == <<counted, failed>>
tasks == <<task, outcome, aborted>>
files == <<output, opened>>
vars == <<setup, phase, chrome, tasks, files, report, exit>>

Errors == {"engine", "timeout", "io", "generic"}

Init ==
  /\ entries \in Patterns
  /\ policy \in Policies
  /\ dry \in BOOLEAN
  /\ phase = "arguments"
  /\ chrome = "none"
  /\ task = [i \in Inputs |-> "none"]
  /\ outcome = [i \in Inputs |-> "none"]
  /\ output = [p \in Outputs |-> Nothing]
  /\ opened = [p \in Outputs |-> {}]
  /\ aborted = FALSE
  /\ counted = {}
  /\ failed = <<>>
  /\ exit = 7

\* exit_for_anyhow
ExitCode(error) ==
  CASE error = "generic" -> 1
    [] error = "usage" -> 2
    [] error = "engine" -> 3
    [] error = "timeout" -> 4
    [] error = "io" -> 5
    [] error = "partial" -> 6

Ends(code) == phase' = "exited" /\ exit' = code

-----------------------------------------------------------------------------
(* Before the tasks                                                        *)

\* No such input directory, one directory for both, a bad pattern, a directory
\* that cannot be made or walked.
Refuse ==
  /\ phase = "arguments"
  /\ \E e \in {"usage", "generic", "io"} : Ends(ExitCode(e))
  /\ UNCHANGED <<setup, chrome, tasks, files, report>>

DryRun ==
  /\ phase = "arguments"
  /\ dry
  /\ Ends(0)
  /\ UNCHANGED <<setup, chrome, tasks, files, report>>

LaunchChrome ==
  /\ phase = "arguments"
  /\ ~dry
  /\ IF \E i \in entries : Kind[i] # "office"
     THEN \/ chrome' = "up" /\ phase' = "office" /\ UNCHANGED exit
          \/ Ends(ExitCode("engine")) /\ UNCHANGED chrome
     ELSE phase' = "office" /\ UNCHANGED <<chrome, exit>>
  /\ UNCHANGED <<setup, tasks, files, report>>

\* LibreOffice, and the header and footer templates.  Chromium is killed as it is
\* dropped when either fails.
FindOffice ==
  /\ phase = "office"
  /\ \/ /\ phase' = "joining"
        /\ task' = [i \in Inputs |-> IF i \in entries THEN "waiting" ELSE "none"]
        /\ UNCHANGED <<chrome, exit>>
     \/ /\ \E e \in {"io"} \cup (IF \E i \in entries : Kind[i] = "office" THEN {"engine"} ELSE {}) :
             Ends(ExitCode(e))
        /\ chrome' = IF chrome = "up" THEN "down" ELSE chrome
        /\ UNCHANGED task
  /\ UNCHANGED <<setup, outcome, aborted, files, report>>

-----------------------------------------------------------------------------
(* The task of an input: convert_one, with a permit                        *)

Alive == phase # "exited"
InPermit(i) == task[i] \in {"reading", "converting", "opening", "writing"}
Running(i) == task[i] \in {"reading", "opening", "writing"}
Returns(i, result) ==
  /\ task' = [task EXCEPT ![i] = "over"]
  /\ outcome' = [outcome EXCEPT ![i] = result]

Acquire(i) ==
  /\ Alive /\ ~aborted
  /\ task[i] = "waiting"
  /\ Cardinality({j \in Inputs : InPermit(j)}) < Concurrency
  /\ task' = [task EXCEPT ![i] = "reading"]
  /\ UNCHANGED <<setup, phase, chrome, outcome, aborted, files, report, exit>>

\* The source is read; an extension that neither engine knows is an error.
Read(i) ==
  /\ task[i] = "reading"
  /\ \/ Kind[i] # "other" /\ task' = [task EXCEPT ![i] = "converting"] /\ UNCHANGED outcome
     \/ Kind[i] # "other" /\ Returns(i, "io")
     \/ Kind[i] = "other" /\ Returns(i, "generic")
  /\ UNCHANGED <<setup, phase, chrome, aborted, files, report, exit>>

\* The engine answers, with a PDF only if it is there.
Converted(i) ==
  /\ Alive /\ ~aborted
  /\ task[i] = "converting"
  /\ \/ /\ Kind[i] = "office" \/ chrome = "up"
        /\ task' = [task EXCEPT ![i] = "opening"]
        /\ UNCHANGED outcome
     \/ \E e \in {"engine", "timeout", "io", "generic"} : Returns(i, e)
  /\ UNCHANGED <<setup, phase, chrome, aborted, files, report, exit>>

\* fs::write: the file is made, or emptied ...
Open(i) ==
  /\ task[i] = "opening"
  /\ \/ /\ task' = [task EXCEPT ![i] = "writing"]
        /\ output' = [output EXCEPT ![Target[i]] = "torn"]
        /\ opened' = [opened EXCEPT ![Target[i]] = @ \cup {i}]
        /\ UNCHANGED outcome
     \/ Returns(i, "io") /\ UNCHANGED files
  /\ UNCHANGED <<setup, phase, chrome, aborted, report, exit>>

\* mutant: the result of fs::write is not looked at.
WriteUnchecked(i) ==
  /\ task[i] = "writing"
  /\ Returns(i, "ok")
  /\ output' \in {output, [output EXCEPT ![Target[i]] = i]}
  /\ opened' = [opened EXCEPT ![Target[i]] = @ \ {i}]
  /\ UNCHANGED <<setup, phase, chrome, aborted, report, exit>>

\* ... and written, on its own or together with another task; the pages are then
\* counted, where a panic is still a failure.
Write(i) ==
  /\ task[i] = "writing"
  /\ \/ /\ \E r \in {"ok", "generic"} : Returns(i, r)
        /\ \/ output' = [output EXCEPT ![Target[i]] = i]
           \/ opened[Target[i]] # {i} /\ output' = [output EXCEPT ![Target[i]] = "torn"]
     \/ Returns(i, "io") /\ UNCHANGED output
  /\ opened' = [opened EXCEPT ![Target[i]] = @ \ {i}]
  /\ UNCHANGED <<setup, phase, chrome, aborted, report, exit>>

\* An aborted task goes no further than its next await.
Cancelled(i) ==
  /\ aborted
  /\ task[i] \in {"waiting", "converting"}
  /\ task' = [task EXCEPT ![i] = "cancelled"]
  /\ UNCHANGED <<setup, phase, chrome, outcome, aborted, files, report, exit>>

-----------------------------------------------------------------------------
(* The main task                                                           *)

Joined(i) == i \in counted \/ i \in ToSet(failed)

\* mutant: under skip as well the loop is left at the first error.
JoinStops(i) ==
  /\ phase = "joining"
  /\ task[i] = "over"
  /\ ~Joined(i)
  /\ IF outcome[i] = "ok"
     THEN counted' = counted \cup {i} /\ UNCHANGED <<failed, aborted, phase>>
     ELSE /\ failed' = Append(failed, i)
          /\ aborted' = (policy = "stop")
          /\ phase' = "closing"
          /\ UNCHANGED counted
  /\ UNCHANGED <<setup, chrome, task, outcome, files, exit>>

\* join_next: any of the tasks that are over.
Join(i) ==
  /\ phase = "joining"
  /\ task[i] = "over"
  /\ ~Joined(i)
  /\ IF outcome[i] = "ok"
     THEN counted' = counted \cup {i} /\ UNCHANGED <<failed, aborted, phase>>
     ELSE /\ failed' = Append(failed, i)
          /\ IF policy = "stop"
             THEN aborted' = TRUE /\ phase' = "closing"
             ELSE UNCHANGED <<aborted, phase>>
          /\ UNCHANGED counted
  /\ UNCHANGED <<setup, chrome, task, outcome, files, exit>>

JoinedAll ==
  /\ phase = "joining"
  /\ \A i \in entries : Joined(i)
  /\ phase' = "closing"
  /\ UNCHANGED <<setup, chrome, tasks, files, report, exit>>

\* The shutdown of Chromium; what becomes of it is not looked at.
Close ==
  /\ phase = "closing"
  /\ phase' = "leaving"
  /\ chrome' = IF chrome = "up" THEN "down" ELSE chrome
  /\ UNCHANGED <<setup, tasks, files, report, exit>>

Verdict ==
  IF failed = <<>> THEN 0
  ELSE ExitCode(IF policy = "skip" THEN "partial" ELSE outcome[Head(failed)])

\* mutant: the process exits under the threads of its runtime.
LeaveAtOnce ==
  /\ phase = "leaving"
  /\ Ends(Verdict)
  /\ UNCHANGED <<setup, chrome, tasks, files, report>>

\* The runtime is dropped when no task is running any more.
Leave ==
  /\ phase = "leaving"
  /\ \A i \in Inputs : ~Running(i)
  /\ Ends(Verdict)
  /\ UNCHANGED <<setup, chrome, tasks, files, report>>

-----------------------------------------------------------------------------

Task(i) ==
  \/ Acquire(i)
  \/ Read(i)
  \/ Converted(i)
  \/ Open(i)
  \/ Write(i)
  \/ Cancelled(i)

Main ==
  \/ Refuse
  \/ DryRun
  \/ LaunchChrome
  \/ FindOffice
  \/ \E i \in Inputs : Join(i)
  \/ JoinedAll
  \/ Close
  \/ Leave

Next == Main \/ \E i \in Inputs : Task(i)

Spec == Init /\ [][Next]_vars

-----------------------------------------------------------------------------
(* Properties                                                              *)

\* Types; an output that was never opened has no file, and Chromium is up only
\* while the run goes on.
TypeOK ==
  /\ entries \in Patterns /\ policy \in Policies /\ dry \in BOOLEAN /\ aborted \in BOOLEAN
  /\ phase \in {"arguments", "office", "joining", "closing", "leaving", "exited"}
  /\ chrome \in {"none", "up", "down"}
  /\ task \in [Inputs -> {"none", "waiting", "reading", "converting", "opening", "writing",
                          "over", "cancelled"}]
  /\ outcome \in [Inputs -> Errors \cup {"none", "ok"}]
  /\ output \in [Outputs -> Inputs \cup {Nothing, "torn"}]
  /\ \A p \in Outputs : output[p] \in Inputs => Target[output[p]] = p
  /\ opened \in [Outputs -> SUBSET Inputs]
  /\ \A p \in Outputs : opened[p] = {i \in Inputs : task[i] = "writing" /\ Target[i] = p}
  /\ counted \subseteq Inputs /\ failed \in Seq(Inputs)
  /\ exit \in 0..7
  /\ Cardinality({i \in Inputs : InPermit(i)}) <= Concurrency
  /\ phase = "exited" => chrome # "up"

OwnTarget(i) == \A j \in entries \ {i} : Target[j] # Target[i]

\* Exit code 0 means that the PDF of every input lies at its mirrored path, and
\* whatever is counted as a success has its own there, whatever the other tasks
\* do; but for inputs that differ in their extension alone.
SuccessIsWritten ==
  /\ \A i \in counted : OwnTarget(i) => output[Target[i]] = i
  /\ exit = 0 /\ ~dry => \A i \in entries : OwnTarget(i) => output[Target[i]] = i

\* With --on-error skip every input is counted once, as a success or as a failure,
\* and the exit code says which of the two it was.
SkipAccountsForAll ==
  phase = "leaving" /\ policy = "skip" =>
    /\ IsInjective(failed) /\ ToSet(failed) \cap counted = {}
    /\ ToSet(failed) \cup counted = entries
    /\ Verdict = IF counted = entries THEN 0 ELSE 6

\* After --on-error stop no output is left half written, although nobody waits for
\* the aborted tasks: a torn one is due to an error, or shared.
StopTearsNothing ==
  phase = "exited" =>
    \A i \in entries :
      output[Target[i]] = "torn" /\ OwnTarget(i) => outcome[i] \in Errors

\* The output path mirrors the place of the input (batch.rs 195): each counted success
\* has an output.  It does not hold of inputs that are mirrored to one path.
EverySuccessHasItsOutput == \A i \in counted : output[Target[i]] = i
=============================================================================
