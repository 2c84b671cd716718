--------------------------- MODULE BatchLifecycle ---------------------------
(***************************************************************************)
(* What the batch API promises a client that polls /status and fetches     *)
(* /download: how the status of one batch may change, however the tasks    *)
(* behind it interleave.                                                   *)
(*                                                                         *)
(* A batch whose retention ends while it is processed may vanish and       *)
(* appear again as long as its worker runs; a finished batch never changes *)
(* and a batch that vanished after its worker ended never comes back.      *)
(***************************************************************************)
EXTENDS Integers

CONSTANT Batches

VARIABLES
  visible,    \* the status a client is told, "Unknown" for 404
  worker,     \* process_batch of the batch: "none", "running", "ended"
  delivered   \* downloads answered with the output

lifecycleVars == <<visible, worker, delivered>>

Init ==
  /\ visible = [b \in Batches |-> "Unknown"]
  /\ worker = [b \in Batches |-> "none"]
  /\ delivered = [b \in Batches |-> 0]

Shows(b, status) == visible' = [visible EXCEPT ![b] = status]
WorkerIs(b, w) == worker' = [worker EXCEPT ![b] = w]

\* An id is accepted once.
Accept(b) ==
  /\ worker[b] = "none"
  /\ Shows(b, "Queued")
  /\ WorkerIs(b, "running")
  /\ UNCHANGED delivered

\* The worker publishes that it is at work, perhaps after the batch vanished.
Publish(b) ==
  /\ worker[b] = "running"
  /\ Shows(b, "Processing")
  /\ UNCHANGED <<worker, delivered>>

\* Publishing the outcome is the worker's last step.
Finish(b) ==
  /\ worker[b] = "running"
  /\ \E status \in {"Completed", "Failed"} : Shows(b, status)
  /\ WorkerIs(b, "ended")
  /\ UNCHANGED delivered

\* A worker gives up only on a batch that has vanished.
Abandon(b) ==
  /\ worker[b] = "running"
  /\ visible[b] = "Unknown"
  /\ WorkerIs(b, "ended")
  /\ UNCHANGED <<visible, delivered>>

\* The retention of the batch is over.
Vanish(b) ==
  /\ visible[b] # "Unknown"
  /\ Shows(b, "Unknown")
  /\ UNCHANGED <<worker, delivered>>

\* The output goes out; the batch may have vanished since the client asked.
Deliver(b) ==
  /\ worker[b] = "ended"
  /\ visible[b] \in {"Completed", "Unknown"}
  /\ Shows(b, "Unknown")
  /\ delivered' = [delivered EXCEPT ![b] = @ + 1]
  /\ UNCHANGED worker

Next ==
  \E b \in Batches :
    Accept(b) \/ Publish(b) \/ Finish(b) \/ Abandon(b) \/ Vanish(b) \/ Deliver(b)

Spec == Init /\ [][Next]_lifecycleVars
=============================================================================
