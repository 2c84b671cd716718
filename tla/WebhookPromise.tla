--------------------------- MODULE WebhookPromise ---------------------------
(***************************************************************************)
(* What the asynchronous mode promises a client whose request was answered *)
(* 202: the outcome of its job is reported, at least once, at most         *)
(* MaxAttempts times and always the same, unless the job is lost with the  *)
(* worker or the process that had it.                                      *)
(***************************************************************************)
EXTENDS Integers, FiniteSets

CONSTANTS Jobs, MaxAttempts, ErrorUrls

VARIABLES
  phase,     \* "none", "accepted", "reporting", "delivered", "abandoned", "lost"
  sent,      \* the reports that have been sent
  received,  \* the reports that the client's endpoint has seen
  up         \* the process runs

promiseVars == <<phase, sent, received, up>>

\* The status goes to the URL the client has given for it.
Url(j, status) == IF status = "error" /\ j \in ErrorUrls THEN "error_url" ELSE "webhook_url"

Report(j, n, status) ==
  [job |-> j, attempt |-> n, status |-> status, url |-> Url(j, status)]

SentFor(j) == {r \in sent : r.job = j}

Init ==
  /\ phase = [j \in Jobs |-> "none"]
  /\ sent = {}
  /\ received = {}
  /\ up = TRUE

Becomes(j, from, to) == up /\ phase[j] = from /\ phase' = [phase EXCEPT ![j] = to]

Accept(j) == Becomes(j, "none", "accepted") /\ UNCHANGED <<sent, received, up>>

\* The job is over; what it came to is said by the first report.
Conclude(j) == Becomes(j, "accepted", "reporting") /\ UNCHANGED <<sent, received, up>>

\* Every report of a job tells the same outcome.
Send(j) ==
  /\ up
  /\ phase[j] = "reporting"
  /\ Cardinality(SentFor(j)) < MaxAttempts
  /\ \E status \in {"success", "error"} :
       /\ \A r \in SentFor(j) : r.status = status
       /\ sent' = sent \cup {Report(j, Cardinality(SentFor(j)) + 1, status)}
  /\ UNCHANGED <<phase, received, up>>

\* A report may arrive late, after a later one or after the process is gone.
Arrive(r) ==
  /\ r \in sent \ received
  /\ received' = received \cup {r}
  /\ UNCHANGED <<phase, sent, up>>

Deliver(j) ==
  /\ Becomes(j, "reporting", "delivered")
  /\ SentFor(j) \cap received # {}
  /\ UNCHANGED <<sent, received, up>>

\* The server gives up only after all attempts.
Abandon(j) ==
  /\ Becomes(j, "reporting", "abandoned")
  /\ Cardinality(SentFor(j)) = MaxAttempts
  /\ UNCHANGED <<sent, received, up>>

\* A worker dies at a job, and the last one takes the jobs that wait with it.
\* A job whose outcome is known is not lost this way.
Lose(S) ==
  /\ up
  /\ \A j \in S : phase[j] = "accepted"
  /\ phase' = [j \in Jobs |-> IF j \in S THEN "lost" ELSE phase[j]]
  /\ UNCHANGED <<sent, received, up>>

Stop == up /\ up' = FALSE /\ UNCHANGED <<phase, sent, received>>

Next ==
  \/ \E j \in Jobs : Accept(j) \/ Conclude(j) \/ Send(j) \/ Deliver(j) \/ Abandon(j)
  \/ \E S \in SUBSET Jobs : Lose(S)
  \/ \E r \in sent : Arrive(r)
  \/ Stop

Spec == Init /\ [][Next]_promiseVars
=============================================================================
