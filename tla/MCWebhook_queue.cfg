\* Three requests, one with an error URL, for one worker behind a channel of one;
\* two attempts per report.  The process really stops, so deadlock is not checked.
SPECIFICATION Spec
CONSTANTS
  Jobs = {j1, j2, j3}
  ErrorUrls = {j1}
  Workers = {w1}
  QueueCap = 1
  MaxAttempts = 2
  NoJob = NoJob
  Nobody = Nobody
CHECK_DEADLOCK FALSE
INVARIANT JobsConserved
PROPERTIES ImplementsPromise EveryJobSettles
