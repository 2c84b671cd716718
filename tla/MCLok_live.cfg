\* One worker thread at a time: a second start has to wait for the first thread
\* to end, or fails.
SPECIFICATION FairSpec
CONSTANTS
  Callers = {c1, c2}
  Workers = {w1}
  QueueCap = 1
  LazyModes = {TRUE, FALSE}
  NoWorker = NoWorker
  NoCaller = NoCaller
  Abandoned = Abandoned
PROPERTIES EveryConvertReturns ShutdownReturns
CHECK_DEADLOCK FALSE
