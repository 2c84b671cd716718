\* Two callers, a channel of one and threads for two workers; eager and lazy
\* engines.  The process ends with _exit(0), so a state may have no successor.
SPECIFICATION Spec
CONSTANTS
  Callers = {c1, c2}
  Workers = {w1, w2}
  QueueCap = 1
  LazyModes = {TRUE, FALSE}
  NoWorker = NoWorker
  NoCaller = NoCaller
  Abandoned = Abandoned
SYMMETRY Symmetry
INVARIANTS NoStrandedCaller OneServing HealthyHasWorker
CHECK_DEADLOCK FALSE
