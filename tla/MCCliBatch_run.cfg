\* Two pages of one output path with a document, and one of them with a document
\* and a file of no known extension, two at a time.  The run ends: no deadlock
\* check.
CONSTANTS
  a = a
  b = b
  d = d
  e = e
  pa = pa
  pd = pd
  pe = pe
  Inputs = {a, b, d, e}
  Patterns <- MCPatterns
  Kind <- MCKind
  Outputs = {pa, pd, pe}
  Target <- MCTarget
  Policies = {"skip", "stop"}
  Concurrency = 2
  Nothing = Nothing
SPECIFICATION Spec
INVARIANT SuccessIsWritten
INVARIANT SkipAccountsForAll
INVARIANT StopTearsNothing
CHECK_DEADLOCK FALSE
