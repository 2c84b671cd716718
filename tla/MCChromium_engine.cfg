\* One render of every kind, a screenshot, two shutdowns; a capture task is up to two
\* events behind.  The engine really stops, so deadlock is not checked.
SPECIFICATION Spec
CONSTANTS
  Renders = {r1}
  Shots = {s1}
  Closers = {c1, c2}
  Sources = {"html", "url"}
  Waits = {"domContentLoaded", "networkIdle", "expression"}
  Policies = {"none", "status", "errors"}
  MaxUnread = 2
  Nobody = Nobody
CHECK_DEADLOCK FALSE
INVARIANTS ShutdownIsComplete PagesAreClosed PdfIsEarned
PROPERTIES LateRendersRefused EveryRenderReturns
