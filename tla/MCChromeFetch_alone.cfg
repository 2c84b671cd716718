\* Two clients that may download and one that may not, any number of calls and
\* of deaths, three tries of a launch.
CONSTANTS
  Clients = {f1, f2, f3}
  Trusting = {f1, f2}
  LaunchAttempts = 3
SPECIFICATION FetchSpec
SYMMETRY Symmetry
INVARIANTS AloneIsAtomic PathIsUsable
