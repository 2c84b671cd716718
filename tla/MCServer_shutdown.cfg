\* A conversion, a health probe of both engines, a webhook job, the sampler and a
\* browser about the two engines, under every configuration of lazy starts and TLS.
\* The process exits: no deadlock check.
CONSTANTS
  c = c
  l = l
  r1 = r1
  h = h
  j = j
  Sampler = Sampler
  Closer = Closer
  Engines = {c, l}
  Chrome = c
  ShutOrder <- MCShutOrder
  Converts = {r1}
  Previews = {}
  Probes = {h}
  Jobs = {j}
  Visits <- MCVisits
  LazySets <- MCLazySets
  Streams = {s1}
  Permits = 1
SPECIFICATION FairSpec
INVARIANT NothingLeaks
INVARIANT EngineHeldWhileUsed
PROPERTY EveryRequestSettles
PROPERTY Stops
CHECK_DEADLOCK FALSE
