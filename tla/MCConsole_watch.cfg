\* One request with a browser that follows, two requests with the sampler alone,
\* and both engines with one /health: what cannot meet is checked apart.
CONSTANTS
  r1 = r1
  r2 = r2
  p1 = p1
  s1 = s1
  Requests = {r1, r2}
  Probes = {p1}
  Streams = {s1}
  Chrome = Chrome
  Office = Office
  Scenarios <- MCScenarios
  LogCap = 1
  HistoryCap = 2
  BroadcastCap = 1
  MaxActivations = 2
  MaxRestarts = 3
SPECIFICATION Spec
INVARIANT SamplesAddUp
INVARIANT RestartsReal
PROPERTY AnsweredIsShown
PROPERTY SamplerPrevails
