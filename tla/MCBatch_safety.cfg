\* Two batches of two items, every item at work at once, and one download at a
\* time; both batches can be active.
SPECIFICATION Spec
CONSTANTS
  Batches = {b1, b2}
  Items = {i1, i2}
  Submitters = {s1}
  Downloaders = {d1}
  Concurrency = 2
  MaxActive = 2
  ItemOutcomes = {"Success"}
  NoBatch = NoBatch
SYMMETRY Symmetry
INVARIANTS ActiveHasWorker AdvertisedIsDownloadable NoPhantomSuccess
PROPERTY ImplementsLifecycle
