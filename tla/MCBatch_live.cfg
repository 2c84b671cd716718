\* One batch of three items that convert one at a time and may fail, and two
\* downloads that race each other and the cleanup.
SPECIFICATION FairSpec
CONSTANTS
  Batches = {b1}
  Items = {i1, i2, i3}
  Submitters = {s1}
  Downloaders = {d1, d2}
  Concurrency = 1
  MaxActive = 1
  ItemOutcomes = {"Success", "Error"}
  NoBatch = NoBatch
INVARIANTS DeliveredIsGone SerialResultsExact
PROPERTIES FailedDownloadLosesNothing EveryBatchSettles EventuallyReclaimed
