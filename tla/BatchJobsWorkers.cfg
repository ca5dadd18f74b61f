SPECIFICATION FairSpec
CONSTANTS
  NoLease = NoLease
  NoBatch = NoBatch
  w1 = w1
  w2 = w2
  b1 = b1
  b2 = b2
  alice = alice
  bob = bob
  Workers = {w1, w2}
  Batches = {b1, b2}
  OwnerOf <- TwoOwners
  Containing <- Distinct
  NumAssets = 1
  Mirrored = FALSE
  Failing = {"post_summary", "post_asset", "permalink", "retire_prior_latest", "progress"}
  Escaping = {"post_summary"}
  Databases = {"sqlite", "postgresql"}
  TTL = 1
  MaxTime = 2
  MaxCrashes = 1
  MaxRetries = 0
CHECK_DEADLOCK FALSE
INVARIANTS ExclusiveRun LatestShown OneBatchPerChannel
PROPERTY EveryBatchEnds
