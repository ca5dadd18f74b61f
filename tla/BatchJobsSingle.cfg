SPECIFICATION Spec
CONSTANTS
  NoLease = NoLease
  NoBatch = NoBatch
  w1 = w1
  w2 = w2
  b1 = b1
  b2 = b2
  alice = alice
  bob = bob
  Workers = {w1}
  Batches = {b1, b2}
  OwnerOf <- SameOwner
  Containing <- Nested
  NumAssets = 1
  Mirrored = TRUE
  Failing = {"post_summary", "post_asset", "permalink", "index_asset", "retire_prior_latest", "finalize_summary"}
  Escaping = {"progress"}
  Databases = {"postgresql"}
  TTL = 1
  MaxTime = 0
  MaxCrashes = 1
  MaxRetries = 1
CHECK_DEADLOCK FALSE
INVARIANTS TypeOK SucceededIsPosted OneLatest
PROPERTIES NoRepostAfterSuccess ImplementsLedger
