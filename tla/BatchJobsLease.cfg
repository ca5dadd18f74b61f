SPECIFICATION Spec
CONSTANTS
  NoLease = NoLease
  NoBatch = NoBatch
  w1 = w1
  w2 = w2
  b1 = b1
  b2 = b2
  alice = alice
  bob = bob
  Workers = {w1}
  Batches = {b1}
  OwnerOf <- OneOwner
  Containing <- OnlyOne
  NumAssets = 1
  Mirrored = FALSE
  Failing = {}
  Escaping = {}
  Databases = {"postgresql"}
  TTL = 1
  MaxTime = 1
  MaxCrashes = 0
  MaxRetries = 0
CHECK_DEADLOCK FALSE
INVARIANT LeaseReleased
