SPECIFICATION FairSpec
CONSTANTS
  NoLease = NoLease
  Nobody = Nobody
  c1 = c1
  c2 = c2
  c3 = c3
  alice = alice
  bob = bob
  carol = carol
  Clients = {c1, c2, c3}
  UserOf <- EachTheirOwn
  Dialects = {"sqlite", "postgresql"}
  TTL = 1
  MaxTime = 3
  MaxTokens = 3
CHECK_DEADLOCK FALSE
INVARIANTS TypeOK Exclusive
PROPERTIES NoTheft ImplementsLease EveryCallReturns
