SPECIFICATION Spec
CONSTANTS
  worker = worker
  web = web
  j1 = j1
  j2 = j2
  a1 = a1
  a2 = a2
  NoAsset = NoAsset
  NoJob = NoJob
  Assets = {a1, a2}
  Jobs = {j1, j2}
  Worker = worker
  Adopters = {web}
  Writers = {worker, web}
  AssetsOf <- TabTwice
  SharedWith <- NoSharing
  Failing = {}
  MaxEvents = 1
CHECK_DEADLOCK FALSE
INVARIANT NoDuplicate
