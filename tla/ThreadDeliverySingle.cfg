SPECIFICATION FairSpec
CONSTANTS
  NoJob = NoJob
  w1 = w1
  w2 = w2
  j1 = j1
  j2 = j2
  j3 = j3
  j4 = j4
  j5 = j5
  c1 = c1
  c2 = c2
  c3 = c3
  c4 = c4
  c5 = c5
  Workers = {w1}
  Jobs = {j1, j2, j3, j4, j5}
  Contents = {c1, c2, c3, c4, c5}
  ContentOf <- EachContent
  KindOf <- EachKind
  ShareDenies = FALSE
  MaxDrops = 3
  MaxCrashes = 1
CHECK_DEADLOCK FALSE
INVARIANT NoSilentLoss
PROPERTY EveryJobAnswered
