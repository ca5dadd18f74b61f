SPECIFICATION FairSpec
CONSTANTS
  e1 = e1
  e2 = e2
  summary = summary
  r1 = r1
  r2 = r2
  r3 = r3
  b1 = b1
  b2 = b2
  other = other
  Editors = {e1, e2}
  Summary = summary
  Roots = {r1, r2}
  Renewed = r1
  NewRoot = r3
  OldBatch = b1
  NewBatch = b2
  Other = other
  MaxEdits = 3
CHECK_DEADLOCK FALSE
INVARIANTS TypeOK FinishedEditIsComplete OneSection
PROPERTIES RetiredStaysRetired CanvasAfterRoots EveryEditEnds
