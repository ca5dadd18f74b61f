SPECIFICATION FairSpec
CONSTANTS
  h1 = h1
  h2 = h2
  a1 = a1
  a2 = a2
  t1 = t1
  NoTitle = NoTitle
  Handlers = {h1, h2}
  Assets = {a1, a2}
  Titles = {t1}
  SeasonsIn <- Seasons
  Exports <- PageExports
  PageSize = 1
  MaxRows = 2
  MaxDisturbed = 1
CHECK_DEADLOCK FALSE
INVARIANTS TypeOK NotConfirmedTwice
PROPERTIES ConfirmedAsAWhole ReviewedBeforePosting DeclineStops WorkingViewReplaced
