SPECIFICATION FairSpec
CONSTANTS
  worker = worker
  web = web
  j1 = j1
  j2 = j2
  a1 = a1
  a2 = a2
  NoAsset = NoAsset
  NoJob = NoJob
  Assets = {a1, a2}
  Jobs = {j1, j2}
  Worker = worker
  Adopters = {web}
  Writers = {worker, web}
  AssetsOf <- Tabs
  SharedWith <- Sharing
  Failing = {"info", "create", "post_group", "record_group", "post_root", "permalink",
             "record_root", "post_reply", "update_group", "index", "commit", "delete",
             "stamp", "result", "fail", "move", "shotgrid"}
  MaxEvents = 1
CHECK_DEADLOCK FALSE
INVARIANTS TypeOK HistoryTrue ReportTrue NoPartialPost OneRootEach
PROPERTY EveryMintAnswered
