CONSTANTS
  None = None
  Asked = Asked
  ann = ann
  eve = eve
  outbound = outbound
  inbound = inbound
  eveTab = eveTab
  Users = {ann, eve}
  Plans = {outbound, inbound}
  Tabs = {eveTab}
  UserOf <- Sessions
  ShowAll = {}
  InitialAudience <- Audiences
  bufSz = 1
  Ops = {"update", "reshare", "delete", "absorb", "poll"}
  MaxChanges = 2
  MaxTasks = 2
  MaxCuts = 2
SPECIFICATION FairSpec
INVARIANTS StaleOnlyByKnownLoss
PROPERTIES LeakNeedsAnEmptyAudience FreshInTheEnd
CHECK_DEADLOCK FALSE
