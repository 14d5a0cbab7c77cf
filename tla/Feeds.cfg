CONSTANTS
  None = None
  Feeds = {f1}
  Urls = {here}
  Zones = {utc, local}
  Versions = {1, 2}
  here = here
  there = there
  utc = utc
  local = local
  Choices <- Pairs
  AtFirst <- FirstVersion
  Sweep = Sweep
  Requests = {add, edit}
  MaxChanges = 2
  MaxFailures = 2
SPECIFICATION FairSpec
INVARIANTS ValidatorsTrue
PROPERTIES FeedCatchesUp
CHECK_DEADLOCK FALSE
