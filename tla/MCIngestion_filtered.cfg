SPECIFICATION FairSpec
CONSTANTS
  c1 = c1
  c2 = c2
  Channel = {c1}
  Worker = {w1}
  MaxSources = 1
  Retention = 1
  InitHistory <- OneChannel
  FetchLimit = 2
  Unreadable = {}
  MaxHistory = 6
  MaxHorizon = 0
  MaxFaults = 0
  FilteredRun = 2
PROPERTIES MakesProgress
CHECK_DEADLOCK FALSE
