SPECIFICATION FairSpec
CONSTANTS
  c1 = c1
  c2 = c2
  Channel = {c1, c2}
  Worker = {w1}
  MaxSources = 2
  Retention = 1
  InitHistory <- TwoChannels
  FetchLimit = 2
  Unreadable = {c2}
  MaxHistory = 2
  MaxHorizon = 1
  MaxFaults = 1
  FilteredRun = 1
PROPERTIES PostsArrive SyncingEnds
CHECK_DEADLOCK FALSE
