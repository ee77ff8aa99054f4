SPECIFICATION Spec
CONSTANTS
  c1 = c1
  c2 = c2
  Channel = {c1}
  Worker = {w1, w2}
  MaxSources = 2
  Retention = 1
  InitHistory <- OneChannel
  FetchLimit = 2
  Unreadable = {}
  MaxHistory = 4
  MaxHorizon = 1
  MaxFaults = 1
  FilteredRun = 1
SYMMETRY Workers
INVARIANTS NoLoss NoGap IInv
PROPERTIES CursorNeverMovesBack ImplementsMessageLog
CHECK_DEADLOCK FALSE
