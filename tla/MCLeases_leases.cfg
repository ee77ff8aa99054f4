SPECIFICATION Spec
CONSTANTS
  User = {u1, u2}
  Worker = {w1, w2}
  Nobody = Nobody
  Lease = 2
  MaxUsers = 2
  MaxLate = 0
  MaxTickLength = 2
  MaxLogins = 2
  MaxLogouts = 1
  MaxRejects = 1
  MaxStops = 1
  MaxFaults = 0
SYMMETRY Symmetric
INVARIANTS LeaseExclusive OneSyncer SplitInv ClientsClaimed
PROPERTIES ImplementsLock
CHECK_DEADLOCK FALSE
