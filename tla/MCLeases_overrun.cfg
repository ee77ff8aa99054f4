SPECIFICATION Spec
CONSTANTS
  User = {u1}
  Worker = {w1, w2}
  Nobody = Nobody
  Lease = 2
  MaxUsers = 2
  MaxLate = 1
  MaxTickLength = 3
  MaxLogins = 1
  MaxLogouts = 0
  MaxRejects = 0
  MaxStops = 0
  MaxFaults = 0
INVARIANTS OneSyncer
CHECK_DEADLOCK FALSE
