SPECIFICATION FairSpec
CONSTANTS
  User = {u1, u2}
  Worker = {w1, w2}
  Nobody = Nobody
  Lease = 2
  MaxUsers = 1
  MaxLate = 1
  MaxTickLength = 1
  MaxLogins = 2
  MaxLogouts = 0
  MaxRejects = 0
  MaxStops = 1
  MaxFaults = 1
PROPERTIES SessionsServed
CHECK_DEADLOCK FALSE
