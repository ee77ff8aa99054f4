SPECIFICATION FairSpec
CONSTANTS
  User = {u1}
  Worker = {w1}
  Nobody = Nobody
  Lease = 2
  MaxUsers = 2
  MaxLate = 1
  MaxTickLength = 2
  MaxLogins = 2
  MaxLogouts = 1
  MaxRejects = 0
  MaxStops = 0
  MaxFaults = 0
PROPERTIES LogoutDisconnects
CHECK_DEADLOCK FALSE
