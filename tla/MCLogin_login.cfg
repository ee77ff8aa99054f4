SPECIFICATION FairSpec
CONSTANTS
  Page = {p1}
  NoPage = NoPage
  Request = {r1, r2}
  NoRequest = NoRequest
  MaxLogins = 2
  MaxFaults = 2
  MaxCrashes = 1
INVARIANTS TypeOK ClientsOwned DoneIsSaved LoggedInIsSaved
PROPERTIES LoginsEnd
CHECK_DEADLOCK FALSE
