SPECIFICATION FairSpec
CONSTANTS
  Message = {1, 2, 3, 4, 5}
  Filter = {"all", "channel"}
  Matches <- Selected
  PageSize = 2
  MaxChanges = 3
  MaxErrors = 2
  MaxOpen = 3
  MaxVisits = 2
INVARIANTS TypeOK ListsTheFilter ExpiryExplained
PROPERTIES LoadingEnds
CHECK_DEADLOCK FALSE
