CONSTANTS
  Account = {a, b}
  Nobody = Nobody
  Public = {}
  Private = {p}
  Dialog = {d}
  NoSource = NoSource
  MaxSources = 2
  MaxLogins = 2
  MaxAdds = 2
  MaxRevoked = 1
  MaxFaults = 1
SPECIFICATION FairSpec
INVARIANTS TypeOK ReauthExplained CursorsOwned JoinedIsTracked
PROPERTIES ReadAgain WithdrawalShown
CHECK_DEADLOCK FALSE
