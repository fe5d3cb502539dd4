SPECIFICATION Spec
CONSTANTS
  a1 = a1
  a2 = a2
  a3 = a3
  NoAccount = NoAccount
  N = 2
  Accounts <- MCAccounts
  AccountsOf <- MCShared
  Refreshable <- MCRefreshable
  Budget = 3
  MaxFallback = 3
  Threshold = 2
  Probe = FALSE
  Pin = NoAccount
  Strict = FALSE
  OtherRequests = FALSE
INVARIANTS TypeOK TailHasShare SlowIsNotDead
PROPERTIES ExcludedStaysOut
CHECK_DEADLOCK FALSE
