SPECIFICATION Spec
CONSTANTS
  a1 = a1
  a2 = a2
  a3 = a3
  NoAccount = NoAccount
  N = 1
  Accounts <- MCAccount
  AccountsOf <- MCSingle
  Refreshable <- MCRefreshable
  Budget = 3
  MaxFallback = 2
  Threshold = 2
  Probe = FALSE
  Pin = NoAccount
  Strict = FALSE
  OtherRequests = FALSE
PROPERTIES OneForcedRefresh
CHECK_DEADLOCK FALSE
