SPECIFICATION FairSpec
CONSTANTS
  a1 = a1
  a2 = a2
  a3 = a3
  NoAccount = NoAccount
  N = 2
  Accounts <- MCAccount
  AccountsOf <- MCSingle
  Refreshable <- MCRefreshable
  Budget = 2
  MaxFallback = 2
  Threshold = 2
  Probe = FALSE
  Pin = NoAccount
  Strict = FALSE
  OtherRequests = TRUE
PROPERTIES RequestAnswered RunsEnd
CHECK_DEADLOCK FALSE
