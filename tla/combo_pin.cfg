SPECIFICATION Spec
CONSTANTS
  a1 = a1
  a2 = a2
  a3 = a3
  NoAccount = NoAccount
  N = 1
  Accounts <- MCPair
  AccountsOf <- MCPairShared
  Refreshable <- MCNone
  Budget = 3
  MaxFallback = 2
  Threshold = 2
  Probe = TRUE
  Pin = a1
  Strict = TRUE
  OtherRequests = TRUE
PROPERTIES StrictPinHonest
CHECK_DEADLOCK FALSE
