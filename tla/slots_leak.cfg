CONSTANTS
  r1 = r1
  r2 = r2
  r3 = r3
  Requests <- MCRequests
  Abortable <- MCAbortable
  Limit = 1
SPECIFICATION Spec
CHECK_DEADLOCK FALSE
INVARIANT
  AlwaysReleased
