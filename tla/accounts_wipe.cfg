SPECIFICATION Spec
CONSTANTS
  r1 = r1
  r2 = r2
  m1 = m1
  m2 = m2
  All = All
  NoRow = NoRow
  NoModel = NoModel
  Reqs <- MCReqs
  Models <- MCModels
  Listed <- MCListed
  LastInstant = 2
  MaxFails = 2
  MaxAdmin = 1

PROPERTIES LocksSurvive
SYMMETRY MCSymmetry
CHECK_DEADLOCK FALSE
