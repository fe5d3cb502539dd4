CONSTANTS
  r1 = r1
  r2 = r2
  r3 = r3
  Requests <- MCRequests
  Abortable <- MCAbortable
  Limit = 1
SPECIFICATION FairSpec
CHECK_DEADLOCK FALSE
INVARIANTS
  TypeOK
  SlotsAccounted
  NoIdleSlot
  OnlyNamedLeaks
PROPERTIES
  ImplementsPool
  EveryWaiterServed
  SlotsComeBack
