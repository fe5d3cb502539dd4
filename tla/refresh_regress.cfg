SPECIFICATION Spec
CONSTANTS
  c1 = c1
  c2 = c2
  c3 = c3
  c4 = c4
  w1 = w1
  w2 = w2
  Workers <- MCWorkers
  Calls <- MCCalls
  WorkerOf <- MCWorkerOf
  Background <- MCTick
  Forced <- MCNone
  Direct <- MCNone
  Bare <- MCNone
  RefreshTries = 3
  NoCall = NoCall
  MaxPairs = 2
  LeaseTries = 1
  ReturnsData = FALSE
  Transient = FALSE
  Crashes = FALSE
  Revocable = FALSE
  Prompt = TRUE
INVARIANTS NewestPairKept
CHECK_DEADLOCK FALSE
