SPECIFICATION Spec
CONSTANTS
  c1 = c1
  c2 = c2
  c3 = c3
  c4 = c4
  w1 = w1
  w2 = w2
  Workers <- MCWorkers
  Calls <- MCTrio
  WorkerOf <- MCTrioWorkerOf
  Background <- MCNone
  Forced <- MCNone
  Direct <- MCTrioDirect
  Bare <- MCBare
  RefreshTries = 3
  NoCall = NoCall
  MaxPairs = 2
  LeaseTries = 1
  ReturnsData = FALSE
  Transient = TRUE
  Crashes = TRUE
  Revocable = FALSE
  Prompt = TRUE
INVARIANTS TypeOK SingleFlight
PROPERTIES RetryUsesAnotherToken
CHECK_DEADLOCK FALSE
