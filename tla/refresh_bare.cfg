SPECIFICATION Spec
CONSTANTS
  c1 = c1
  c2 = c2
  c3 = c3
  c4 = c4
  w1 = w1
  w2 = w2
  Workers <- MCWorkers
  Calls <- MCTwins
  WorkerOf <- MCTwinsWorkerOf
  Background <- MCNone
  Forced <- MCNone
  Direct <- MCBare
  Bare <- MCBare
  RefreshTries = 3
  NoCall = NoCall
  MaxPairs = 2
  LeaseTries = 1
  ReturnsData = FALSE
  Transient = TRUE
  Crashes = TRUE
  Revocable = FALSE
  Prompt = TRUE
INVARIANTS WorkerSerialized
CHECK_DEADLOCK FALSE
