SPECIFICATION Spec
CONSTANTS
  c1 = c1
  c2 = c2
  c3 = c3
  c4 = c4
  w1 = w1
  w2 = w2
  Workers <- MCWorkers
  Calls <- MCPair
  WorkerOf <- MCPairWorkerOf
  Background <- MCTick
  Forced <- MCForced
  Direct <- MCNone
  Bare <- MCNone
  RefreshTries = 3
  NoCall = NoCall
  MaxPairs = 3
  LeaseTries = 4
  ReturnsData = TRUE
  Transient = TRUE
  Crashes = FALSE
  Revocable = FALSE
  Prompt = TRUE
INVARIANTS OnlyDeadGrantsRetired
CHECK_DEADLOCK FALSE
