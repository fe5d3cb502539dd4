SPECIFICATION Spec
CONSTANTS
  w1 = w1
  w2 = w2
  Workers <- MCWorkers
  Threshold = 2
  DeadThreshold = 3
  MaxFails = 3
  MaxAdmin = 1
INVARIANTS TypeOK CounterEnds
PROPERTIES EnabledByAnswer
CHECK_DEADLOCK FALSE
