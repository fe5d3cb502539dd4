SPECIFICATION Spec
CONSTANTS
  t1 = t1
  t2 = t2
  t3 = t3
  w1 = w1
  w2 = w2
  Tasks <- MCTasks
  Workers <- MCOneWorker
  WorkerOf <- MCAlone
  NoTask = NoTask
  MaxResends = 0
INVARIANTS LocalExclusion
CHECK_DEADLOCK FALSE
