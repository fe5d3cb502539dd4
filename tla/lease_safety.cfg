SPECIFICATION Spec
CONSTANTS
  t1 = t1
  t2 = t2
  t3 = t3
  w1 = w1
  w2 = w2
  Tasks <- MCTasks
  Workers <- MCWorkers
  WorkerOf <- MCWorkerOf
  NoTask = NoTask
  MaxResends = 1
SYMMETRY MCSymmetry
INVARIANTS TypeOK SharedExclusion
PROPERTIES ReleasesOnlyOwn ImplementsLease
CHECK_DEADLOCK FALSE
