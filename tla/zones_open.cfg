SPECIFICATION Spec
CONSTANTS
  p1 = p1
  p2 = p2
  Passes <- MCPasses
  Procs <- MCProcs
  NoPass = 0
  Concurrency = 1
  Batch = 1
  MinSamples = 1
  SampleCap = 2
  MaxFails = 1
  MaxTroubles = 1
INVARIANTS ClusterSingleton
CHECK_DEADLOCK FALSE
