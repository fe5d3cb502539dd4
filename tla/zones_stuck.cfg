SPECIFICATION FairSpec
CONSTANTS
  p1 = p1
  p2 = p2
  Passes <- MCPasses
  Procs <- MCProcs
  NoPass = 0
  Concurrency = 2
  Batch = 2
  MinSamples = 2
  SampleCap = 2
  MaxFails = 2
  MaxTroubles = 0
PROPERTIES ZoneForgiven
CHECK_DEADLOCK FALSE
