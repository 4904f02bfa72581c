CONSTANTS
  NumWorkloads = 2
  RequestCount = 2
  Residual = 1
  StableSamples = 2
  MaxPeriodic = 2
  GuardEnabled = TRUE
  SampleMayFail = TRUE
SPECIFICATION Spec
INVARIANTS
  NoEarlierTraffic
