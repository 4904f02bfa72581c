CONSTANTS
  NumWorkloads = 2
  RequestCount = 2
  Residual = 1
  StableSamples = 2
  MaxPeriodic = 1
  GuardEnabled = TRUE
  SampleMayFail = FALSE
SPECIFICATION Spec
INVARIANTS
  BilledExactly
  LabelledSamplesPure
  GpuRowsPure
