CONSTANTS
  Requests = {r1, r2, r3}
  NumWorkers = 2
  Name <- MCName
  Policy = "latency_aware"
  FailureThreshold = 2
  OpenTicks = 1
  MaxRetries = 1
  ErrorCodes = {"5xx", "4xx"}
  Latencies = {1, 3}
  OneSecond = 2
  ErrorBodyMayFail = FALSE
  Readers = {r1, r2, r3}
SPECIFICATION Spec
SYMMETRY MCSymmetry
INVARIANTS
  ColdStartEven
PROPERTIES
  LowestLatency
