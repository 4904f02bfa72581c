CONSTANTS
  Requests = {r1, r2, r3}
  NumWorkers = 2
  Name <- MCName
  Policy = "least_inflight"
  FailureThreshold = 2
  OpenTicks = 1
  MaxRetries = 1
  ErrorCodes = {"503", "502", "5xx", "4xx"}
  Latencies = {1}
  OneSecond = 1
  ErrorBodyMayFail = TRUE
  Readers = {r1, r2, r3}
SPECIFICATION Spec
PROPERTIES
  FewestActive
