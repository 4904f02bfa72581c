CONSTANTS
  Requests = {r1, r2}
  NumWorkers = 3
  Name <- MCSharedName
  Policy = "round_robin"
  FailureThreshold = 1
  OpenTicks = 1
  MaxRetries = 1
  ErrorCodes = {"503", "502", "5xx", "4xx"}
  Latencies = {1}
  OneSecond = 1
  ErrorBodyMayFail = TRUE
  Readers = {r1}
SPECIFICATION FairSpec
INVARIANTS
  NoRepeatedWorker
PROPERTIES
  RetryOnlyBeforeResponse
  DeliverySpec
  InflightDrains
