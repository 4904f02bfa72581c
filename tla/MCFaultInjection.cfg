CONSTANTS
  Requests = {r1, r2, r3, r4}
  NumWorkers = 2
  Name <- MCName
  Policy = "round_robin"
  FailureThreshold = 2
  OpenTicks = 1
  MaxRetries = 1
  ErrorCodes = {"503", "502", "4xx"}
  Latencies = {1}
  OneSecond = 1
  ErrorBodyMayFail = FALSE
  Readers = {r1, r2, r3, r4}
  Faulty = 2
  FailEvery = 2
SPECIFICATION FaultSpec
SYMMETRY MCSymmetry
INVARIANTS
  RoundRobinEven
  InjectedOnSchedule
  InjectedShowsInRouter
  MaskedByRetry
