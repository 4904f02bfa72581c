CONSTANTS
  NumWorkloads = 1
  RequestCount = 3
  Concurrency = 2
  MayRaise = TRUE
  GuardMayFail = FALSE
  MayInterrupt = FALSE
SPECIFICATION Spec
INVARIANTS
  UnexpectedFailuresRetained
