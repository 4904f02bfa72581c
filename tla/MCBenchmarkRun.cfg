CONSTANTS
  NumWorkloads = 2
  RequestCount = 4
  Concurrency = 2
  MayRaise = TRUE
  GuardMayFail = TRUE
  MayInterrupt = TRUE
SPECIFICATION FairSpec
INVARIANTS
  TypeOK
  ExportConserved
  SummarisedIsComplete
  StatusTellsOutcome
PROPERTIES
  RunEnds
