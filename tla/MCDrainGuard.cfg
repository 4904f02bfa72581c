CONSTANTS
  Scrapes = {s1, s2}
  NumWorkers = 2
  Namings <- MCNamings
  Silences <- MCSilences
  MaxLoad = 1
  Loads <- MCLoads
  StableSamples = 2
SPECIFICATION FairSpec
INVARIANTS
  DrainedMeansIdle
  BlindReplicaBlocksGuard
PROPERTIES
  GuardEnds
