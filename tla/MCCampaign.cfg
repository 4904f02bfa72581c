CONSTANTS
  Workers = {w1, w2}
  MaxAttempts = 2
  MaxRestarts = 1
  MaxPeriodic = 1
  Campaigns <- MCCampaigns
  Switches = {"prefix_caching"}
  Defaults <- MCDefaults
  HostGpus <- MCHostGpus
  Outcomes <- MCOutcomes
  MaxDeploys = 2
  LatencyFactor = 2
  DelayThreshold = 1
SYMMETRY MCSymmetry
SPECIFICATION Spec
INVARIANTS
  ComparedAsLabelled
  PrefixComparedAtParity
  BoundaryIsFirst
  RouterColumnsSound
