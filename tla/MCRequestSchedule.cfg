CONSTANTS
  Entries <- MCEntries
  MaxModelLen = 8
  Failures <- MCFailures
  Breaks <- MCBreaks
  Timeout = 1
  MaxLines = 1
  MaxLag = 1
SPECIFICATION FairSpec
INVARIANTS
  TimingsAddUp
  DelayBlamesPool
  AchievedRateSound
  SummaryAddsUp
PROPERTIES
  PlanSpec
