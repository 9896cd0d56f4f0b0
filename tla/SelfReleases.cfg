SPECIFICATION FairSpec
CONSTANTS
  NJobs = 2
  MaxCrashes = 2
  MaxDeaths = 1
  MaxEdits = 2
  MaxTroubles = 2
INVARIANTS LiveIsMerged AppliedToItsBase
PROPERTIES RunnerReturns ReleaseEnds
CHECK_DEADLOCK FALSE
