\* Two drafts, one of three projects by hand, releases, crashes and lost answers.
SPECIFICATION FairSpec
CONSTANTS
  Inputs <- SupplyInputs
  Candidates = {"a", "m"}
  Misfits = {"m"}
  Repos = {"r", "s"}
  Buffer = 2
  DailyLimit = 2
  RecentFailures = 1
  MaxDrafts = 2
  MaxTasks = 3
  MaxRules = 2
  MaxEdits = 1
  MaxMishaps = 1
INVARIANTS
  DraftCreatesOnce
  OneProcess
PROPERTIES
  FillsGapOnly
  CandidateSettles
CHECK_DEADLOCK FALSE
