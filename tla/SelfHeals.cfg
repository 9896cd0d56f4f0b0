SPECIFICATION FairHealSpec
CONSTANTS
  Faults = {a, b}
  Transport = {a}
  Known = {a}
  Retryable = {a}
  Alike = {a, b}
  MaxJobs = 9
  MaxReleases = 1
  MaxChanges = 1
  MaxMishaps = 1
INVARIANTS RequestSentOnce DiagnosedOnce
PROPERTIES FaultAnswered
CHECK_DEADLOCK FALSE
