\* One turn over its attempts, two releases and two regression suites.
SPECIFICATION Spec
CONSTANTS
  None = None
  MaxAttempts = 4
  MaxReleases = 2
  MaxSuites = 2
  FlawSets <- FewFlaws
  MaxFlawed = 2
INVARIANTS
  ResultOfOnePiece
  DisputedNeverArchived
  RefusedNotOffered
PROPERTIES
  KnownQuestionKept
CHECK_DEADLOCK FALSE
