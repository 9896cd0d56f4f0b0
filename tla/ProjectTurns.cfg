\* A project of four turns, its failures and disputes succeeded by new questions.
SPECIFICATION SeriesSpec
CONSTANTS
  MaxTurns = 4
  First = "zero"
  Limit <- FewQuestions
  MaxCalls = 3
  MaxPlans = 2
  MaxRetries = 1
  MaxTroubles = 3
INVARIANTS
  LimitsKept
  KeptDraftHasContainer
PROPERTIES
  StartsFromSoundWork
  FailureSucceeded
CHECK_DEADLOCK FALSE
