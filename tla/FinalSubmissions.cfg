\* One question of two rounds, from its first claim to the export of its records.
SPECIFICATION FairSubmissionSpec
CONSTANTS
  Rounds = 2
  Opaque <- SecondOpaque
  MaxRequeues = 2
  MaxMishaps = 1
  MaxDownloads = 2
INVARIANTS
  RegisteredIsSound
  SealedAsArchived
PROPERTIES
  ScoredIsRegistered
CHECK_DEADLOCK FALSE
