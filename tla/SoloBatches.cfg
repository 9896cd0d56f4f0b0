\* Two rounds of a session, two windows with a night between them, one redelivery.
\* the second window is the last time there is: its batch is claimed and worked on
SPECIFICATION Spec
CONSTANTS
  a1 = a1
  a2 = a2
  Records = {a1, a2}
  SessionOf <- OneSession
  RoundOf <- TwoRounds
  None = None
  Windows = {1, 3}
  Nights = {2}
  Horizon = 3
  MaxVersion = 2
  MaxHolds = 1
  MaxRevision <- Revisions
INVARIANTS
  SubmittedOnce
PROPERTIES
  SubmittedAsAllowed
CHECK_DEADLOCK FALSE
