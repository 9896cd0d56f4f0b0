\* A project with a history and two slots: the old question may be validated
\* again beside the current one, and two claims compete for them.
SPECIFICATION HistorySpec
CONSTANTS
  Tasks = {t1}
  Tokens = {k1, k2}
  NoToken = NoToken
  Handlers = {h1, h2}
  MaxTurns = 2
  MaxConcurrency = 2
SYMMETRY Symmetry
CONSTRAINT SameConfig
INVARIANTS
  OneRunningPerTask
  OnlyHistoricalBehind
PROPERTIES
  ImplementsAttempts
