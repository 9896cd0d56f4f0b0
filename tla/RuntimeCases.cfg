\* Two business checks and a setup of two texts, two versions each of the source and of the
\* regression context, which change and may change back.
SPECIFICATION Spec
CONSTANTS
  Checks <- TwoChecks
  Setup = "setup"
  Texts <- TwoTexts
  None = None
  MaxSource = 2
  MaxRegression = 2
  MaxExecutions = 3
  MaxChanges = 2
INVARIANTS
  ReportsBacked
PROPERTIES
  NoBlindReplay
