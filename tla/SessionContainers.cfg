\* A question with a repair and a continuation, one more than its quota, then two
\* questions, each in a new container.
SPECIFICATION SessionSpec
CONSTANTS
  LastTurn = 5
  Root <- ThreeQuestions
  Text <- Words
  Gateway = {3}
  MaxLogical = 2
  MaxCalls = 2
  MaxRequests = 2
INVARIANTS
  ResultsAttributed
  RemovedAfterExport
PROPERTIES
  ExitLosesNothing
  ImplementsPrompts
