\* Two claim requests in flight over two projects of one turn each and one slot.
SPECIFICATION Spec
CONSTANTS
  Tasks = {t1, t2}
  Tokens = {k1, k2}
  NoToken = NoToken
  Handlers = {h1, h2}
  MaxTurns = 1
  MaxConcurrency = 1
SYMMETRY Symmetry
CONSTRAINT OpenAndIncluded
INVARIANTS
  RunningBound
PROPERTIES
  DrainRespected
