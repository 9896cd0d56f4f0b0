\* Two projects over two slots, one of them attempted again, three attempts in all, three faults.
SPECIFICATION FairRunnerSpec
CONSTANTS
  Tasks = {p, q}
  MaxTurns = 1
  Tokens = {k1, k2, k3}
  NoToken = NoToken
  Capacity = 2
  MaxFaults = 3
  Retried = {p}
INVARIANTS
  ReplayNeverRefused
  NoResultDropped
PROPERTIES
  NoStartOverChildren
  AttemptsEnd
  ParkedReleased
