\* Two applications, each followed by the tailers or tees of two processes.
SPECIFICATION Spec
CONSTANTS
  d1 = d1
  d2 = d2
  p1 = p1
  p2 = p2
  w1 = w1
  w2 = w2
  Deployments = {d1, d2}
  Compose = {d2}
  Projects = {p1, p2}
  ProjectOf <- MCProjectOf
  Workers = {w1, w2}
  Readers = {r1, r2}
  Scripts <- MCScripts
  OwnPlaces = {"cart.py:12"}
  MaxDeployed = 1
  MaxCapture = 1
  MaxReopens = 1
  MaxFaults = 1
  Nothing = Nothing
SYMMETRY Symmetry
INVARIANTS
  TypeOK
  EveryTracebackCounts
  OneOpenPerSignature
  NumbersAreUnique
CHECK_DEADLOCK FALSE
