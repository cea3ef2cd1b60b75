SPECIFICATION Spec
CONSTANTS
  Envs = {a, b}
  Compose = {b}
  MaxDeployments = 2
  MaxPort = 2
  Workers = {w1, w2}
  MaxStops = 1
  MaxDbErrors = 1
  MaxRestarts = 0
  Nothing = Nothing
SYMMETRY Symmetry
INVARIANTS
  FailedIsDown
  EveryAppIsStoppable
  OneLivePerEnvironment
  PortIsExclusive
  LiveIsVisible
CHECK_DEADLOCK FALSE
