SPECIFICATION FairSpec
CONSTANTS
  Envs = {a}
  Compose = {}
  MaxDeployments = 2
  MaxPort = 2
  Workers = {w1}
  MaxStops = 1
  MaxDbErrors = 0
  MaxRestarts = 1
  Nothing = Nothing
PROPERTY
  PollEnds
CHECK_DEADLOCK FALSE
