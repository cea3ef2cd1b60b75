\* One monitor with two forms, one traceback; a pass over the monitors and
\* one request that ticks.
SPECIFICATION FairSpec
CONSTANTS
  Monitors = {m1}
  Forms <- MCForms
  Measured <- MCMeasured
  WindowMinutes = 1
  Errors = {boom}
  Rules <- MCRules
  NewRules <- MCNewRules
  Steps <- MCSteps
  NewSteps <- MCNewSteps
  Rota <- MCRota
  Year = 2026
  Week = 1
  Evaluators = {e1}
  Tickers = {t1}
  MaxNow = 1
  MaxMeasures = 1
  MaxEvents = 3
  Nobody = Nobody
  Deleted = Deleted
  NoValue = NoValue
INVARIANT
  EscalationClimbs
PROPERTY
  RecoveryIsSurgical
  QuietClears
CHECK_DEADLOCK FALSE
