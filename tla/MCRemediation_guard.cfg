\* Two server processes, two clicks on one incident; the human gate is closed.
SPECIFICATION Spec
CONSTANTS
  Workers = {w1, w2}
  Incidents = {i1}
  Runs = {r1, r2}
  AutoRemediate = TRUE
  AutoMerge = FALSE
  UseTemporal = TRUE
  Buttons = {"remediate"}
  MaxDbErrors = 1
  MaxRestarts = 1
  MaxReruns = 0
  Nobody = Nobody
SYMMETRY Symmetry
INVARIANTS
  GuardAccounted
  OutcomeRecorded
  HumanGate
PROPERTIES
  ImplementsSingleFlight
CHECK_DEADLOCK FALSE
