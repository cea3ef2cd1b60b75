\* One process, which merges by itself; humans merge and ask for CI runs.
SPECIFICATION Spec
CONSTANTS
  Workers = {w1}
  Incidents = {i1}
  Runs = {r1, r2}
  AutoRemediate = TRUE
  AutoMerge = TRUE
  UseTemporal = FALSE
  Buttons = {"remediate", "merge", "rerun"}
  MaxDbErrors = 1
  MaxRestarts = 1
  MaxReruns = 1
  Nobody = Nobody
SYMMETRY Symmetry
INVARIANTS
  OneTicketPerIncident
  PastGateIsGreen
  LiveCodeIsRecorded
CHECK_DEADLOCK FALSE
