\* One process, fair threads; humans change the status of the incident.
SPECIFICATION FairSpec
CONSTANTS
  Workers = {w1}
  Incidents = {i1}
  Runs = {r1, r2}
  AutoRemediate = TRUE
  AutoMerge = TRUE
  UseTemporal = FALSE
  Buttons = {"remediate", "ack", "resolve", "reopen"}
  MaxDbErrors = 1
  MaxRestarts = 1
  MaxReruns = 0
  Nobody = Nobody
PROPERTIES
  GuardIsReleased
  RunIsRecorded
  ShippedFixResolves
CHECK_DEADLOCK FALSE
