\* One organisation, two people, two threads in both consoles.
SPECIFICATION Spec
CONSTANTS
  Users = {u1, u2}
  Orgs = {o1}
  Invites = {i1}
  Keys = {k1}
  Threads = {t1, t2}
  Offered = {"owner", "admin"}
  OfferedNew = {"admin"}
  MaxAudits = 2
  MaxFaults = 1
  Nothing = Nothing
SYMMETRY Symmetry
INVARIANTS
  OrgKeepsAnOwner
  AuditIsAChain
PROPERTY
  RevokedStaysRevoked
CHECK_DEADLOCK FALSE
