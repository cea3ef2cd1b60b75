SPECIFICATION Spec
CONSTANTS
  Projects = {p1, p2}
  Orgs = {o1, o2}
  r1 = r1
  r2 = r2
  Repos = {r1, r2}
  Declares <- MCDeclares
  Forms = {f1, f2}
  Runs = {a1}
  MaxFaults = 1
  MaxDeletes = 1
  MaxAsked = 1
  MaxEvents = 2
  Nothing = Nothing
INVARIANTS  RunsOwnCode  AgentsKeepTheirWork
PROPERTY DeletedStaysDeleted
SYMMETRY Symmetry
CHECK_DEADLOCK FALSE
