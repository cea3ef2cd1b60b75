SPECIFICATION Spec
CONSTANTS
  Projects = {p1, p2}
  Orgs = {o1, o2}
  r1 = r1
  r2 = r2
  Repos = {r1, r2}
  Declares <- MCDeclares
  Forms = {f1, f2}
  Runs = {a1}
  MaxFaults = 0
  MaxDeletes = 0
  MaxAsked = 0
  MaxEvents = 0
  Nothing = Nothing
INVARIANT EachOrgItsOwn
SYMMETRY Symmetry
CHECK_DEADLOCK FALSE
