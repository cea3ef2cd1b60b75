\* Two pages in two spaces and three forms; four jobs on tickets of one
\* organisation or none, one incident and its pull request.
SPECIFICATION Spec
CONSTANTS
  Pages = {p1, p2}
  Spaces = {s1, s2}
  Titles = {"Runbook"}
  Bodies = {"plain", "linked"}
  Mentions <- MCMentions
  Editors = {e1, e2}
  MaxEdits = 3
  NoPage = NoPage
  Deleted = Deleted
  Orgs = {o1}
  Prefixes = {"HULL", "OPS"}
  Hull = "HULL"
  Incidents = {i1}
  PullRequests = {pr1}
  Workers = {w1, w2}
  Asked = {"todo"}
  MaxJobs = 4
  Shared = Shared
  None = None
SYMMETRY Symmetry
INVARIANTS
  EveryBodyIsKept
  LinksMatchBody
  KeysAreUnique
  MergedTicketIsDone
CHECK_DEADLOCK FALSE
