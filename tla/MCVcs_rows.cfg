\* Three pull requests on two branches, merged and looked at by two threads.
SPECIFICATION Spec
CONSTANTS
  main = main
  dev = dev
  p1 = p1
  p2 = p2
  p3 = p3
  Branches = {main, dev}
  Prs = {p1, p2, p3}
  BaseOf <- MCBaseOf
  FromWorktree = {p1}
  Conflicts <- MCConflicts
  DefaultBranch = main
  Threads = {t1, t2}
  MaxLocks = 1
  MaxDbErrors = 1
  MaxRestarts = 1
  Nobody = Nobody
SYMMETRY Symmetry
INVARIANTS
  MergeIsRecorded
  MergedIntoItsBase
  HalfMergeHasAnOwner
  StaysClean
CHECK_DEADLOCK FALSE
