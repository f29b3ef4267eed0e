\* A session whose lease ends before the lease of its lock.
SPECIFICATION TaskSpec
CONSTANTS
  Workers = {p1}
  SessionIds = {s1}
  Worktrees = {w1}
  ItemIds = {}
  Leases = {2}
  DefaultLease = 2
  MaxNow = 3
  MaxLocks = 1
  MaxItems = 0
  MaxCommits = 0
  Scopes <- MCScopes
  SourceUse = {"clean", "dirty"}
  Subcommands = {"create", "lock", "closeout-all"}
INVARIANTS CloseoutLeavesNoResidue
