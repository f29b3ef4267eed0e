\* Two workers: with sessions, locks and one slug that comes and goes, or with two
\* worktrees, commits, a source checkout that people use, and one queue item.
SPECIFICATION TaskSpec
CONSTANTS
  Workers = {p1, p2}
  SessionIds = {s1, s2}
  Worktrees = {w1, w2}
  ItemIds = {i1}
  Leases = {1}
  DefaultLease = 1
  MaxNow = 1
  MaxLocks = 1
  MaxItems = 1
  MaxCommits = 1
  SourceUse = {"clean", "elsewhere"}
  Scopes <- MCScopes
  Subcommands = {"create", "dispatch", "merge", "remove", "cleanup-branch", "reset", "closeout-all", "close", "reconcile", "queue", "finalize", "heartbeat", "lock", "git-lock"}
SYMMETRY Symmetry
CONSTRAINTS SessionsOrWork OneSlug LocksOfOne OneBusy SourceAlone QueueAlone
INVARIANTS NoWorkLost CompletionIsBacked TaskTypeOK FreshSessionsAreSpared RetiredHoldNothing
PROPERTIES EditsAreKept
