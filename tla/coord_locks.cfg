\* Two commands at a time, two sessions, a directory and a file below it, and
\* one item for the integration queue; no symmetry, for the liveness properties.
SPECIFICATION FairSpec
CONSTANTS
  Procs = {p1, p2}
  SessionIds = {s1, s2}
  Worktrees = {w1}
  ItemIds = {i1}
  Leases = {1}
  MaxNow = 2
  MaxLocks = 2
  MaxItems = 2
  Scopes <- MCNestedScopes
INVARIANTS ValidatesClean AuditMatchesLocks
PROPERTIES LockNeverRevives ClosedGainsNothing QueueOnlyGrows ImplementsLeaseLock GuardIsReturned LocksLapse
