\* One command at a time, which may die between two steps; two groups, one agent.
SPECIFICATION Spec
CONSTANTS
  Procs = {p1}
  Writers = {p1}
  Groups = {g1, g2}
  Agents = {"a1"}
  Founded = {}
  Leases = {1}
  MaxNow = 1
  MaxLocks = 2
  MaxMessages = 2
  Scopes <- MCScopes
SYMMETRY Symmetry
CONSTRAINTS LocksOrMail MailInOneGroup HeartbeatsAlone
INVARIANTS TypeOK WarnsUntilAcked OverlapsAreForced ReportedIsKept
