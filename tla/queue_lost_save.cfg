\* Two commands at a time.
SPECIFICATION Spec
CONSTANTS
  Procs = {p1, p2}
  TaskIds = {t1, t2}
  Trackings = {k1}
  ApplyStatuses = {"active"}
  TransitionTargets = {}
  ForceFlags = {FALSE}
SYMMETRY Symmetry
INVARIANTS SavesAreKept
