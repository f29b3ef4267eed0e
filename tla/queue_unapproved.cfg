\* One command at a time on one task; transition --to ready and active without force.
SPECIFICATION Spec
CONSTANTS
  Procs = {p1}
  TaskIds = {t1}
  Trackings = {k1}
  ApplyStatuses = {"active"}
  TransitionTargets = {"ready", "active"}
  ForceFlags = {FALSE}
INVARIANTS RunningIsApproved
