\* Two commands at a time on one task, with every target of transition that ends,
\* blocks, readies or starts a task, forced or not.
SPECIFICATION Spec
CONSTANTS
  Procs = {p1, p2}
  TaskIds = {t1}
  Trackings = {k1, k2}
  ApplyStatuses = {"active"}
  TransitionTargets = {"ready", "active", "done", "blocked"}
  ForceFlags = {TRUE, FALSE}
SYMMETRY Symmetry
INVARIANTS OnlyTransitionBypasses CompletedHasRecord TaskIdsUnique SavesAreKeptUnlessOvertaken
PROPERTIES StepsAreLegal EndsAreTold
