\* One pool at a time on one trace, in all the contexts.
SPECIFICATION Spec
CONSTANTS
  Pools = {p1}
  Traces = {t1}
  Contexts <- MCContexts
  Sources <- MCSources
INVARIANTS TypeOK PassedPoolIsBacked FinalPoolSatisfiesFlow PlanClosesOnce
