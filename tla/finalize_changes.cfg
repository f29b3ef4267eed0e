\* A finalize of a changed script, with its whole analysis among its options.
CONSTANTS
  Requests <- MCRequests
  Dispatches <- MCDispatches
  Payloads <- MCPayloads
  NewEvents <- MCEvents
  Evidence <- MCEvidence
  Statuses <- MCStatuses
  Rewrites <- MCRewrites
  Asked <- MCAsked
  Commands <- MCCommands
  Spans = {s1}
  MaxRuns = 1
  MaxWrites = 1
SPECIFICATION RecordSpec
INVARIANTS
  AnalysisIsHandedOn
