CONSTANTS
  Requests <- MCRequests
  Dispatches <- MCDispatches
  Payloads <- MCPayloads
  NewEvents <- MCEvents
  Evidence <- MCEvidence
  Statuses <- MCStatuses
  Rewrites <- MCRewrites
  Asked <- MCAsked
  Commands <- MCCommands
  Spans = {s1}
  MaxRuns = 1
  MaxWrites = 3
SPECIFICATION RecordSpec
INVARIANTS
  RecordTypeOK
  PassIsEarned
  FinalCoversPreflight
  PassLeavesNoGap
  GeneratedPassesPreflight
  FinalizedIsBacked
