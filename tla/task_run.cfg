\* Two runs at a time; the tree changes only between runs.
SPECIFICATION Spec
CONSTANTS
  Runs = {r1, r2}
  Commands <- MCCommands
  Shows <- MCShows
  Contents = {1, 2}
  Heads = {1, 2}
  Good <- MCGood
  Edits = {}
  Commits = {}
  Asked <- MCAsked
  MaxWorkers = 2
  Quiet = TRUE
SYMMETRY Symmetry
INVARIANTS TypeOK OrderIsKept ReportIsBacked BatchesAreHarmless
PROPERTIES GreenMeansGood
