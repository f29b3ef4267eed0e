\* One run whose ordered command changes the declared inputs before a
\* validation that is cached.
SPECIFICATION Spec
CONSTANTS
  Runs = {r1}
  Commands <- MCCommands
  Shows <- MCShows
  Contents = {1, 2}
  Heads = {1}
  Good <- MCGood
  Edits = {"merge"}
  Commits = {}
  Asked <- MCEditAsked
  MaxWorkers = 1
  Quiet = TRUE
PROPERTIES GreenMeansGood
