SPECIFICATION FairSpec
CONSTANTS
  Services = {a}
  Checker = checker
  Handlers = {h1}
  MaxThreshold = 2
  MaxFailures = 2
  MaxLives = 1
  MaxCrashes = 1
  Exports = FALSE
INVARIANT RestartRemembers
PROPERTY PolledAgain
