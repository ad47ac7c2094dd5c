SPECIFICATION FairSpec
CONSTANTS
  Services = {a}
  Checker = checker
  Handlers = {h1}
  MaxThreshold = 1
  MaxFailures = 1
  MaxLives = 1
  MaxCrashes = 0
  Exports = TRUE
PROPERTY PolledAgain
CHECK_DEADLOCK FALSE
