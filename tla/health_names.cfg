SPECIFICATION Spec
CONSTANTS
  Services = {a, b}
  Checker = checker
  Handlers = {h1}
  MaxThreshold = 1
  MaxFailures = 1
  MaxLives = 2
  MaxCrashes = 0
  Exports = TRUE
SYMMETRY HealthSymmetry
INVARIANT MarksExact
PROPERTY TransitionsOnly
CHECK_DEADLOCK FALSE
