SPECIFICATION Spec
CONSTANTS
  Contents = {"empty", "edit", "good", "oddnames", "badtimes", "shapeless"}
  Default = "empty"
  NoFile = "nofile"
  Edits = {"edit"}
  Edited = {"users", "compression", "state", "profiles", "databases"}
  Refuses <- RefusedBy
  Handlers = {"h1"}
  MaxFaults = 1
  MaxCrashes = 1
  MaxEdits = 1
  Imports = {"good", "oddnames", "badtimes", "shapeless"}
  Malformed = {"shapeless"}
  MaxImports = 2
INVARIANT Installed
INVARIANT RolledBack
INVARIANT StartsAgain
PROPERTY AckedSurvives
CHECK_DEADLOCK FALSE
