SPECIFICATION FairSpec
CONSTANTS
  MaxParts = 3
  NumDestinations = 3
  NumNotices = 1
  MaxAttempts = 3
  KeepFailedDumps = TRUE
INVARIANT RestorableIsWhole
INVARIANT BooksAgree
INVARIANT NothingLeft
PROPERTY ImplementsArtifact
PROPERTY Terminates
CHECK_DEADLOCK FALSE
