SPECIFICATION FairSpec
CONSTANTS
  Requests = {r1, r2}
  Databases = {d1}
  Handlers = {h1, h2}
  NumParts = 1
  KeepFailed = FALSE
INVARIANT CleanNeedsAdmin
INVARIANT WorkspacesSwept
PROPERTY RunningSettles
PROPERTY ImplementsRestore
