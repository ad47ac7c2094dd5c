SPECIFICATION FairSpec
CONSTANTS
  NoDatabase = NoDatabase
  Databases = {d1, d2}
  Permanent = {d1, d2}
  Managed = {}
  Entries = {}
  Handlers = {h1}
  MaxParallel = 2
  Mode = "interval"
  Ops = {"backup", "cancel", "toggle"}
INVARIANT NoOverlap
INVARIANT PipelineHoldsClaim
PROPERTY ImplementsLifecycle
PROPERTY EveryRequestServed
