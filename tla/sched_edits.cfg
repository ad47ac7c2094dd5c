SPECIFICATION Spec
CONSTANTS
  NoDatabase = NoDatabase
  Databases = {d1, d2}
  Permanent = {d1}
  Managed = {d2}
  Entries = {e1}
  Handlers = {h1}
  MaxParallel = 2
  Mode = "cron"
  Ops = {"backup", "cancel", "toggle", "create", "update", "delete", "route", "import"}
PROPERTY ImplementsGate
PROPERTY RegistryStillDuringBatch
PROPERTY CyclesSpaced
