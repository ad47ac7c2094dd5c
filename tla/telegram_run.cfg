SPECIFICATION FairSpec
CONSTANTS
  Callers = {"bot", "worker", "tester", "pipeline"}
  Nobody = "nobody"
  Kind <- KindOf
  MaxAttempts = 2
  Bot = "bot"
  Worker = "worker"
  Chats = {"c1"}
  DBs = {"d1"}
  Updates <- SomeUpdates
  MaxUpdates = 2
  Retention = 2
  LastMonth = 3
  MaxRecords = 2
  Readers = {"r1"}
  NumDests = 2
  MaxJobs = 3
  MaxCrashes = 1
INVARIANT UpdatesKept
INVARIANT QuietIsIdle
INVARIANT UploadWhole
INVARIANT SummaryComplete
PROPERTY OnlyAdminsDecide
PROPERTY Served
