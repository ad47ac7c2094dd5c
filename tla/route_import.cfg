SPECIFICATION FairSpec
CONSTANTS
  Procs = {p1, p2}
  Profiles = {i1}
  Backends = {sing, shoes}
  Available = {sing, shoes}
  Default = sing
  None = none
  SocksProxy = FALSE
  Choosers = {c1}
  Ops = {"apply", "disable", "import"}
INVARIANT ActiveExists
INVARIANT RouteObeyed
PROPERTY GateReturns
