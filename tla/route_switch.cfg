SPECIFICATION Spec
CONSTANTS
  Procs = {p1, p2, p3}
  Profiles = {i1, i2}
  Backends = {sing, shoes}
  Available = {sing, shoes}
  Default = sing
  None = none
  SocksProxy = FALSE
  Choosers = {c1}
  Ops = {"apply", "disable"}
SYMMETRY Symmetry
INVARIANT NoStrayCore
INVARIANT ClientFollowsRoute
INVARIANT RouteKept
PROPERTY ReadKeepsRoute
