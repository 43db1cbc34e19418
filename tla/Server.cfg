CONSTANTS
  None = None
  Clients = {k1, k2}
  Pools = {p1, p2}
  Conns = {c1, c2}
SYMMETRY Symmetry
SPECIFICATION Spec
CHECK_DEADLOCK FALSE
INVARIANT TypeOK
INVARIANT Reachable
INVARIANT RegistrationKept
PROPERTY CollectSparesConnected
PROPERTY SteadyReported
