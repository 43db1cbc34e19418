CONSTANTS
  None = None
  Clients = {k1}
  Pools = {p1}
  Conns = {c1}
SPECIFICATION FairSpec
PROPERTY LossIsReported
