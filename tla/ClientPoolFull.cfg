CONSTANTS
  None = None
  connector = connector
  main = main
  Connector = connector
  Main = main
  Closers <- MCClosers
  Pingers = {}
  Conns = {c1, c2}
  Handlers = {h1, h2}
  PoolMaxSize = 1
  IdleSize = 1
SYMMETRY Symmetry
SPECIFICATION Spec
CHECK_DEADLOCK FALSE
INVARIANT TypeOK
INVARIANT MaxConnections
INVARIANT NoLostConnection
INVARIANT CloseOnce
PROPERTY ImplementsLease
