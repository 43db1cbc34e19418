CONSTANTS
  None = None
  connector = connector
  main = main
  Connector = connector
  Main = main
  Closers <- MCClosers
  Pingers = {}
  Conns = {c1}
  Handlers = {h1, h2}
  PoolMaxSize = 2
  IdleSize = 1
SPECIFICATION FairSpec
CHECK_DEADLOCK FALSE
PROPERTY CallEnds
PROPERTY ShutdownEnds
