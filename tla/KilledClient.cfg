CONSTANTS
  None = None
  connector = connector
  main = main
  Connector = connector
  Main = main
  Closers <- MCClosers
  Pingers = {}
  Conns = {c1}
  Handlers = {h1}
  PoolMaxSize = 2
  IdleSize = 1
SPECIFICATION Spec
CHECK_DEADLOCK FALSE
INVARIANT KilledHasNoConnection
