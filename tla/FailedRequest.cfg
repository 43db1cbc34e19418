CONSTANTS
  None = None
  cleaner = cleaner
  main = main
  Cleaner = cleaner
  Main = main
  Closers <- WithShutdown
  Conns = {c1}
  Handlers = {h1}
  Pingers = {g1}
  PoolMaxSize = 2
  IdleSize = 0
SPECIFICATION Spec
INVARIANT FailureIsAnswered
