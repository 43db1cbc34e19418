CONSTANTS
  None = None
  cleaner = cleaner
  main = main
  Cleaner = cleaner
  Main = main
  Closers <- WithoutShutdown
  Conns = {c1, c2}
  Handlers = {h1}
  Pingers = {}
  PoolMaxSize = 1
  IdleSize = 1
SPECIFICATION FairSpec
PROPERTY CleanIsPeriodic
