CONSTANTS
  None = None
  cleaner = cleaner
  main = main
  Cleaner = cleaner
  Main = main
  Closers <- WithShutdown
  Conns = {c1, c2}
  Handlers = {h1}
  Pingers = {g1}
  PoolMaxSize = 1
  IdleSize = 1
SYMMETRY Symmetry
SPECIFICATION Spec
CHECK_DEADLOCK FALSE
INVARIANT TypeOK
INVARIANT OneToken
INVARIANT ExclusiveLease
INVARIANT CloseOnce
INVARIANT NoLostConnection
INVARIANT ShutdownLeavesNothing
PROPERTY ClosedIsFinal
PROPERTY CleanSparesLeased
PROPERTY ImplementsLease
