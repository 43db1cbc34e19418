CONSTANTS
  None = None
  Conns = {c1}
  Links = {c1}
  Handlers = {h1}
  Pingers = {}
  Closers = {}
  PoolMaxSize = 1
  MaxRequests = 3
  Requests <- MCRequests
SPECIFICATION FairSpec
CHECK_DEADLOCK FALSE
INVARIANT TypeOK
INVARIANT EndedIsClosed
INVARIANT CleanWire
PROPERTY KeepsPromise
PROPERTY RequestEnds
PROPERTY ExecutorEnds
