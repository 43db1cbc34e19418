CONSTANTS
  Timeout = 6
  MaxStale = 4
SPECIFICATION Spec
INVARIANT TypeOK
INVARIANT Deadline
INVARIANT FullWait
