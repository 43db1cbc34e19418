CONSTANTS
  Main = main
  Refreshers = {r1, r2, r3}
  MaxTokens = 3
SPECIFICATION FairSpec
CHECK_DEADLOCK FALSE
INVARIANT TypeOK
INVARIANT SingleFlight
INVARIANT NoLoginAfterKill
INVARIANT ServesLoggedIn
PROPERTY TokenNeverGoesBack
PROPERTY RefreshEnds
