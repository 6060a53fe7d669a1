\* Two overlapping runs, of which each may be killed.  A run may hang before a
\* connection reaches it (see GoServerDemoReturns.cfg).
SPECIFICATION FairSpec
CONSTANTS
  Runs = {r1, r2}
  None = None
  Partial = Partial
CHECK_DEADLOCK FALSE
INVARIANTS
  TypeOK
  BothDirections
  NothingCarriedOver
PROPERTIES
  ReturnsOnceConnected
