\* A hybrid-tls run beside two interop-tls runs; each may be killed.
SPECIFICATION Spec
CONSTANTS
  Runs = {h1, i1, i2}
  HybridRuns = {h1}
  None = None
  Partial = Partial
CHECK_DEADLOCK FALSE
INVARIANTS
  TypeOK
  GoClientMeetsOwnServer
  KindsDoNotCollide
  NothingLeft
  FilesOutliveUse
