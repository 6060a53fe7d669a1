\* Two hybrid-tls runs: the second may connect to the s_server of the first.
SPECIFICATION FairSpec
CONSTANTS
  Runs = {h1, h2}
  HybridRuns = {h1, h2}
  None = None
  Partial = Partial
CHECK_DEADLOCK FALSE
INVARIANTS
  ConnectsToOwnServer
