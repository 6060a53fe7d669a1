\* Two hybrid-tls runs: the context ends every handshake.
SPECIFICATION FairSpec
CONSTANTS
  Runs = {h1, h2}
  HybridRuns = {h1, h2}
  None = None
  Partial = Partial
CHECK_DEADLOCK FALSE
PROPERTIES
  Returns
