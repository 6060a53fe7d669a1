\* One run; it hangs when its s_client fails before it connects.
SPECIFICATION FairSpec
CONSTANTS
  Runs = {r1}
  None = None
CHECK_DEADLOCK FALSE
PROPERTIES
  Returns
