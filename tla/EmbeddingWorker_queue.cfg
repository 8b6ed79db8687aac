SPECIFICATION FairSpec
CONSTANTS
  Rows = 2
  MaxText = 2
  Bad = {2}
  MaxAttempts = 2
  BatchMax = 2
  MaxFaults = 2
INVARIANT WorkerTypeOK
INVARIANT FreshAtRest
PROPERTY NullIsEmbedded
CHECK_DEADLOCK FALSE
