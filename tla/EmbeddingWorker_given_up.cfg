SPECIFICATION FairSpec
CONSTANTS
  Rows = 1
  MaxText = 2
  Bad = {}
  MaxAttempts = 2
  BatchMax = 2
  MaxFaults = 2
PROPERTY GivenUpIsSwept
CHECK_DEADLOCK FALSE
