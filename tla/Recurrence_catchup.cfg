SPECIFICATION FairSpec
CONSTANTS
  Seeds = {s1}
  Procs = {p1}
  None = None
  MaxRules = 1
  LastDay = 2
  MaxInterval = 1
  MaxPurges = 0
  MaxGen = 2
  Counts = {None, 2}
  Starts = {None}
  Moves = {2}
  Anchors = {"scheduled", "completion"}
  Ops = {"create", "complete", "stop", "updateRule", "reschedule", "materialize", "crash"}
  Overlap = TRUE
PROPERTY CatchesUp
PROPERTY StopHolds
CHECK_DEADLOCK FALSE
