SPECIFICATION Spec
CONSTANTS
  Seeds = {s1}
  Procs = {p1}
  None = None
  MaxRules = 2
  LastDay = 3
  MaxInterval = 1
  MaxPurges = 0
  MaxGen = 3
  Counts = {None, 3}
  Starts = {None, 1}
  Moves = {}
  Anchors = {"scheduled", "completion"}
  Ops = {"create", "complete", "skip", "stop", "split", "materialize", "cancel"}
  Overlap = FALSE
INVARIANT TypeOK
INVARIANT SeriesInOrder
INVARIANT DoneMovesOn
INVARIANT CountBoundsMembers
CHECK_DEADLOCK FALSE
