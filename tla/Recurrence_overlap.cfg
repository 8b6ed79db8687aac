SPECIFICATION Spec
CONSTANTS
  Seeds = {s1}
  Procs = {p1, p2}
  None = None
  MaxRules = 2
  LastDay = 1
  MaxInterval = 1
  MaxPurges = 1
  MaxGen = 1
  Counts = {None}
  Starts = {None}
  Moves = {}
  Anchors = {"scheduled", "completion"}
  Ops = {"create", "recreate", "complete", "skip", "split", "trash", "purge"}
  Overlap = TRUE
SYMMETRY Symmetry
INVARIANT OneActiveRulePerSeries
INVARIANT SeriesClosed
CHECK_DEADLOCK FALSE
