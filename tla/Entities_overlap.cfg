SPECIFICATION Spec
CONSTANTS
  Ids = {a, b}
  Procs = {p1, p2}
  None = None
  Keep = Keep
  BlankLine = BlankLine
  t1 = t1
  t2 = t2
  Statuses = {"open", "done"}
  Texts = {t1}
  Keys = {k}
  Writes <- WritesOfOneField
  Parents = {a, b}
  Clear = {}
  Edits <- EditsOfOneField
  Retention = 1
  MaxEdits = 2
SYMMETRY EntitySymmetry
INVARIANT EntitiesTypeOK
INVARIANT StampMatchesDone
INVARIANT NoParentLoop
INVARIANT OnePerKey
PROPERTY HistoryIsComplete
PROPERTY TrashedIsFrozen
CHECK_DEADLOCK FALSE
