SPECIFICATION Spec
CONSTANTS
  Projects = {p1, p2}
  Entities = {e1, e2, e3}
  Procs = {c1, c2}
  None = None
  MaxSeq = 2
SYMMETRY Symmetry
INVARIANT KeyUnique
INVARIANT NeverReissued
INVARIANT CounterAhead
