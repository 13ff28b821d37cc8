SPECIFICATION Spec
CONSTANTS
  Procs = {p1, p2, p3, p4}
  p1 = p1
  p2 = p2
  p3 = p3
  p4 = p4
  None = None
  MaxToken = 1
  ReaperCrash = TRUE
SYMMETRY Symmetry
INVARIANTS MutualExclusion
CHECK_DEADLOCK FALSE
