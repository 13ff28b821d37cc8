SPECIFICATION FairSpec
CONSTANTS
  Procs = {p1, p2, p3}
  p1 = p1
  p2 = p2
  p3 = p3
  None = None
  MaxToken = 1
  ReaperCrash = TRUE
INVARIANTS MutualExclusion
PROPERTIES NoWrongfulSeizure DeadOwnerReaped
CHECK_DEADLOCK FALSE
