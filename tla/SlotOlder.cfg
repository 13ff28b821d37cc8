SPECIFICATION FairSpec
CONSTANTS
  Slots <- MCSlots
  RefireGap = 0
  MaxBackfill = 2
  AppendFails = FALSE
  Catchups = {TRUE}
  MaxTime = 4
  MaxSessions = 2
PROPERTIES OlderSlotsAccounted
CHECK_DEADLOCK FALSE
