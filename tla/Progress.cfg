CONSTANTS
  OccRoots = {"f"}
  CtlRoots = {}
  DogRoots = {"dog"}
  MaxFlips <- MCFlips
  MaxFaults = 1
  MaxRoutes = 1
  Overlap = FALSE
  Targeted = {}
SPECIFICATION ProgressSpec
INVARIANTS IncidentSafe
PROPERTIES NewestSlotAccounted OpeningPaged Answered AttemptsSettle WaitsEnd
CHECK_DEADLOCK FALSE
