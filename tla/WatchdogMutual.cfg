SPECIFICATION FairSpec
CONSTANTS
  OccRoots = {"f"}
  CtlRoots = {}
  DogRoots = {"dog"}
  MaxFlips <- MCFlips
  MaxFaults = 0
  MaxRoutes = 0
  Overlap = FALSE
  Targeted = {"f"}
PROPERTIES WatcherDeathPaged
CHECK_DEADLOCK FALSE
