SPECIFICATION FairSpec
CONSTANTS
  MaxTurns = 2
  MaxGens = 2
  MaxQueue = 1
  MaxRestarts = 1
  WebTurns = {2}
INVARIANTS OneTurnAtATime SettlementTruth QueueOnlyWhenOpen
PROPERTIES SettleOnce UnknownResolves
CHECK_DEADLOCK FALSE
