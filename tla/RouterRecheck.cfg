SPECIFICATION Spec
CONSTANTS
  MaxTurns = 1
  MaxGens = 1
  MaxQueue = 1
  MaxRestarts = 0
  WebTurns = {1}
INVARIANTS ExitSettles
CHECK_DEADLOCK FALSE
