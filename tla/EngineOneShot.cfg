SPECIFICATION Spec
CONSTANTS
  Jobs <- MCJobs
  Agents = {"a"}
  Kind <- MCAt
  Slots <- MCSlots1
  RetryAuto <- MCTrue
  DeleteAfterRun <- MCFalse
  EveryMs = 2
  RefireGap = 0
  Grace = 3
  Timeout = 1
  OneShotBackoff <- MCBackoff1
  RecurringBackoff <- MCBackoff1
  Concurrency = 2
  LeaseLoss = TRUE
  MaxTime = 4
  MaxRev = 1
  MaxChain = 1
  MaxRestarts = 1
  MaxOps = 1
CONSTRAINT Disturbed
INVARIANTS SingleLiveTurn LedgerTruth
PROPERTIES SettleOnce InvokedOnce OneShotSucceedsOnce
CHECK_DEADLOCK FALSE
