SPECIFICATION FairSpec
CONSTANTS
  Jobs <- MCJobs
  Agents = {"a", "b"}
  Kind <- MCEvery
  Slots <- MCSlots12
  RetryAuto <- MCFalse
  DeleteAfterRun <- MCFalse
  EveryMs = 2
  RefireGap = 0
  Grace = 1
  Timeout = 1
  OneShotBackoff <- MCBackoff1
  RecurringBackoff <- MCBackoff1
  Concurrency = 2
  LeaseLoss = FALSE
  MaxTime = 3
  MaxRev = 2
  MaxChain = 0
  MaxRestarts = 1
  MaxOps = 1
INVARIANTS SingleOpenOccurrence DocumentValid
PROPERTIES NoBackfill OpenSettles UnknownHeals
CHECK_DEADLOCK FALSE
