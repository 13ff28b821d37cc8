SPECIFICATION Spec
CONSTANTS
  Jobs <- MCJobs
  Agents = {"a"}
  Kind <- MCAt
  Slots <- MCSlots1
  RetryAuto <- MCTrue
  DeleteAfterRun <- MCFalse
  EveryMs = 2
  RefireGap = 0
  Grace = 1
  Timeout = 1
  OneShotBackoff <- MCBackoff11
  RecurringBackoff <- MCBackoff1
  Concurrency = 2
  LeaseLoss = FALSE
  MaxTime = 7
  MaxRev = 1
  MaxChain = 3
  MaxRestarts = 0
  MaxOps = 0
INVARIANTS OneShotRetryBound
CHECK_DEADLOCK FALSE
