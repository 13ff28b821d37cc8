SPECIFICATION MCSpec
CONSTANTS
  Visits = {"v", "m"}
  Pollers = {"p", "q"}
  First = "p"
  None = "none"
  Managed = {"m"}
  MaxAttempts = 2
  ManagedLimit = 2
  MaxGen = 3
  MaxVersion = 4
  MaxCrashes = 1
  PairGen = 2
  PairVersion = 2
INVARIANTS WriteAheadFence OneLiveRun CommitmentTruth CaseUsedOnce LimitHeld TailSealed
PROPERTIES TerminalIsFinal DispatchImplemented
CHECK_DEADLOCK FALSE
