CONSTANTS
  Callers = {"a", "b"}
  Routes = {"r", "s"}
  Default = "r"
  Plain = "plain"
  MaxGens = 2
SPECIFICATION ComponentsSpec
INVARIANTS EngineSafe WatchdogSafe IngressSafe  ExecutionSafe RegistrySafe 
PROPERTIES NothingReopens
CHECK_DEADLOCK FALSE
