CONSTANTS
  Callers = {"volume", "rate"}
  Pids = {1, 2}
  MaxCalls = 2
  Timely = TRUE
  Serial = TRUE
SPECIFICATION Spec
CHECK_DEADLOCK FALSE
INVARIANT TypeOK
PROPERTY ImplementsRemoteCall
