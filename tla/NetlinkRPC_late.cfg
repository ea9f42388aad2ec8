CONSTANTS
  Callers = {"volume"}
  Pids = {1}
  MaxCalls = 2
  Timely = FALSE
  Serial = TRUE
SPECIFICATION Spec
CHECK_DEADLOCK FALSE
INVARIANT SuccessMeansReplied
