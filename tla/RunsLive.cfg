CONSTANTS
  None = None
  Records = {1, 2}
  Targets = {1, 2}
  Main = 1
  Callers = {c1}
  Operators = {o1}
  Differential = TRUE
  MaxBackups = 1
  Reach = "finished"
  Hazards = {"storage", "restart"}
  MaxFaults = 2
SPECIFICATION FairSpec
INVARIANT NamesACopy
PROPERTY RunCloses
CHECK_DEADLOCK FALSE
