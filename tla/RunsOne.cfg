CONSTANTS
  None = None
  Records = {1, 2, 3}
  Targets = {1}
  Main = 1
  Callers = {c1, c2}
  Operators = {o1}
  Differential = TRUE
  MaxBackups = 1
  Reach = "finished"
  Hazards = {"db", "storage", "shutdown", "restart", "age"}
  MaxFaults = 2
SPECIFICATION Spec
SYMMETRY MCSymmetry
INVARIANT OneRun
CHECK_DEADLOCK FALSE
