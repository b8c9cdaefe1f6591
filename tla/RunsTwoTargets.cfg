CONSTANTS
  None = None
  Records = {1, 2, 3}
  Targets = {1, 2}
  Main = 1
  Callers = {c1}
  Operators = {o1}
  Differential = FALSE
  MaxBackups = 1
  Reach = "idle"
  Hazards = {}
  MaxFaults = 0
SPECIFICATION Spec
SYMMETRY MCSymmetry
INVARIANT NoOrphans
CHECK_DEADLOCK FALSE
