CONSTANTS
  None = None
  Records = {1, 2}
  Targets = {1}
  Main = 1
  Callers = {c1}
  Operators = {o1}
  Differential = FALSE
  MaxBackups = 0
  Reach = "idle"
  Hazards = {}
  MaxFaults = 0
SPECIFICATION Spec
SYMMETRY MCSymmetry
INVARIANT SuccessIsReplicated
CHECK_DEADLOCK FALSE
