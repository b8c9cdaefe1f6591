CONSTANTS
  None = None
  Records = {1, 2, 3, 4}
  Targets = {1}
  Main = 1
  Callers = {c1, c2}
  Operators = {o1}
  Differential = TRUE
  MaxBackups = 1
  Reach = "idle"
  Hazards = {}
  MaxFaults = 0
SPECIFICATION Spec
INVARIANTS Restorable NoOrphans
PROPERTIES ImplementsCatalog LockedIsKept
CHECK_DEADLOCK FALSE
