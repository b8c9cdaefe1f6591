CONSTANTS
  Runs = {2, 3}
  Tasks = {"a", "b"}
  TaskOf <- MCTaskOf
  Targets = {1}
  TargetsOf <- MCTargetsOf
  Chunks = {c1, c2}
  Deleters = {d1}
  Readers = {x1}
  Free = Free
  MaxBackups = 1
  TaskDeletion = "alone"
  Hazards = {"storage", "segment"}
  MaxFaults = 1
SPECIFICATION RepoSpec
INVARIANT ReadersFinish
CHECK_DEADLOCK FALSE
