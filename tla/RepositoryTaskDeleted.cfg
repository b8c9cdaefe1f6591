CONSTANTS
  Runs = {1, 2, 3}
  Tasks = {"a", "b"}
  TaskOf <- MCTaskOf
  Targets = {1}
  TargetsOf <- MCTargetsOf
  Chunks = {c1, c2}
  Deleters = {d1}
  Readers = {}
  Free = Free
  MaxBackups = 1
  TaskDeletion = "any"
  Hazards = {}
  MaxFaults = 0
SPECIFICATION RepoSpec
INVARIANT SnapshotsComplete
CHECK_DEADLOCK FALSE
