CONSTANTS
  Runs = {1, 2}
  Tasks = {"a", "b"}
  TaskOf <- MCTaskOf
  Targets = {1, 2}
  TargetsOf <- MCTargetsOf
  Chunks = {c1, c2}
  Deleters = {d1}
  Readers = {x1}
  Free = Free
  MaxBackups = 1
  TaskDeletion = "alone"
  Hazards = {"storage", "db", "restart"}
  MaxFaults = 1
SPECIFICATION RepoSpec
INVARIANTS SnapshotsComplete ReadersFinish NoCircularWait
SYMMETRY MCSymmetry
PROPERTIES PruneReclaims ImplementsSnapshotSets
CHECK_DEADLOCK FALSE
