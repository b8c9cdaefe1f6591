CONSTANTS
  None = None
  Tasks = {1, 2, 3}
  Names = {"a", "b", "c"}
  Inputs <- MCInputs
  Batches <- MCBatches
  NameLists <- MCNameLists
  Exports <- MCExports
  First <- MCFirst
  Overlap = FALSE
  FaultKinds = {"db", "assoc", "storage", "crash"}
  MaxFaults = 1
  MaxEdits = 3
  MaxRuns = 1
SPECIFICATION FairTasksSpec
INVARIANTS ScheduleFollowsRows ImportLinks
PROPERTY CascadeEnds
CHECK_DEADLOCK FALSE
