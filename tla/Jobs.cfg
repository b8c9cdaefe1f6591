CONSTANTS
  j1 = j1
  j2 = j2
  Jobs <- MCJobs
  Sources = {"full", "diff"}
  BaseOf <- MCBaseOf
  None = None
  Requests <- MCRequests
  Slots = 1
  Hazards = {"storage", "db", "lost", "agent", "partition", "late", "crash"}
  MaxFaults = 3
SPECIFICATION MCSpec
INVARIANTS Drained CleanExit Honest
PROPERTY EveryRowCloses
CHECK_DEADLOCK FALSE
