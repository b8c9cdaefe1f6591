CONSTANTS
  j1 = j1
  j2 = j2
  Jobs = {j1}
  Sources = {"full", "diff"}
  BaseOf <- MCBaseOf
  None = None
  Requests <- MCRequests
  Slots = 1
  Hazards = {"storage", "db", "lost", "agent", "partition", "late", "crash"}
  MaxFaults = 0
SPECIFICATION JobsSpec
INVARIANT WholeChain
CHECK_DEADLOCK FALSE
