CONSTANTS
  None = None
  Runs = {1}
  Viewers = {v1, v2}
  Buffer = 2
  MaxLines = 2
  Missing = Missing
  Processes = {1, 2}
  Configs <- MCBackintConfigs
  MaxAsks = 3
  MaxBatch = 2
  MaxEBID = 2
  MaxCallFaults = 1
  Gone = Gone
  Targets = {1, 2}
  MaxEdits = 2
  MaxDays = 1
  MaxUploadFaults = 1
  Nobody = Nobody
  Callers = {1, 2}
  Places = {1, 2}
  MaxCommands = 2
  MaxChanges = 1
  MaxAttempts = 2
  MaxLosses = 1
  Absent = Absent
  Channels = {1, 2}
  Subscription <- MCSubscription
  Threshold = 2
  RPO = 1
  Reset = 2
  MaxRuns = 3
  MaxHours = 4
  MaxSwitches = 3
  MaxAlertFaults = 1
SPECIFICATION MCSpec
INVARIANTS NoGap BackintKeepsWord TransferHonest SuccessLeadsToCopies AnswerIsCurrent AlertsAreDue
PROPERTY PeersRelease
CHECK_DEADLOCK FALSE
