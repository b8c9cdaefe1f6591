CONSTANTS
  None = None
  Absent = None
  Clients = {1, 2}
  MaxRequests = 4
  MaxTime = 2
  NodeIds = {1, 2, 3}
  LocalNode = 1
  NodeNames = {"a", "b"}
  Installs = {1}
  OfflineGrace = 1
  TokenGrace = 1
  TTLs = {1}
  Rate = 1
  RateWindow = 1
  Keep = 0
  TargetIds = {1, 2}
  TargetAsks <- MCTargetAsks
  Secrets <- MCSecrets
  Sessions = {1}
  SessionTTL = 0
  MaxChanges = 1
  UserIds = {1}
  UserNames = {"a"}
  Contacts = {"x", "y"}
  Profiles <- MCProfiles
  Codes = {"r"}
  Passkeys = {"k"}
  MaxDevices = 1
  DeviceTTL = 0
  ChallengeTTL = 0
  Gear <- MCGear
  MaxLength = 7
  MaxRead = 3
  MinSize = 2
  AvgSize = 4
  MaxSize = 6
  SmallBits = 2
  LargeBits = 1
  HashBits = 3
  Tiers <- MCTiers
  Days <- MCDays
  PeriodOf <- MCPeriodOf
  Policies <- MCPolicies
  MaxBackupsMade = 4
  MaxLockings = 1
  Order <- MCOrder
  ParentOf <- MCParentOf
  Exclusions <- MCExclusions
  MaxWrites = 3
  MaxRefusals = 1
SPECIFICATION MCSpec
INVARIANTS OneInstall HonestStatus FactorsConsistent SplitIsOfContent GenerationsKept DifferentialRestores
PROPERTY HealthSettles
CHECK_DEADLOCK FALSE
