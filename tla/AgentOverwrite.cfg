CONSTANTS
  n1 = n1
  n2 = n2
  a1 = a1
  a2 = a2
  a3 = a3
  s1 = s1
  s2 = s2
  s3 = s3
  None = None
  Nodes <- MCOneNode
  Agents <- MCOneAgent
  Cmds = {1}
  Slots = {s1, s2}
  NodeOf <- MCNodeOf
  Target <- MCTarget
  FaultKinds = {}
  MaxFaults = 0
  MaxLogs = 1
  MaxTries = 2
SPECIFICATION Spec
PROPERTY FinalIsFinal
CHECK_DEADLOCK FALSE
