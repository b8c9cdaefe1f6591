CONSTANTS
  None = None
  Runs = {1, 2}
  Viewers = {v1}
  Buffer = 2
  MaxLines = 3
SPECIFICATION FairSpec
PROPERTY RunEnds
CHECK_DEADLOCK FALSE
