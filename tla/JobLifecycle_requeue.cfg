SPECIFICATION FairSpec
CONSTANTS
  Workers = {w1, w2}
  Handlers = {h1}
  NoRecord = NoRecord
  MaxRetries = 0
  MaxManualRetries = 1
  MaxFaults = 0
  MaxRaises = 0
PROPERTY WaitingJobEnds
CHECK_DEADLOCK FALSE
