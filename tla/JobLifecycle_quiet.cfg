SPECIFICATION FairSpec
CONSTANTS
  Workers = {w1, w2}
  Handlers = {h1}
  NoRecord = NoRecord
  MaxRetries = 2
  MaxManualRetries = 0
  MaxFaults = 0
  MaxRaises = 2
INVARIANTS TypeOK LockIsHeldByExecution SettledJobIsTerminal FailedJobIsArchived
PROPERTIES EventuallyTerminal
CHECK_DEADLOCK FALSE
