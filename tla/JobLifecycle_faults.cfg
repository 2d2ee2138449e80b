SPECIFICATION Spec
CONSTANTS
  Workers = {w1, w2}
  Handlers = {h1}
  NoRecord = NoRecord
  MaxRetries = 1
  MaxManualRetries = 1
  MaxFaults = 1
  MaxRaises = 1
INVARIANTS CompletedJobHasResult ErrorIsExplained OneExecutionAtATime AttemptsBounded
CHECK_DEADLOCK FALSE
