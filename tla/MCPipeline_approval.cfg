SPECIFICATION Spec
CONSTANTS
  Stocks <- MCStocks
  Sales <- MCSales
  Forecasts <- MCForecasts
  Down = Down
  NoOutput = NoOutput
  None = None
  MaxRetries = 0
INVARIANT ApprovedReviewKeepsDecision
CHECK_DEADLOCK FALSE
